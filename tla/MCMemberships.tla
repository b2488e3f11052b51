---------------------------- MODULE MCMemberships ----------------------------
(* The cache, with what MCMbrdCache has in it, beside the memberships of a
   computer.  A behaviour is one of a single part. *)
EXTENDS MCMbrdCache

\* A computer in group a, which is in b and b in it.
CONSTANTS Names, MaxAsked, MaxChanged
TwoThreads == {"t1", "t2"}
AComputer == <<"always", "members">>
ThreeGroups == {"a", "b", "everyone"}
FourLinks == {<<"members", "a">>, <<"always", "everyone">>, <<"a", "b">>, <<"b", "a">>}
AtFirst == {FourLinks}

VARIABLES part, directory, fName, cached, item, refresh, asker, asked, changed
membershipsV == <<directory, fName, cached, item, refresh, asker, asked, changed>>
partsV == <<part, vars, membershipsV>>

M == INSTANCE Memberships WITH
       Clients <- TwoThreads, Searches <- AComputer, Groups <- ThreeGroups, Links <- FourLinks,
       Directories <- AtFirst
ASSUME M!MembershipAssumption

PartsInit == part \in {"cache", "memberships"} /\ Init /\ M!Init

InCache == part = "cache" /\ UNCHANGED <<part, membershipsV>>
InMemberships == part = "memberships" /\ UNCHANGED <<part, vars>>

PartsNext ==
  \/ \E c \in Clients, l \in Lookups : InCache /\ Miss(c, l)
  \/ \E c \in Clients, l \in Lookups, e \in Item : InCache /\ Hit(c, l, e)
  \/ \E c \in Clients : InCache /\ Find(c)
  \/ \E c \in Clients : InCache /\ GiveAnswer(c)
  \/ \E c \in Clients : InCache /\ Done(c)
  \/ \E e \in Item : InCache /\ SearchAgain(e)
  \/ InCache /\ Sweep
  \/ InCache /\ NodeChangeOccurred
  \/ InCache /\ Reset
  \/ InCache /\ ResetReleases
  \/ \E r \in Records, available \in BOOLEAN : InCache /\ SetNodeAvailability(r.node, available)
  \/ InMemberships /\ M!ChangeGroups
  \/ InMemberships /\ M!ChangeUser
  \/ InMemberships /\ M!Sweep
  \/ \E t \in TwoThreads, for \in {"one", "news", "all"}, told \in BOOLEAN :
       InMemberships /\ M!LookUp(t, for, told)
  \/ \E t \in TwoThreads, forced, outdated \in BOOLEAN : InMemberships /\ M!Decide(t, forced, outdated)
  \/ \E t \in TwoThreads : InMemberships /\ M!Issue(t)
  \/ \E t \in TwoThreads : InMemberships /\ M!Enqueue(t)
  \/ \E t \in TwoThreads : InMemberships /\ M!Wake(t)
  \/ \E t \in TwoThreads : InMemberships /\ M!Read(t)
  \/ InMemberships /\ \E i \in DOMAIN item : M!FindAgain(i)
  \/ InMemberships /\ \E i \in DOMAIN item : M!ResolveUser(i)
  \/ InMemberships /\ \E i \in DOMAIN item, g \in ThreeGroups : M!ResolveGroup(i, g)
  \/ InMemberships /\ \E i \in DOMAIN item : M!Resolved(i)
  \/ InMemberships /\ \E i \in DOMAIN item : M!MergeRecord(i)
  \/ InMemberships /\ \E i \in DOMAIN item : M!MergeGUIDs(i)
  \/ InMemberships /\ \E i \in DOMAIN item : M!MergeGIDs(i)
  \/ InMemberships /\ \E i \in DOMAIN item : M!Refreshed(i)

PartsSpec == PartsInit /\ [][PartsNext]_partsV /\ M!Fairness

\* Those of the cache are extended.
MembershipsAnswered == [](part = "memberships" => M!MembershipsHold) /\ M!EveryoneIsAnswered
=============================================================================
