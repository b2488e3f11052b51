---------------------------- MODULE Memberships ----------------------------
(***************************************************************************)
(* The memberships of a user (Server/Mbrd_MembershipResolver.cpp,          *)
(* Mbrd_UserGroup.cpp): requests ask whether a user is in a group, or for  *)
(* all groups of a user; the first one, and those that find the answer     *)
(* outdated, have the groups searched on the refresh queue of the entry,   *)
(* through groups in groups, which may be in a circle.                     *)
(*                                                                         *)
(* An item is an entry of the membership cache for the one user, of which  *)
(* the cache keeps the last (MbrdCache has the cache itself).  A record of *)
(* another name is another entry.  Whether an answer is outdated is open.  *)
(* Of the three hashes of memberships the ones by GUID and by group ID are *)
(* here, that by SID goes as these two; the hashes of the groups, which    *)
(* nobody reads, are left out.                                             *)
(***************************************************************************)
EXTENDS Naturals, Sequences, FiniteSets, SequencesExt

CONSTANTS
  Clients,     \* threads with a request
  Searches,    \* the searches for a user: the primary group, the groups that list
               \* its name, the group everybody is in, those that list its GUID;
               \* for a computer the last two
  Groups,
  Links,       \* the pairs <<where, group>> the directory may have: where is
               \* one of Searches or a group nested in the other
  Directories, \* and those it may have at first
  Names,       \* the names the user's record may have
  MaxItems,    \* bound on the entries for the user
  MaxAsked,    \* bound on the requests
  MaxChanged   \* bound on the changes of the directory, and of the cache

\* What the constants must be; a module that gives them values assumes it.
MembershipAssumption ==
  /\ Searches # << >> /\ Range(Searches) \cap {"groups", "merge", "rest"} = {}
  /\ Directories \subseteq SUBSET Links
  /\ Links \subseteq (Range(Searches) \cup Groups) \X Groups
  /\ MaxItems \in Nat \ {0} /\ MaxAsked \in Nat /\ MaxChanged \in Nat

VARIABLES
  directory,  \* the pairs there are now
  fName,      \* the name of the user's record, or "none"
  cached,     \* the item the cache has for the user, or 0
  item,       \* the items so far
  refresh,    \* per item: what the block on its refresh queue is doing
  asker,      \* per client: its request
  asked, changed
vars == <<directory, fName, cached, item, refresh, asker, asked, changed>>

Item == DOMAIN item
NewItem(name) ==
  [fName |-> name, notFound |-> name = "none", valid |-> FALSE, fRefreshActive |-> FALSE,
   queue |-> << >>, fGUIDMembershipHash |-> {}, fGIDMembershipHash |-> {},
   sure |-> {}, may |-> {}]
Resting == [pc |-> "rest", refreshed |-> 0, into |-> 0, fName |-> "none", notFound |-> FALSE,
            found |-> {}, nested |-> {}, steady |-> {}, seen |-> {}]
NoRequest == [pc |-> "idle", of |-> 0, for |-> "one", waits |-> FALSE, early |-> FALSE]

Init ==
  /\ directory \in Directories
  /\ fName \in Names
  /\ cached = 0
  /\ item = << >>
  /\ refresh = [i \in 1..MaxItems |-> Resting]
  /\ asker = [c \in Clients |-> NoRequest]
  /\ asked = 0 /\ changed = 0

-----------------------------------------------------------------------------
(* The directory and the cache.                                            *)

\* Mbrd_FindItemAndRetain: a record of the name the entry has goes into it, one
\* of another name makes a new one; so does a record that is gone, unless the
\* entry says so already.
Same == cached # 0 /\ item[cached].fName = fName
Found == IF Same THEN cached ELSE Len(item) + 1
Items == IF Same THEN item ELSE Append(item, NewItem(fName))

\* A change of the directory; the searches under way may see either.
Change(directory1, name) ==
  /\ changed < MaxChanged
  /\ changed' = changed + 1
  /\ directory' = directory1
  /\ fName' = name
  /\ refresh' = [i \in DOMAIN refresh |->
       [refresh[i] EXCEPT !.steady = @ \cap directory1, !.seen = IF refresh[i].pc = "rest" THEN @ ELSE @ \cup directory1]]
  /\ UNCHANGED <<cached, item, asker, asked>>
ChangeGroups == \E l \in Links : /\ l[1] # "always"
                                 /\ Change(IF l \in directory THEN directory \ {l} ELSE directory \cup {l}, fName)
ChangeUser == \E name \in Names \cup {"none"} : name # fName /\ Change(directory, name)

\* The cache is swept or reset; who has the entry keeps it.
Sweep ==
  /\ cached # 0 /\ changed < MaxChanged
  /\ changed' = changed + 1
  /\ cached' = 0
  /\ UNCHANGED <<directory, fName, item, refresh, asker, asked>>

-----------------------------------------------------------------------------
(* The requests.                                                           *)

Set(c, r) == asker' = [asker EXCEPT ![c] = r]

\* Mbrd_ProcessLookup (one group, or news), Mbrd_ProcessGetGroups and
\* Mbrd_ProcessGetAllGroups (all): the user is found.  They go no further when
\* the user is not there, nor when the user's record tells the answer: the
\* groups netaccounts and localaccounts, the user's own SID.  The group of
\* everybody is answered before, without the user.
LookUp(c, for, told) ==
  /\ asker[c].pc = "idle" /\ asked < MaxAsked
  /\ told => for = "one"
  /\ asked' = asked + 1
  /\ LET hit == cached # 0
         of == IF hit THEN cached ELSE Found
         items == IF hit THEN item ELSE Items
     IN /\ of <= MaxItems
        /\ cached' = of /\ item' = items
        /\ Set(c, IF told \/ items[of].notFound THEN NoRequest
                  ELSE [NoRequest EXCEPT !.pc = "decide", !.of = of, !.for = for])
  /\ UNCHANGED <<directory, fName, refresh, changed>>

\* Mbrd_GenerateItemMembership, the block on the entry's queue: outdated, or
\* (forced) the request wants news.  Without a group such a request only
\* starts the refresh, and does nothing when there is nothing to refresh.
Decide(c, forced, outdated) ==
  LET r == asker[c]
      i == item[r.of]
      idle == r.for = "news" /\ ~i.valid
      needed == ~i.valid \/ forced
      waits == needed /\ r.for # "news"
      issues == ~idle /\ (needed \/ outdated) /\ ~i.fRefreshActive
  IN /\ r.pc = "decide" /\ (forced => r.for # "all")
     /\ item' = [item EXCEPT ![r.of].fRefreshActive = @ \/ issues]
     /\ Set(c, [r EXCEPT !.waits = waits,
                         !.pc = IF issues THEN "issue" ELSE IF waits THEN "wait" ELSE "read"])
     /\ UNCHANGED <<directory, fName, cached, refresh, asked, changed>>

\* The refresh is queued, after the block has ended.
Issue(c) ==
  LET r == asker[c] IN
  /\ r.pc = "issue"
  /\ item' = [item EXCEPT ![r.of].queue = Append(@, "refresh")]
  /\ Set(c, [r EXCEPT !.pc = IF r.waits THEN "wait" ELSE "read"])
  /\ UNCHANGED <<directory, fName, cached, refresh, asked, changed>>

\* Waiting is a block on the same queue, behind the refresh.
Enqueue(c) ==
  LET r == asker[c] IN
  /\ r.pc = "wait"
  /\ item' = [item EXCEPT ![r.of].queue = Append(@, c)]
  /\ Set(c, [r EXCEPT !.pc = "waiting",
                      !.early = \E other \in Clients : asker[other].pc = "issue" /\ asker[other].of = r.of])
  /\ UNCHANGED <<directory, fName, cached, refresh, asked, changed>>

Wake(c) ==
  LET r == asker[c] IN
  /\ r.pc = "waiting" /\ Head(item[r.of].queue) = c
  /\ item' = [item EXCEPT ![r.of].queue = Tail(@)]
  /\ Set(c, [r EXCEPT !.pc = "read"])
  /\ UNCHANGED <<directory, fName, cached, refresh, asked, changed>>

\* IsUserMemberOfGroupByGUID and ByGID look the group up in a hash,
\* UserGroup_GetGroups lists that by GUID: see MembershipsHold for what they find.
Read(c) ==
  /\ asker[c].pc = "read"
  /\ Set(c, NoRequest)
  /\ UNCHANGED <<directory, fName, cached, item, refresh, asked, changed>>

-----------------------------------------------------------------------------
(* The refresh of item i, a block on its refresh queue.                    *)

Go(i, job) == refresh' = [refresh EXCEPT ![i] = job]
UnchangedByRefresh == UNCHANGED <<directory, fName, asker, asked, changed>>

\* The record is searched again; a copy of it gets the memberships, if the
\* record is there.
FindAgain(i) ==
  /\ refresh[i].pc = "rest" /\ item[i].queue # << >> /\ Head(item[i].queue) = "refresh"
  /\ Found <= MaxItems
  /\ cached' = Found /\ item' = Items
  /\ LET record == Items[Found] IN
     Go(i, [pc |-> IF record.notFound THEN "merge" ELSE Searches[1],
            refreshed |-> Found, into |-> Found, fName |-> record.fName, notFound |-> record.notFound,
            found |-> {}, nested |-> {}, steady |-> directory, seen |-> directory])
  /\ UnchangedByRefresh

\* addToHashesAndRelease: a group that is new to the user is searched for the
\* groups it is in, by a block of its own.
With(job, groups) ==
  [job EXCEPT !.found = @ \cup groups, !.nested = @ \cup (groups \ job.found)]
In(where) == {g \in Groups : <<where, g>> \in directory}

\* Mbrd_ResolveGroupsForItem for the user: one search after the other, while
\* the blocks for the groups found run.
ResolveUser(i) ==
  LET job == refresh[i] IN
  \E n \in DOMAIN Searches :
    /\ job.pc = Searches[n]
    /\ Go(i, [With(job, In(Searches[n])) EXCEPT
                !.pc = IF n < Len(Searches) THEN Searches[n + 1] ELSE "groups"])
    /\ UnchangedByRefresh /\ UNCHANGED <<cached, item>>

ResolveGroup_NoGuard(i, g) ==
  /\ g \in refresh[i].nested
  /\ Go(i, [refresh[i] EXCEPT !.found = @ \cup In(g), !.nested = (@ \ {g}) \cup In(g)])
  /\ UnchangedByRefresh /\ UNCHANGED <<cached, item>>
\* For a group: those it is nested in.
ResolveGroup(i, g) ==
  /\ g \in refresh[i].nested
  /\ Go(i, LET job == [refresh[i] EXCEPT !.nested = @ \ {g}] IN With(job, In(g)))
  /\ UnchangedByRefresh /\ UNCHANGED <<cached, item>>

\* dispatch_group_wait: all blocks for groups have ended.
Resolved_Early(i) ==
  /\ refresh[i].pc = "groups"
  /\ Go(i, [refresh[i] EXCEPT !.nested = {}, !.pc = "merge"])
  /\ UnchangedByRefresh /\ UNCHANGED <<cached, item>>
Resolved(i) ==
  /\ refresh[i].pc = "groups" /\ refresh[i].nested = {}
  /\ Go(i, [refresh[i] EXCEPT !.pc = "merge"])
  /\ UnchangedByRefresh /\ UNCHANGED <<cached, item>>

\* What a search brings when the directory has these links.
RECURSIVE Spread(_, _)
Spread(groups, links) ==
  LET more == groups \cup {l[2] : l \in {k \in links : k[1] \in groups}}
  IN IF more = groups THEN groups ELSE Spread(more, links)
Closure(links) == Spread({l[2] : l \in {k \in links : k[1] \in Range(Searches)}}, links)

\* UserGroup_Merge of the copy into the item found, then the one asked for,
\* under its lock: it becomes the record; its hashes are emptied and filled,
\* one after the other, when the copy has memberships.
Locked(x) == \E j \in Item : refresh[j].pc \in {"fill guid", "fill gid"} /\ refresh[j].into = x
MergeRecord(i) ==
  LET job == refresh[i]
      x == job.into
  IN /\ job.pc = "merge" /\ ~Locked(x)
     /\ item' = [item EXCEPT ![x].fName = job.fName, ![x].notFound = @ \/ job.notFound,
                             ![x].fGUIDMembershipHash = IF job.notFound THEN @ ELSE {}]
     /\ Go(i, [job EXCEPT !.pc = IF job.notFound THEN "merged" ELSE "fill guid"])
     /\ UnchangedByRefresh /\ UNCHANGED cached
MergeGUIDs(i) ==
  LET job == refresh[i] IN
  /\ job.pc = "fill guid"
  /\ item' = [item EXCEPT ![job.into].fGUIDMembershipHash = job.found, ![job.into].fGIDMembershipHash = {},
                          ![job.into].sure = Closure(job.steady), ![job.into].may = Closure(job.seen)]
  /\ Go(i, [job EXCEPT !.pc = "fill gid"])
  /\ UnchangedByRefresh /\ UNCHANGED cached
MergeGIDs(i) ==
  LET job == refresh[i] IN
  /\ job.pc = "fill gid"
  /\ item' = [item EXCEPT ![job.into].fGIDMembershipHash = job.found, ![job.into].valid = TRUE]
  /\ Go(i, [job EXCEPT !.pc = "merged"])
  /\ UnchangedByRefresh /\ UNCHANGED cached

\* After both items, another refresh of either may start.
Refreshed(i) ==
  LET job == refresh[i] IN
  /\ job.pc = "merged"
  /\ IF job.into # i
     THEN /\ Go(i, [job EXCEPT !.pc = "merge", !.into = i])
          /\ UNCHANGED item
     ELSE /\ item' = [[item EXCEPT ![i].fRefreshActive = FALSE, ![i].queue = Tail(@)]
                        EXCEPT ![job.refreshed].fRefreshActive = FALSE]
          /\ Go(i, Resting)
  /\ UnchangedByRefresh /\ UNCHANGED cached

Next ==
  \/ ChangeGroups
  \/ ChangeUser
  \/ Sweep
  \/ \E c \in Clients, for \in {"one", "news", "all"}, told \in BOOLEAN : LookUp(c, for, told)
  \/ \E c \in Clients, forced, outdated \in BOOLEAN : Decide(c, forced, outdated)
  \/ \E c \in Clients : Issue(c) \/ Enqueue(c) \/ Wake(c) \/ Read(c)
  \/ \E i \in Item : FindAgain(i) \/ ResolveUser(i) \/ Resolved(i) \/ MergeRecord(i)
                       \/ MergeGUIDs(i) \/ MergeGIDs(i) \/ Refreshed(i)
  \/ \E i \in Item, g \in Groups : ResolveGroup(i, g)

\* Blocks that are queued run, and a request under way goes on.
Proceeds(c) == Issue(c) \/ Enqueue(c) \/ Wake(c) \/ Read(c) \/ Decide(c, FALSE, FALSE)
Runs(i) == /\ i \in Item
           /\ \/ FindAgain(i) \/ ResolveUser(i) \/ (\E g \in Groups : ResolveGroup(i, g))
              \/ Resolved(i) \/ MergeRecord(i) \/ MergeGUIDs(i) \/ MergeGIDs(i) \/ Refreshed(i)
Fairness == /\ \A c \in Clients : WF_vars(Proceeds(c))
            /\ \A i \in 1..MaxItems : WF_vars(Runs(i))

Spec == Init /\ [][Next]_vars /\ Fairness

-----------------------------------------------------------------------------
(* Properties.                                                             *)

\* The memberships an item answers from are what its last search could find:
\* nothing that no links led to while it ran, and all that links led to which
\* were there all the time, however groups are nested, in whatever order the
\* blocks for them ran and whoever merged into the item; except that a hash is
\* empty for a moment when it is exchanged, and who does not wait for the
\* refresh then reads it so.
Exchanged(x, pc) == \E i \in Item : refresh[i].pc = pc /\ refresh[i].into = x
MembershipsAreClosures ==
  \A x \in Item :
    /\ item[x].fGUIDMembershipHash \cup item[x].fGIDMembershipHash \subseteq item[x].may
    /\ Exchanged(x, "fill guid") \/ item[x].sure \subseteq item[x].fGUIDMembershipHash
    /\ Exchanged(x, "fill gid") \/ item[x].sure \subseteq item[x].fGIDMembershipHash

\* Who waits for a refresh that somebody else has begun reads memberships,
\* unless the user is not there, or the other one has set fRefreshActive and
\* not put the refresh into the queue yet.
WaitersFindThem ==
  \A c \in Clients : asker[c].pc = "read" /\ asker[c].waits
                       => asker[c].early \/ item[asker[c].of].valid \/ item[asker[c].of].notFound

MembershipsHold == MembershipsAreClosures /\ WaitersFindThem

\* Every request is answered, whoever refreshes and however groups are nested.
EveryoneIsAnswered == \A c \in Clients : (asker[c].pc # "idle") ~> (asker[c].pc = "idle")
=============================================================================
