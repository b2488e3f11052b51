------------------------------ MODULE MbrdCache ------------------------------
(***************************************************************************)
(* The membership cache (Server/Mbrd_Cache.cpp, Mbrd_HashTable.c): entries *)
(* for users, groups and computers, reference counted, in one hash for     *)
(* each kind of key and in a doubly linked list that the maintenance walks.*)
(* Lookups, sweeps, node changes and resets are blocks of gLookupQueue     *)
(* (Mbrd_MembershipResolver.cpp); a lookup that hits an entry may start a  *)
(* second search, which runs on the entry's own queue at the same time.    *)
(*                                                                         *)
(* Every update of the cache is made under fCacheLock and is one step; the *)
(* releases of a reset, made after unlocking, are one step each.  Outdated *)
(* entries are any that are available: clocks are left out, and so are     *)
(* X509 names, reserved groups and memberships (see README).               *)
(*                                                                         *)
(* Operators with a suffix (Replaces_Always) are faulty variants of the    *)
(* operator that follows; only runs that confirm a property use them.      *)
(***************************************************************************)
EXTENDS Integers, Sequences, FiniteSets

CONSTANTS
  Clients,     \* threads that ask for conversions
  Records,     \* what the directory nodes may answer
  Lookups,     \* what the clients look up
  MaxItems,    \* bound on the entries that exist at once
  MaxLookups   \* bound on the lookups

Type  == {"user", "computer", "group", "computer group"}
Field == {"guid", "sid", "id", "name", "kerberos"}
None  == << >>                          \* a key is a pair of strings
NULL  == 0

ASSUME CacheAssumption ==
  /\ \A r \in Records : r.types \subseteq Type /\ ~r.negative /\ r.node # None
  /\ \A l \in Lookups : l.field \in Field /\ l.types \subseteq Type
                        /\ l.kernel \in BOOLEAN
  /\ MaxItems \in Nat /\ MaxLookups \in Nat
  /\ IsFiniteSet(Clients) /\ Clients \cap {"free", "reset"} = {}

\* The hashes: which entries go there, and under which of their keys.
Over(f, types) == [field |-> f, types |-> types]
KerberosHash == Over("kerberos", {"user", "computer"})
Hash == {Over("guid", Type), Over("sid", Type), KerberosHash,
         Over("id", {"user", "computer"}), Over("id", {"group"})}
          \cup {Over("name", {t}) : t \in Type}

Item == 1..MaxItems

VARIABLES
  cache,        \* the hashes, the list, and the entries
  gLookupQueue, \* the client whose lookup runs, "reset", or none
  searches,     \* per entry: the second searches on its queue
  resetting,    \* the next entry the reset releases
  pc, lookup, result,   \* per client
  lookups,      \* so far, for the bound
  strayed       \* history: an entry was hashed again after it had left the list

vars == <<cache, gLookupQueue, searches, resetting, pc, lookup, result, lookups, strayed>>

NoAttr == [types |-> {}, guid |-> None, sid |-> None, id |-> None, name |-> None,
           kerberos |-> None, node |-> None, negative |-> FALSE, foundBy |-> {},
           scheduled |-> {}, available |-> TRUE]
NoLookup == [field |-> "guid", types |-> {}, value |-> None, kernel |-> FALSE]
Free == "free"

Init ==
  /\ cache = [hash |-> [h \in Hash |-> {}], head |-> NULL, tail |-> NULL,
              fLink |-> [e \in Item |-> NULL], fBackLink |-> [e \in Item |-> NULL],
              attr |-> [e \in Item |-> NoAttr], retain |-> [e \in Item |-> 0]]
  /\ gLookupQueue = Free
  /\ searches = [e \in Item |-> << >>]
  /\ resetting = NULL
  /\ pc = [c \in Clients |-> "idle"]
  /\ lookup = [c \in Clients |-> NoLookup]
  /\ result = [c \in Clients |-> NULL]
  /\ lookups = 0
  /\ strayed = FALSE

-----------------------------------------------------------------------------
(***************************************************************************)
(* The operations on a cache, composed as in the code.                     *)
(***************************************************************************)
Retain(c, e) == [c EXCEPT !.retain[e] = @ + 1]
\* The last release frees the entry.
Release(c, e) ==
  IF c.retain[e] # 1 THEN [c EXCEPT !.retain[e] = @ - 1]
  ELSE [c EXCEPT !.retain[e] = 0, !.attr[e] = NoAttr,
                 !.fLink[e] = NULL, !.fBackLink[e] = NULL]

\* An entry is retained once for each hash it is in.
HashesOf(hashes, e) == Cardinality({h \in Hash : e \in hashes[h]})
WithHashes(c, hashes) ==
  [c EXCEPT !.hash = hashes,
            !.retain = [e \in Item |-> @[e] + HashesOf(hashes, e) - HashesOf(c.hash, e)]]

BelongsIn(h, a) == a[h.field] # None /\ a.types \cap h.types # {}

\* May the entry a take the place of b, which has the same key?
Replaces_Always(h, a, b) == TRUE
Replaces(h, a, b) ==
  /\ ~(a.negative /\ b.negative)
  /\ ~(a.node # None /\ a.node = b.node /\ a.name # None /\ a.name = b.name)
  /\ h.field \in a.foundBy \/ (b.negative /\ ~a.negative)

\* __HashTable_Add to every hash the entry belongs in.
AddToHashes_KeepsOther(c, e) ==
  LET a == c.attr[e]
      Enters(h) == \A x \in c.hash[h] : c.attr[x][h.field] = a[h.field]
                                           => Replaces(h, a, c.attr[x])
  IN WithHashes(c, [h \in Hash |-> IF BelongsIn(h, a) /\ Enters(h)
                                      THEN c.hash[h] \cup {e} ELSE c.hash[h]])
AddToHashes(c, e) ==
  LET a == c.attr[e]
      Same(h) == {x \in c.hash[h] : c.attr[x][h.field] = a[h.field]}
      Enters(h) == /\ BelongsIn(h, a) /\ e \notin c.hash[h]
                   /\ \A x \in Same(h) : Replaces(h, a, c.attr[x])
  IN WithHashes(c, [h \in Hash |-> IF Enters(h) THEN (c.hash[h] \ Same(h)) \cup {e}
                                                ELSE c.hash[h]])

\* Neither this nor the reset knows the Kerberos hash.
RemoveFromHashes_OneType(c, e) ==
  LET types == c.attr[e].types
      a == [c.attr[e] EXCEPT !.types = IF "user" \in types THEN {"user"} ELSE types]
  IN WithHashes(c, [h \in Hash |-> IF h # KerberosHash /\ BelongsIn(h, a)
                                     THEN c.hash[h] \ {e} ELSE c.hash[h]])
RemoveFromHashes(c, e) ==
  WithHashes(c, [h \in Hash |-> IF h # KerberosHash /\ BelongsIn(h, c.attr[e])
                                  THEN c.hash[h] \ {e} ELSE c.hash[h]])

AddToHeadOfList(c, e) ==
  LET old == c.head
  IN [c EXCEPT !.retain[e] = @ + 1,
               !.head = e,
               !.tail = IF old = NULL THEN e ELSE @,
               !.fLink[e] = old,
               !.fBackLink = [x \in Item |-> CASE x = e -> NULL
                                               [] x # e /\ x = old -> e
                                               [] OTHER -> @[x]]]

Unlinked(c, e, tail) ==
  LET next == c.fLink[e]
      prev == c.fBackLink[e]
  IN [c EXCEPT !.tail = tail,
               !.head = IF prev = NULL THEN next ELSE @,
               !.fBackLink = [x \in Item |-> IF x = next THEN prev ELSE @[x]],
               !.fLink = [x \in Item |-> IF x = prev THEN next ELSE @[x]]]
RemoveFromList_NoTail(c, e) == Release(Unlinked(c, e, c.tail), e)
RemoveFromList(c, e) ==
  Release(Unlinked(c, e, IF c.fLink[e] = NULL THEN c.fBackLink[e] ELSE c.tail), e)

\* An entry that got into a hash goes into the list, too.
AddEntry(c, e) ==
  LET d == AddToHashes(c, e)
  IN IF d.retain[e] # c.retain[e] THEN AddToHeadOfList(d, e) ELSE d

RemoveEntry(c, e) == RemoveFromList(RemoveFromHashes(c, e), e)

\* UserGroup_Merge without memberships: the flags that say which keys there are
\* add up, so a key that the source lacks becomes what its empty field holds;
\* but a SID goes.
Blank == [guid |-> <<"guid", "0">>, id |-> <<"id", "-1">>]
MergedKey(f, a, b) == IF b[f] = None /\ a[f] # None THEN Blank[f] ELSE b[f]
Merge(c, e, source) ==
  LET a == c.attr[e]
      b == c.attr[source]
  IN [c EXCEPT !.attr[e] = [b EXCEPT !.guid = MergedKey("guid", a, b),
                                     !.id = MergedKey("id", a, b),
                                     !.foundBy = @ \cup a.foundBy,
                                     !.scheduled = @ \cup a.scheduled,
                                     !.negative = @ \/ a.negative]]

\* What AddOrUpdate returns: the cache and the entry that holds the answer.
Answer(c, e) == [cache |-> c, entry |-> e]

SameRecord(a, b) == /\ a.node # None /\ a.node = b.node /\ a.types = b.types
                    /\ a.name # None /\ a.name = b.name

UpdateExistingRecord_KeepsExisting(c, existing, source) ==
  Answer(AddEntry(RemoveEntry(c, existing), source), source)
UpdateExistingRecord(c, existing, source) ==
  LET a == c.attr[existing]
      b == c.attr[source]
  IN IF b.negative /\ (a.negative \/ ~a.available)
       THEN Answer(Release(c, source), existing)
     ELSE IF SameRecord(a, b)
       THEN Answer(Release(AddToHashes(Merge(RemoveFromHashes(c, existing),
                                             existing, source), existing), source),
                   existing)
     ELSE Answer(Release(AddEntry(RemoveEntry(c, existing), source), existing), source)

\* Only the first type of an entry that has such a hash is tried.
InOrder == <<"user", "computer", "group", "computer group">>
FirstType(types) == {t \in types : \A i, j \in 1..4 :
                       InOrder[i] = t /\ InOrder[j] \in types => i <= j}
Entries(c, f, types, value) ==
  UNION {{e \in c.hash[h] : c.attr[e][f] = value} :
           h \in {h \in Hash : h.field = f /\ h.types \cap types # {}}}

\* Entries found by SID, or in two ways, are added without a look.
Existing(c, a) ==
  UNION {Entries(c, f, FirstType(a.types), a[f]) :
           f \in {f \in Field \ {"sid"} : a.foundBy = {f}}}

\* AddOrUpdate of a new entry with these attributes: it may be returned, or
\* what it updates.
CompatGUID(a) ==
  IF a.guid = None /\ a.id # None
    THEN [a EXCEPT !.guid = <<(CHOOSE t \in FirstType(a.types) : TRUE), a.id[2]>>]
    ELSE a

Unused(c) == {e \in Item : c.retain[e] = 0}
AddOrUpdate(c, e, attributes) ==
  LET a == CompatGUID(attributes)
      new == [c EXCEPT !.attr[e] = a, !.retain[e] = 1]
      found == Existing(c, a)
  IN IF found = {} THEN Answer(AddEntry(new, e), e)
     ELSE LET x == CHOOSE x \in found : TRUE
          IN IF c.attr[x].types = a.types
               THEN UpdateExistingRecord(Retain(new, x), x, e)
               ELSE Answer(AddEntry(RemoveEntry(
                             [new EXCEPT !.attr[x].available = TRUE], x), e), e)

-----------------------------------------------------------------------------
(***************************************************************************)
(* Searching the directory.  A node may have any record that matches, or   *)
(* none any more; then a negative entry is made.                           *)
(***************************************************************************)
Matching(l) == {r \in Records : r[l.field] = l.value /\ r.types \cap l.types # {}}

\* For the kernel an unknown GUID or SID gets a temporary ID, and so does what is
\* found without an ID.
TempID(value) == <<"temp", value[2]>>
Negative(l) ==
  LET temp == l.kernel /\ l.field \in {"guid", "sid"}
  IN [NoAttr EXCEPT !.types = l.types,
                    ![l.field] = l.value,
                    !.negative = TRUE,
                    !.foundBy = {l.field} \cup (IF temp THEN {"id"} ELSE {}),
                    !.id = IF temp THEN TempID(l.value)
                           ELSE IF l.field = "id" THEN l.value ELSE None]
Positive(l, r) ==
  LET temp == l.kernel /\ r.types # {"computer group"} /\ r.id = None /\ r.guid # None
      a == [f \in DOMAIN NoAttr |-> IF f \in DOMAIN r THEN r[f] ELSE NoAttr[f]]
  IN [a EXCEPT !.foundBy = {l.field} \cup (IF temp THEN {"id"} ELSE {}),
               !.id = IF temp THEN TempID(r.guid) ELSE @]

Outcomes(l) == {Positive(l, r) : r \in Matching(l)} \cup {Negative(l)}

\* The n-th entry of a list that starts at e.
Nth(c, e) ==
  LET nth[n \in 0..MaxItems] ==
        IF n = 0 THEN e ELSE IF nth[n - 1] = NULL THEN NULL ELSE c.fLink[nth[n - 1]]
  IN nth
Chain(c, e) == LET nth == Nth(c, e) IN {nth[n] : n \in 0..MaxItems} \ {NULL}
Listed == Chain(cache, cache.head)

\* Server/Mbrd_Cache.cpp:241 "if the ref count changed (i.e., it was added to some
\* hashes), then we need to add to our list as well": what lookups can find is in
\* the list, where sweeps find it.
HashedIsListed == UNION {cache.hash[h] : h \in Hash} \subseteq Listed

LeastUnused(e) == e \in Unused(cache) /\ \A x \in Unused(cache) : e <= x

-----------------------------------------------------------------------------
(***************************************************************************)
(* A lookup, a block of gLookupQueue.                                      *)
(***************************************************************************)
\* A hit starts a second search the first time the entry is looked up by this
\* kind of key; it makes no negative entry if the key has found the entry.
Hits(l) ==
  LET In(t) == Entries(cache, l.field, {t}, l.value)
  IN IF l.types = Type THEN Entries(cache, l.field, Type, l.value)
     ELSE UNION {In(t) : t \in FirstType({t \in l.types : In(t) # {}})}

Begin(c, l) ==
  /\ pc[c] = "idle" /\ gLookupQueue = Free
  /\ lookups < MaxLookups
  /\ lookups' = lookups + 1
  /\ gLookupQueue' = c
  /\ lookup' = [lookup EXCEPT ![c] = l]
  /\ UNCHANGED <<resetting, strayed>>

Hit(c, l, e) ==
  /\ Begin(c, l)
  /\ e \in Hits(l)
  /\ result' = [result EXCEPT ![c] = e]
  /\ pc' = [pc EXCEPT ![c] = "answer"]
  /\ LET a == cache.attr[e]
         spares == (l.field \in a.foundBy /\ ~a.negative) \/ l.field = "sid"
         again == [lookup |-> l, noNegative |-> spares]
     IN IF l.field \in a.scheduled
          THEN cache' = Retain(cache, e) /\ UNCHANGED searches
          ELSE /\ searches' = [searches EXCEPT ![e] = Append(@, again)]
               /\ cache' = [cache EXCEPT !.attr[e].scheduled = @ \cup {l.field},
                                         !.retain[e] = @ + 2]

Miss(c, l) ==
  /\ Begin(c, l)
  /\ Hits(l) = {}
  /\ pc' = [pc EXCEPT ![c] = "find"]
  /\ UNCHANGED <<cache, searches, result>>

Find(c) ==
  /\ pc[c] = "find"
  /\ \E e \in Item, a \in Outcomes(lookup[c]) :
       /\ LeastUnused(e)
       /\ LET answer == AddOrUpdate(cache, e, a)
          IN /\ cache' = answer.cache
             /\ result' = [result EXCEPT ![c] = answer.entry]
  /\ pc' = [pc EXCEPT ![c] = "answer"]
  /\ UNCHANGED <<gLookupQueue, searches, resetting, lookup, lookups, strayed>>

\* MbrdCache_RefreshHashes, for an entry that has got a temporary ID.
RefreshHashes(c, e) == AddToHashes(RemoveFromHashes(c, e), e)

\* The kernel gets a negative entry, with an ID; others do not get it.  The entry
\* may have left the cache since the lookup hit it, and is hashed all the same.
GiveAnswer(c) ==
  /\ pc[c] = "answer"
  /\ gLookupQueue' = Free
  /\ LET e == result[c]
         a == cache.attr[e]
         key == IF a.guid # None THEN a.guid ELSE a.sid
         refreshed == a.negative /\ lookup[c].kernel /\ a.id = None
     IN /\ strayed' = (strayed \/ (refreshed /\ e \notin Listed))
        /\ IF a.negative /\ ~lookup[c].kernel
           THEN /\ cache' = Release(cache, e)
                /\ result' = [result EXCEPT ![c] = NULL]
                /\ pc' = [pc EXCEPT ![c] = "idle"]
           ELSE /\ cache' = IF refreshed
                              THEN RefreshHashes([cache EXCEPT !.attr[e].id = TempID(key)], e)
                              ELSE cache
                /\ pc' = [pc EXCEPT ![c] = "answered"]
                /\ UNCHANGED result
  /\ UNCHANGED <<searches, resetting, lookup, lookups>>

Done(c) ==
  /\ pc[c] = "answered"
  /\ cache' = Release(cache, result[c])
  /\ result' = [result EXCEPT ![c] = NULL]
  /\ pc' = [pc EXCEPT ![c] = "idle"]
  /\ UNCHANGED <<gLookupQueue, searches, resetting, lookup, lookups, strayed>>

\* The second search for an entry, on its queue; both entries are released.
SearchAgain(e) ==
  /\ searches[e] # << >>
  /\ searches' = [searches EXCEPT ![e] = Tail(@)]
  /\ LET s == Head(searches[e])
     IN \/ /\ s.noNegative
           /\ cache' = Release(cache, e)
        \/ \E x \in Item, a \in Outcomes(s.lookup) :
             /\ LeastUnused(x)
             /\ a.negative => ~s.noNegative
             /\ LET answer == AddOrUpdate(cache, x, a)
                IN cache' = Release(Release(answer.cache, answer.entry), e)
  /\ UNCHANGED <<gLookupQueue, resetting, pc, lookup, result, lookups, strayed>>

-----------------------------------------------------------------------------
(***************************************************************************)
(* Maintenance.                                                            *)
(***************************************************************************)
\* RemoveEntry of each, in the order of the list.
RemoveAll(c, S) ==
  LET at == Nth(c, c.head)
      after[n \in 0..MaxItems] ==
        IF n = 0 THEN c
        ELSE IF at[n - 1] \in S THEN RemoveEntry(after[n - 1], at[n - 1])
                                ELSE after[n - 1]
  IN after[MaxItems]

Maintain ==
  /\ gLookupQueue = Free
  /\ UNCHANGED <<gLookupQueue, searches, resetting, pc, lookup, result, lookups, strayed>>

\* Any available entries may be outdated.
Sweep ==
  /\ Maintain
  /\ \E S \in SUBSET {e \in Listed : cache.attr[e].available} :
       cache' = RemoveAll(cache, S)

NodeChangeOccurred ==
  /\ Maintain
  /\ cache' = RemoveAll(cache, {e \in Listed : cache.attr[e].negative})

\* Any thread, under fCacheLock only.
SetNodeAvailability(node, available) ==
  /\ cache' = [cache EXCEPT !.attr =
                 [e \in Item |-> IF e \in Listed /\ @[e].node = node
                                   THEN [@[e] EXCEPT !.available = available] ELSE @[e]]]
  /\ UNCHANGED <<gLookupQueue, searches, resetting, pc, lookup, result, lookups, strayed>>

\* The reset empties the hashes and the list under the lock ...
Reset ==
  /\ gLookupQueue = Free
  /\ gLookupQueue' = "reset"
  /\ resetting' = cache.head
  /\ cache' = [WithHashes(cache, [h \in Hash |-> IF h = KerberosHash THEN cache.hash[h]
                                                                     ELSE {}])
                 EXCEPT !.head = NULL, !.tail = NULL]
  /\ UNCHANGED <<searches, pc, lookup, result, lookups, strayed>>

\* ... and then releases what was in the list, along its links.
ResetReleases ==
  /\ gLookupQueue = "reset"
  /\ IF resetting = NULL
       THEN gLookupQueue' = Free /\ UNCHANGED <<cache, resetting>>
       ELSE /\ resetting' = cache.fLink[resetting]
            /\ cache' = Release(cache, resetting)
            /\ UNCHANGED gLookupQueue
  /\ UNCHANGED <<searches, pc, lookup, result, lookups, strayed>>

-----------------------------------------------------------------------------
Next ==
  \/ \E c \in Clients :
       \/ \E l \in Lookups : Miss(c, l) \/ \E e \in Item : Hit(c, l, e)
       \/ Find(c) \/ GiveAnswer(c) \/ Done(c)
  \/ \E e \in Item : SearchAgain(e)
  \/ Sweep \/ NodeChangeOccurred \/ Reset \/ ResetReleases
  \/ \E r \in Records, available \in BOOLEAN : SetNodeAvailability(r.node, available)

Spec == Init /\ [][Next]_vars

Attributes ==
  [types : SUBSET Type, guid : Seq(STRING), sid : Seq(STRING), id : Seq(STRING),
   name : Seq(STRING), kerberos : Seq(STRING), node : Seq(STRING),
   negative : BOOLEAN, foundBy : SUBSET Field, scheduled : SUBSET Field,
   available : BOOLEAN]
MaybeItem == Item \cup {NULL}

TypeOK ==
  /\ cache.hash \in [Hash -> SUBSET Item]
  /\ cache.head \in MaybeItem /\ cache.tail \in MaybeItem
  /\ cache.fLink \in [Item -> MaybeItem] /\ cache.fBackLink \in [Item -> MaybeItem]
  /\ cache.attr \in [Item -> Attributes]
  /\ cache.retain \in [Item -> Nat]
  /\ gLookupQueue \in Clients \cup {"reset", Free}
  /\ searches \in [Item -> Seq([lookup : Lookups, noNegative : BOOLEAN])]
  /\ resetting \in MaybeItem
  /\ pc \in [Clients -> {"idle", "find", "answer", "answered"}]
  /\ lookup \in [Clients -> Lookups \cup {NoLookup}]
  /\ result \in [Clients -> MaybeItem]
  /\ lookups \in 0..MaxLookups
  /\ strayed \in BOOLEAN

(* An entry that was hashed again after it had left the list (strayed) is removed  *)
(* from a list it is not in, and released for it: from then on links, counts and   *)
(* keys are those of memory in use by others, and the properties below say no more. *)

\* What lookups can find is listed until then: conflicts, merges, second searches and
\* maintenance never leave an entry in one of the hashes and not in the list.
HashedIsListedBefore == ~strayed => HashedIsListed

\* The list is whole: walked forwards it ends at the tail, each entry once, and
\* its back links are the forward links reversed.
ListIsWhole == ~strayed =>
  LET at == Nth(cache, cache.head)
  IN /\ at[MaxItems] = NULL
     /\ \A e \in Listed : cache.fLink[e] = NULL <=> e = cache.tail
     /\ (cache.tail = NULL) = (cache.head = NULL)
     /\ \A n \in 1..MaxItems : at[n] # NULL => cache.fBackLink[at[n]] = at[n - 1]
     /\ cache.head # NULL => cache.fBackLink[cache.head] = NULL

Kept == Listed \cup (IF gLookupQueue = "reset" THEN Chain(cache, resetting) ELSE {})

\* An entry's reference count is one for each hash, the list, a reset that has yet
\* to release it, each client that has it, and each second search for it: lookups,
\* updates and maintenance neither free it early nor leak it.
RetainCountsExact == ~strayed =>
  \A e \in Item :
    cache.retain[e] = HashesOf(cache.hash, e)
                      + (IF e \in Kept THEN 1 ELSE 0)
                      + Cardinality({c \in Clients : result[c] = e})
                      + Len(searches[e])

\* A hash keeps one entry for a key, and each under its current key, through
\* merges that change the keys.
Unambiguous == ~strayed =>
  \A h \in Hash : \A x, y \in cache.hash[h] :
    /\ BelongsIn(h, cache.attr[x])
    /\ cache.attr[x][h.field] = cache.attr[y][h.field] => x = y

\* An entry that was found by a key stays where that key leads, as long as it is
\* listed with that key, unless another one found by it takes its place: what is
\* found in other ways never shadows it.
AuthorityStays ==
  [][\A h \in Hash : \A x \in cache.hash[h] :
       /\ ~strayed'
       /\ x \in Listed' /\ x \notin cache'.hash[h]
       /\ ~cache'.attr[x].negative
       /\ cache'.attr[x][h.field] = cache.attr[x][h.field]
       /\ h.field \in cache.attr[x].foundBy
       => \E y \in cache'.hash[h] : /\ h.field \in cache'.attr[y].foundBy
                                    /\ cache'.attr[y][h.field] = cache.attr[x][h.field]]_vars

\* Server/Mbrd_Cache.cpp:277 "if we are updating a record as a not found, but he
\* original is offline, we don't do anything": an entry of a node that is offline
\* stays, until the reset or a found record replaces it.
OfflineStays ==
  [][\A e \in Listed :
       ~cache.attr[e].negative /\ ~cache.attr[e].available /\ e \notin Listed'
         => \/ gLookupQueue' = "reset"
            \/ \E x \in Listed' \ Listed : ~cache'.attr[x].negative]_vars
=============================================================================
