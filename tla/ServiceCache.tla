---------------------------- MODULE ServiceCache ----------------------------
(***************************************************************************)
(* The Redis cache in front of GET /me, GET /batches, GET /batches/{bid}   *)
(* and the list of recent predictions.  A read looks its name up, and on a *)
(* miss loads the view from Postgres and stores it; a change clears names  *)
(* before its transaction commits.  Requests of the API, the worker and    *)
(* the ingest service interleave, and every call of the cache may fail,    *)
(* which the code passes over in silence.                                  *)
(***************************************************************************)
EXTENDS Naturals, Sequences, SequencesExt

CONSTANTS
  User,       \* users.id values
  Batch,      \* batches.id values
  Reader,     \* reads that may be in progress at the same time
  Writer,     \* transactions that may be in progress at the same time
  NoEntry,    \* nothing is stored under a name
  CacheFails, \* whether calls of the cache may fail
  Kinds,      \* the kinds of view clients ask for
  Slow,       \* bound: ticks a read may take from its load to its store
  Oldest      \* bound: copies that are staler than this are not told apart

ASSUME CacheAssumption ==
  /\ CacheFails \in BOOLEAN
  /\ Slow \in Nat
  /\ Oldest \in Nat \ {0}
  /\ "list" \notin Batch
  /\ Kinds \subseteq {"user", "batch", "list", "recent"}

(***************************************************************************)
(* The names that the services give to backend.get and backend.set, as the *)
(* sequence of their parts: "user:{id}", "batches:list", "batches:{id}"    *)
(* and "predictions:recent".                                               *)
(***************************************************************************)
UserName(u) == <<"user", u>>
BatchName(b) == <<"batches", b>>
ListName == <<"batches", "list">>
RecentName == <<"predictions", "recent">>

Name ==
  {UserName(u) : u \in User} \cup {BatchName(b) : b \in Batch} \cup {ListName, RecentName}

Kind(n) ==
  CASE n = ListName -> "list"
    [] n = RecentName -> "recent"
    [] n[1] = "user" -> "user"
    [] OTHER -> "batch"

\* Time to live, in ticks of 15 seconds.
TTL == [user |-> 4, batch |-> 2, list |-> 2, recent |-> 1]

\* FastAPICache.clear(namespace=ns) deletes the names below "doc-classifier:" and ns.
Prefix == <<"doc-classifier">>

Below(ns) == {n \in Name : IsStrictPrefix(Prefix \o ns, n)}

VARIABLES
  rows,     \* the names that have a committed row to show
  cache,    \* what Redis stores under each name
  reader,   \* the reads in progress
  writer    \* the transactions in progress

vars == <<rows, cache, reader, writer>>

(***************************************************************************)
(* A copy of a view is an entry or what a read holds.  Its "stale" is 0    *)
(* while the database says the same, and counts ticks from 1 on once a     *)
(* commit has outdated it.  "found" tells whether it shows a row, "took"   *)
(* how many ticks a read has held it, "left" what is left of an entry.     *)
(***************************************************************************)
Entry == [kind : DOMAIN TTL, found : BOOLEAN, stale : 0 .. Oldest, left : 1 .. 4]

ASSUME NoEntryAssumption == NoEntry \notin Entry

NoRead == [pc |-> "idle"]
NoChange == [pc |-> "idle"]

Read == [pc : {"lookup", "load", "store"}, name : Name, kind : DOMAIN TTL,
         found : BOOLEAN, stale : 0 .. Oldest, took : 0 .. Slow]

UserChange == [op : {"toggle_role", "delete_user"}, about : User]
BatchChange == [op : {"review", "record", "ingest"}, about : Batch]

Change == [pc : {"clear", "commit"}, change : UserChange \cup BatchChange]

TypeOK ==
  /\ rows \in SUBSET Name
  /\ cache \in [Name -> Entry \cup {NoEntry}]
  /\ reader \in [Reader -> Read \cup {NoRead}]
  /\ writer \in [Writer -> Change \cup {NoChange}]

\* Nothing was ingested yet and the users are registered.
Init ==
  /\ rows = {n \in Name : Kind(n) # "batch"}
  /\ cache = [n \in Name |-> NoEntry]
  /\ reader = [r \in Reader |-> NoRead]
  /\ writer = [w \in Writer |-> NoChange]

Cached(n) == cache[n] # NoEntry

-----------------------------------------------------------------------------
(***************************************************************************)
(* Reads.  GET /me and GET /batches/{bid} name what they ask for; "list"   *)
(* is a possible {bid}.                                                    *)
(***************************************************************************)
Asked ==
  {q \in [name : Name, kind : Kinds] :
     q.kind = Kind(q.name) \/ q = [name |-> ListName, kind |-> "batch"]}

\* get_current_user reads the row of the token's user and rejects a token without
\* one; the other reads hold no copy of what they ask for.
Begin(r) ==
  /\ reader[r] = NoRead
  /\ \E q \in Asked :
       /\ q.kind = "user" => q.name \in rows
       /\ reader' = [reader EXCEPT ![r] =
            [pc |-> "lookup", name |-> q.name, kind |-> q.kind,
             found |-> q.kind = "user", stale |-> 0, took |-> 0]]
  /\ UNCHANGED <<rows, cache, writer>>

Ends(r) == reader' = [reader EXCEPT ![r] = NoRead]

\* Mutant of Hit: looking an entry up starts its time to live again.
HitRestartsTTL(r) ==
  /\ reader[r].pc = "lookup"
  /\ Cached(reader[r].name)
  /\ Ends(r)
  /\ cache' = [cache EXCEPT ![reader[r].name].left = TTL[Kind(reader[r].name)]]
  /\ UNCHANGED <<rows, writer>>

\* The entry is the answer.  When it is of another kind than the answer should be,
\* its validation raises and the request fails.
Hit(r) ==
  /\ reader[r].pc = "lookup"
  /\ Cached(reader[r].name)
  /\ Ends(r)
  /\ UNCHANGED <<rows, cache, writer>>

\* Nothing is stored, or the cache cannot be reached.
Miss(r) ==
  /\ reader[r].pc = "lookup"
  /\ CacheFails \/ ~Cached(reader[r].name)
  /\ reader' = [reader EXCEPT ![r].pc = "load", ![r].found = FALSE, ![r].stale = 0]
  /\ UNCHANGED <<rows, cache, writer>>

Loaded(r, found) ==
  reader' = [reader EXCEPT ![r].pc = "store", ![r].found = found, ![r].stale = 0]

\* Mutant of Load: a row that is not there is answered, and cached, as empty.
LoadAbsent(r) ==
  /\ reader[r].pc = "load"
  /\ Loaded(r, reader[r].name \in rows)
  /\ UNCHANGED <<rows, cache, writer>>

\* "list" is no UUID, and a row that is not there raises: the request ends.
Load(r) ==
  /\ reader[r].pc = "load"
  /\ IF reader[r].kind = Kind(reader[r].name) /\ reader[r].name \in rows
     THEN Loaded(r, TRUE)
     ELSE Ends(r)
  /\ UNCHANGED <<rows, cache, writer>>

EntryOf(q) ==
  [kind |-> q.kind, found |-> q.found, stale |-> q.stale, left |-> TTL[q.kind]]

\* The view is stored, or the cache cannot be reached, and answered.
Store(r) ==
  /\ reader[r].pc = "store"
  /\ \/ cache' = [cache EXCEPT ![reader[r].name] = EntryOf(reader[r])]
     \/ CacheFails /\ UNCHANGED cache
  /\ Ends(r)
  /\ UNCHANGED <<rows, writer>>

-----------------------------------------------------------------------------
(***************************************************************************)
(* Changes.  "review" is a relabel, a comment or a new name of a document  *)
(* of the batch, "record" the worker's prediction, "ingest" the rows of a  *)
(* new document.  No view of a batch shows its predictions.                *)
(***************************************************************************)
Touched(c) ==
  CASE c.op \in {"toggle_role", "delete_user"} -> {UserName(c.about)}
    [] c.op \in {"review", "record"} -> {RecentName}
    [] c.op = "ingest" -> {BatchName(c.about), ListName}

\* The worker's process has no cache backend and the ingest service clears nothing.
Namespaces(c) ==
  CASE c.op \in {"toggle_role", "delete_user"} -> {UserName(c.about)}
    [] c.op = "review" -> {BatchName(c.about), RecentName}
    [] c.op \in {"record", "ingest"} -> {}

Possible(c) ==
  CASE c.op \in {"toggle_role", "delete_user"} -> UserName(c.about) \in rows
    [] c.op \in {"review", "record"} -> BatchName(c.about) \in rows
    [] c.op = "ingest" -> TRUE

BeginChange(w) ==
  /\ writer[w] = NoChange
  /\ \E c \in UserChange \cup BatchChange :
       /\ Possible(c)
       /\ writer' = [writer EXCEPT ![w] = [pc |-> "clear", change |-> c]]
  /\ UNCHANGED <<rows, cache, reader>>

\* _cache_clear of each namespace, some of which may fail.  The order of the calls
\* does not matter: no read touches two names.
Clear(w) ==
  /\ writer[w].pc = "clear"
  /\ \E done \in SUBSET Namespaces(writer[w].change) :
       /\ CacheFails \/ done = Namespaces(writer[w].change)
       /\ LET gone == UNION {Below(ns) : ns \in done}
          IN  cache' = [n \in Name |-> IF n \in gone THEN NoEntry ELSE cache[n]]
  /\ writer' = [writer EXCEPT ![w].pc = "commit"]
  /\ UNCHANGED <<rows, reader>>

\* The copies of a name that a commit touches are outdated from then on.
Outdated(x) == [x EXCEPT !.stale = IF @ = 0 THEN 1 ELSE @]

\* get_session commits after the handler, or rolls back, as it does when the row was
\* deleted meanwhile.
EndChange(w) ==
  /\ writer[w].pc = "commit"
  /\ LET c == writer[w].change IN
       \/ /\ Possible(c)
          /\ rows' = IF c.op = "delete_user" THEN rows \ Touched(c) ELSE rows \cup Touched(c)
          /\ cache' = [n \in Name |->
               IF n \in Touched(c) /\ Cached(n) THEN Outdated(cache[n]) ELSE cache[n]]
          /\ reader' = [r \in Reader |->
               IF reader[r] # NoRead /\ reader[r].pc # "load" /\ reader[r].name \in Touched(c)
               THEN Outdated(reader[r]) ELSE reader[r]]
       \/ UNCHANGED <<rows, cache, reader>>
  /\ writer' = [writer EXCEPT ![w] = NoChange]

-----------------------------------------------------------------------------
\* Fifteen seconds pass: entries come nearer to their end, and outdated copies grow
\* older, also in the hands of a read that is yet to store them.
Older(x) == IF x.stale \in {0, Oldest} THEN x.stale ELSE x.stale + 1

\* Mutant of Aged: entries are stored without a time to live.
AgedForever(n) ==
  IF Cached(n) THEN [cache[n] EXCEPT !.stale = Older(cache[n])] ELSE NoEntry

\* Mutant of Aged: the end of an entry is missed.
AgedPastEnd(n) ==
  IF Cached(n) THEN [cache[n] EXCEPT !.left = @ - 1, !.stale = Older(cache[n])] ELSE NoEntry

Aged(n) ==
  IF ~Cached(n) \/ cache[n].left = 1
  THEN NoEntry
  ELSE [cache[n] EXCEPT !.left = @ - 1, !.stale = Older(cache[n])]

Tick ==
  /\ \A r \in Reader : reader[r].pc = "store" => reader[r].took < Slow
  /\ cache' = [n \in Name |-> Aged(n)]
  /\ reader' = [r \in Reader |->
       IF reader[r].pc # "store" THEN reader[r]
       ELSE [reader[r] EXCEPT !.took = @ + 1, !.stale = Older(reader[r])]]
  /\ UNCHANGED <<rows, writer>>

ReadStep(r) == Hit(r) \/ Miss(r) \/ Load(r) \/ Store(r)

ChangeStep(w) == Clear(w) \/ EndChange(w)

Next ==
  \/ \E r \in Reader : Begin(r) \/ ReadStep(r)
  \/ \E w \in Writer : BeginChange(w) \/ ChangeStep(w)
  \/ Tick

Spec == Init /\ [][Next]_vars

\* Handlers go on and time passes; nothing makes a client ask for anything.
Fairness ==
  /\ \A r \in Reader : WF_vars(ReadStep(r))
  /\ \A w \in Writer : WF_vars(ChangeStep(w))
  /\ WF_vars(Tick)

FairSpec == Spec /\ Fairness

-----------------------------------------------------------------------------
(***************************************************************************)
(* Properties.                                                             *)
(***************************************************************************)
\* A view is served for at most its time to live after a commit outdated it, and the
\* time its reader took between the load and the store, although a slow reader may
\* store an old view over a newer one.
StaleBounded ==
  \A n \in Name : Cached(n) => cache[n].stale <= TTL[Kind(n)] + Slow

\* Each entry shows a row that was there, of the kind its name says: asking for a
\* batch before it is ingested, or for the batch "list", leaves nothing behind.
EntriesReal ==
  \A n \in Name : Cached(n) => cache[n].kind = Kind(n) /\ cache[n].found

\* Once changes stop, every entry of the cache comes to agree with the database,
\* whatever old views reads were about to store and whichever clears failed.
CacheCatchesUp ==
  <>[](\A w \in Writer : writer[w] = NoChange)
    => <>[](\A n \in Name : Cached(n) => cache[n].stale = 0)

\* "The next GET /me request for the updated user will result in a Cache Miss, forcing
\* a fresh fetch from the DB" (ARCH.md:103): no profile is answered that a commit has
\* outdated, while the row the same request was authenticated with is current.
ProfileIsFresh ==
  [][\A r \in Reader :
       Hit(r) /\ reader[r].kind = "user"
         => cache[reader[r].name].stale = 0 \/ reader[r].stale > 0]_vars

-----------------------------------------------------------------------------
(***************************************************************************)
(* Why they hold: what a read that is about to store knows of its copy,    *)
(* and that an entry's remaining time makes up for its age.                *)
(***************************************************************************)
\* A read stores a row it found, of the kind its name says, that is at most one tick
\* staler than the time the read took.
StoresReal ==
  \A r \in Reader : reader[r].pc = "store" =>
    /\ reader[r].kind = Kind(reader[r].name) /\ reader[r].found
    /\ reader[r].stale <= reader[r].took + 1

EntryAges ==
  \A n \in Name : Cached(n) =>
    /\ cache[n].left <= TTL[Kind(n)]
    /\ cache[n].stale + cache[n].left <= TTL[Kind(n)] + Slow + 1

CacheInv == TypeOK /\ StoresReal /\ EntriesReal /\ EntryAges

=============================================================================
