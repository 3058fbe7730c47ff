------------------------- MODULE ServiceCacheProofs -------------------------
(***************************************************************************)
(* Proofs about the cache: what an entry shows, and for how long it may    *)
(* show what a commit has outdated.  CacheInv is inductive: a read that is *)
(* about to store is at most one tick staler than the time it took, and an *)
(* entry's age and its remaining time add up to a bound.                   *)
(***************************************************************************)
EXTENDS ServiceCache, TLAPS

-----------------------------------------------------------------------------
(***************************************************************************)
(* Names, kinds, and what time and commits do to a copy.                   *)
(***************************************************************************)
\* The kinds of view and their times to live.
LEMMA Kinds4 ==
  /\ DOMAIN TTL = {"user", "batch", "list", "recent"}
  /\ \A k \in DOMAIN TTL : TTL[k] \in 1 .. 4
  /\ \A n \in Name : Kind(n) \in DOMAIN TTL
<1>1. DOMAIN TTL = {"user", "batch", "list", "recent"}
  BY DEF TTL
<1>2. /\ TTL["user"] = 4 /\ TTL["batch"] = 2 /\ TTL["list"] = 2 /\ TTL["recent"] = 1
  BY DEF TTL
<1>3. \A n \in Name : Kind(n) \in {"user", "batch", "list", "recent"}
  BY Zenon DEF Kind
<1> QED
  BY <1>1, <1>2, <1>3

\* A change is about names that can be asked for.
LEMMA TouchedNames ==
  ASSUME NEW c \in UserChange \cup BatchChange
  PROVE  Touched(c) \subseteq Name
<1>1. /\ c.op \in {"toggle_role", "delete_user"} => c.about \in User
      /\ c.op \in {"review", "record", "ingest"} => c.about \in Batch
      /\ c.op \in {"toggle_role", "delete_user", "review", "record", "ingest"}
  BY DEF UserChange, BatchChange
<1>2. CASE c.op \in {"toggle_role", "delete_user"}
  BY <1>1, <1>2, Zenon DEF Touched, Name
<1>3. CASE c.op \in {"review", "record"}
  <2>1. c.op \notin {"toggle_role", "delete_user"}
    BY <1>3
  <2> QED
    BY <1>3, <2>1 DEF Touched, Name
<1>4. CASE c.op = "ingest"
  <2>1. c.op \notin {"toggle_role", "delete_user"} /\ c.op \notin {"review", "record"}
    BY <1>4
  <2>2. Touched(c) = {BatchName(c.about), ListName}
    BY <1>4, <2>1 DEF Touched
  <2>3. BatchName(c.about) \in Name /\ ListName \in Name
    BY <1>1, <1>4, Zenon DEF Name
  <2> QED
    BY <2>2, <2>3
<1> QED
  BY <1>1, <1>2, <1>3, <1>4

\* A commit marks a copy as outdated and leaves the rest of it.
LEMMA OutdatedCopy ==
  /\ \A x \in Entry :
       LET y == Outdated(x)
       IN  /\ y \in Entry /\ y.kind = x.kind /\ y.found = x.found /\ y.left = x.left
           /\ y.stale <= x.stale \/ y.stale = 1
  /\ \A x \in Read :
       LET y == Outdated(x)
       IN  /\ y \in Read /\ y.pc = x.pc /\ y.name = x.name /\ y.kind = x.kind
           /\ y.found = x.found /\ y.took = x.took
           /\ y.stale <= x.stale \/ y.stale = 1
  BY CacheAssumption DEF Outdated, Entry, Read

\* Older adds at most one tick and stays within the bound.
LEMMA OlderBound ==
  /\ \A x \in Entry : Older(x) \in 0 .. Oldest /\ Older(x) <= x.stale + 1
  /\ \A x \in Read : Older(x) \in 0 .. Oldest /\ Older(x) <= x.stale + 1
  BY CacheAssumption DEF Older, Entry, Read

\* A read goes on with what it found.
LEMMA ReadGoesOn ==
  ASSUME NEW x \in Read, NEW p \in {"load", "store"}, NEW found \in BOOLEAN
  PROVE  LET y == [[[x EXCEPT !.pc = p] EXCEPT !.found = found] EXCEPT !.stale = 0]
         IN  /\ y \in Read /\ y.pc = p /\ y.found = found /\ y.stale = 0
             /\ y.name = x.name /\ y.kind = x.kind /\ y.took = x.took
<1>1. 0 \in 0 .. Oldest
  BY CacheAssumption
<1> QED
  BY <1>1 DEF Read

\* A name is free or holds an entry; only a read in progress has a pc other than idle.
LEMMA Values ==
  ASSUME TypeOK
  PROVE  /\ \A n \in Name : Cached(n) => cache[n] \in Entry
         /\ \A r \in Reader : reader[r].pc # "idle" => reader[r] \in Read
         /\ \A w \in Writer : writer[w].pc # "idle" =>
              writer[w].change \in UserChange \cup BatchChange
         /\ \A r \in Reader : reader[r] = NoRead \/ reader[r] \in Read
<1>1. \A w \in Writer : writer[w] \in Change \/ writer[w] = NoChange
  BY DEF TypeOK
<1>2. \A x \in Change : x.change \in UserChange \cup BatchChange
  BY DEF Change
<1> QED
  BY <1>1, <1>2 DEF TypeOK, Cached, NoRead, NoChange

-----------------------------------------------------------------------------
\* The cache is empty at first.
LEMMA InitCacheInv == Init => CacheInv
<1> SUFFICES ASSUME Init PROVE CacheInv
  OBVIOUS
<1>1. TypeOK
  BY DEF Init, TypeOK
<1>2. \A n \in Name : ~Cached(n)
  BY DEF Init, Cached
<1>3. StoresReal
  BY DEF Init, StoresReal, NoRead
<1> QED
  BY <1>1, <1>2, <1>3 DEF CacheInv, EntriesReal, EntryAges

\* A step of one read that leaves the cache, and only stores what it may, keeps the rest.
LEMMA OneRead ==
  ASSUME CacheInv, NEW r \in Reader, NEW x, x \in Read \cup {NoRead},
         x.pc = "store" => /\ x.kind = Kind(x.name) /\ x.found
                           /\ x.stale <= x.took + 1,
         reader' = [reader EXCEPT ![r] = x],
         UNCHANGED <<rows, cache, writer>>
  PROVE  CacheInv'
<1>1. TypeOK'
  BY DEF CacheInv, TypeOK
<1>2. StoresReal'
  BY DEF CacheInv, StoresReal, TypeOK
<1> QED
  BY <1>1, <1>2 DEF CacheInv, EntriesReal, EntryAges, Cached

\* A read begins with a name and a kind that clients may ask for.
LEMMA BeginCacheInv ==
  ASSUME CacheInv, NEW r \in Reader, Begin(r)
  PROVE  CacheInv'
<1>1. PICK q \in Asked :
        reader' = [reader EXCEPT ![r] =
          [pc |-> "lookup", name |-> q.name, kind |-> q.kind,
           found |-> q.kind = "user", stale |-> 0, took |-> 0]]
  BY DEF Begin
<1>2. q.name \in Name /\ q.kind \in DOMAIN TTL
  BY CacheAssumption, Kinds4 DEF Asked
<1> DEFINE x == [pc |-> "lookup", name |-> q.name, kind |-> q.kind,
                 found |-> q.kind = "user", stale |-> 0, took |-> 0]
<1>3. x \in Read
  <2>1. (q.kind = "user") \in BOOLEAN
    OBVIOUS
  <2> QED
    BY <1>2, <2>1, CacheAssumption DEF Read
<1>4. x.pc = "lookup"
  OBVIOUS
<1> HIDE DEF x
<1>5. reader' = [reader EXCEPT ![r] = x] /\ UNCHANGED <<rows, cache, writer>>
  BY <1>1 DEF x, Begin
<1> QED
  BY <1>3, <1>4, <1>5, OneRead

\* A lookup, and a load, end or go on with what they found.
LEMMA LookCacheInv ==
  ASSUME CacheInv, NEW r \in Reader, Hit(r) \/ Miss(r) \/ Load(r)
  PROVE  CacheInv'
<1> DEFINE q == reader[r]
<1>1. q \in Read
  BY Values DEF CacheInv, Hit, Miss, Load
<1>2. UNCHANGED <<rows, cache, writer>>
  BY DEF Hit, Miss, Load
<1>3. CASE reader' = [reader EXCEPT ![r] = NoRead]
  BY <1>2, <1>3, OneRead DEF NoRead
<1>4. CASE Miss(r)
  <2> DEFINE x == [[[q EXCEPT !.pc = "load"] EXCEPT !.found = FALSE] EXCEPT !.stale = 0]
  <2>1. x \in Read /\ x.pc = "load"
    BY <1>1, ReadGoesOn
  <2>2. reader' = [reader EXCEPT ![r] = x]
    BY <1>4 DEF Miss, CacheInv, TypeOK
  <2> HIDE DEF x
  <2> QED
    BY <1>2, <2>1, <2>2, OneRead
<1>5. CASE Load(r) /\ Loaded(r, TRUE) /\ q.kind = Kind(q.name)
  <2> DEFINE x == [[[q EXCEPT !.pc = "store"] EXCEPT !.found = TRUE] EXCEPT !.stale = 0]
  <2>1. x \in Read /\ x.kind = Kind(x.name) /\ x.found /\ x.stale <= x.took + 1
    <3>1. /\ x \in Read /\ x.name = q.name /\ x.kind = q.kind /\ x.found
          /\ x.stale = 0 /\ x.took = q.took
      BY <1>1, ReadGoesOn
    <3>2. q.took \in Nat
      BY <1>1, CacheAssumption DEF Read
    <3> HIDE DEF x, q
    <3> QED
      BY <1>5, <3>1, <3>2
  <2>2. reader' = [reader EXCEPT ![r] = x]
    BY <1>5 DEF Loaded, CacheInv, TypeOK
  <2> HIDE DEF x
  <2> QED
    BY <1>2, <2>1, <2>2, OneRead
<1> QED
  BY <1>3, <1>4, <1>5 DEF Hit, Load, Ends

\* What is stored is a row of the right kind, with a whole time to live before it.
LEMMA StoreCacheInv ==
  ASSUME CacheInv, NEW r \in Reader, Store(r)
  PROVE  CacheInv'
<1> DEFINE q == reader[r]
           e == EntryOf(q)
<1>1. /\ q \in Read /\ q.kind = Kind(q.name) /\ q.found /\ q.stale <= q.took + 1
      /\ q.name \in Name /\ q.took \in 0 .. Slow /\ q.stale \in 0 .. Oldest
      /\ q.kind \in DOMAIN TTL
  BY Values DEF CacheInv, Store, StoresReal, Read
<1>2. /\ e \in Entry /\ e.kind = Kind(q.name) /\ e.found
      /\ e.left = TTL[Kind(q.name)] /\ e.stale <= Slow + 1
  <2>1. TTL[q.kind] \in 1 .. 4
    BY <1>1, Kinds4
  <2>2. /\ e.kind = q.kind /\ e.found = q.found /\ e.stale = q.stale /\ e.left = TTL[q.kind]
    BY DEF EntryOf
  <2>3. e \in Entry
    BY <1>1, <2>1 DEF EntryOf, Entry, Read
  <2> QED
    BY <1>1, <2>1, <2>2, <2>3, CacheAssumption
<1>3. reader' = [reader EXCEPT ![r] = NoRead] /\ UNCHANGED <<rows, writer>>
  BY DEF Store, Ends
<1>4. CASE UNCHANGED cache
  BY <1>3, <1>4, OneRead DEF NoRead
<1>5. CASE cache' = [cache EXCEPT ![q.name] = e]
  <2> HIDE DEF q, e
  <2>1. \A n \in Name : cache'[n] = IF n = q.name THEN e ELSE cache[n]
    BY <1>1, <1>5 DEF CacheInv, TypeOK
  <2>2. TypeOK'
    BY <1>1, <1>2, <1>3, <1>5 DEF CacheInv, TypeOK
  <2>3. StoresReal'
    BY <1>3 DEF CacheInv, StoresReal, TypeOK, NoRead
  <2>4. EntriesReal'
    BY <1>2, <2>1 DEF CacheInv, EntriesReal, Cached
  <2>5. EntryAges'
    <3> SUFFICES ASSUME NEW n \in Name, Cached(n)'
                 PROVE  /\ cache'[n].left <= TTL[Kind(n)]
                        /\ cache'[n].stale + cache'[n].left <= TTL[Kind(n)] + Slow + 1
      BY DEF EntryAges
    <3>1. CASE n = q.name
      <4>1. TTL[Kind(n)] \in 1 .. 4
        BY Kinds4
      <4>2. cache'[n] = e /\ e.stale \in 0 .. Oldest
        BY <2>1, <3>1, <1>2 DEF Entry
      <4> QED
        BY <1>2, <3>1, <4>1, <4>2, CacheAssumption
    <3>2. CASE n # q.name
      BY <2>1, <3>2 DEF CacheInv, EntryAges, Cached
    <3> QED
      BY <3>1, <3>2
  <2> QED
    BY <2>2, <2>3, <2>4, <2>5 DEF CacheInv
<1> QED
  BY <1>4, <1>5 DEF Store

\* A step of a change that leaves the reads and only removes entries keeps the rest.
LEMMA Removes ==
  ASSUME CacheInv, UNCHANGED <<rows, reader>>,
         cache' \in [Name -> Entry \cup {NoEntry}],
         \A n \in Name : cache'[n] \in {cache[n], NoEntry},
         writer' \in [Writer -> Change \cup {NoChange}]
  PROVE  CacheInv'
<1>1. TypeOK'
  BY DEF CacheInv, TypeOK
<1>2. StoresReal'
  BY DEF CacheInv, StoresReal
<1>3. EntriesReal'
  BY DEF CacheInv, EntriesReal, Cached
<1>4. EntryAges'
  BY DEF CacheInv, EntryAges, Cached
<1> QED
  BY <1>1, <1>2, <1>3, <1>4 DEF CacheInv

\* A change begins, or clears the names below its namespaces.
LEMMA ClearCacheInv ==
  ASSUME CacheInv, NEW w \in Writer, BeginChange(w) \/ Clear(w)
  PROVE  CacheInv'
<1>1. CASE BeginChange(w)
  <2>1. PICK c \in UserChange \cup BatchChange :
          writer' = [writer EXCEPT ![w] = [pc |-> "clear", change |-> c]]
    BY <1>1 DEF BeginChange
  <2>2. [pc |-> "clear", change |-> c] \in Change
    BY DEF Change
  <2>3. writer' \in [Writer -> Change \cup {NoChange}]
    BY <2>1, <2>2 DEF CacheInv, TypeOK
  <2>4. UNCHANGED <<rows, reader, cache>>
    BY <1>1 DEF BeginChange
  <2> QED
    BY <2>3, <2>4, Removes DEF CacheInv, TypeOK
<1>2. CASE Clear(w)
  <2>1. PICK gone : cache' = [n \in Name |-> IF n \in gone THEN NoEntry ELSE cache[n]]
    BY <1>2 DEF Clear
  <2>2. writer[w].pc = "clear" /\ writer' = [writer EXCEPT ![w].pc = "commit"]
        /\ UNCHANGED <<rows, reader>>
    BY <1>2 DEF Clear
  <2>3. writer[w] \in Change
    BY <2>2 DEF CacheInv, TypeOK, NoChange
  <2>4. [writer[w] EXCEPT !.pc = "commit"] \in Change
    BY <2>3 DEF Change
  <2>7. writer' \in [Writer -> Change \cup {NoChange}]
    BY <2>2, <2>4 DEF CacheInv, TypeOK
  <2>8. /\ cache' \in [Name -> Entry \cup {NoEntry}]
        /\ \A n \in Name : cache'[n] \in {cache[n], NoEntry}
    BY <2>1 DEF CacheInv, TypeOK
  <2> QED
    BY <2>2, <2>7, <2>8, Removes
<1> QED
  BY <1>1, <1>2

\* A commit outdates the copies of the names it touches, a rollback none.
LEMMA EndCacheInv ==
  ASSUME CacheInv, NEW w \in Writer, EndChange(w)
  PROVE  CacheInv'
<1> DEFINE c == writer[w].change
<1>1. c \in UserChange \cup BatchChange
  BY Values DEF CacheInv, EndChange
<1>2. writer' = [writer EXCEPT ![w] = NoChange]
  BY DEF EndChange
<1>3. writer' \in [Writer -> Change \cup {NoChange}]
  BY <1>2 DEF CacheInv, TypeOK
<1>4. CASE UNCHANGED <<rows, cache, reader>>
  BY <1>3, <1>4, Removes DEF CacheInv, TypeOK
<1>5. CASE /\ rows' = IF c.op = "delete_user" THEN rows \ Touched(c) ELSE rows \cup Touched(c)
           /\ cache' = [n \in Name |->
                IF n \in Touched(c) /\ Cached(n) THEN Outdated(cache[n]) ELSE cache[n]]
           /\ reader' = [r \in Reader |->
                IF reader[r] # NoRead /\ reader[r].pc # "load" /\ reader[r].name \in Touched(c)
                THEN Outdated(reader[r]) ELSE reader[r]]
  <2>1. rows' \subseteq Name
    BY <1>1, <1>5, TouchedNames DEF CacheInv, TypeOK
  <2> HIDE DEF c
  <2>2. ASSUME NEW n \in Name
        PROVE  /\ cache'[n] \in Entry \cup {NoEntry}
               /\ Cached(n)' => /\ Cached(n) /\ cache'[n].kind = cache[n].kind
                                /\ cache'[n].found = cache[n].found
                                /\ cache'[n].left = cache[n].left
                                /\ cache'[n].stale <= cache[n].stale \/ cache'[n].stale = 1
    <3>0. cache'[n] = IF n \in Touched(c) /\ Cached(n) THEN Outdated(cache[n]) ELSE cache[n]
      BY <1>5
    <3>1. cache'[n] = cache[n] \/ (cache[n] \in Entry /\ cache'[n] = Outdated(cache[n]))
      BY <3>0, Values DEF CacheInv
    <3>2. cache[n] \in Entry => cache[n].stale \in Nat /\ cache[n] # NoEntry
      BY NoEntryAssumption, CacheAssumption DEF Entry
    <3>3. cache[n] \in Entry \cup {NoEntry}
      BY DEF CacheInv, TypeOK
    <3> QED
      BY <3>1, <3>2, <3>3, OutdatedCopy DEF Cached
  <2>3. ASSUME NEW r \in Reader
        PROVE  /\ reader'[r] \in Read \cup {NoRead}
               /\ reader'[r].pc = "store" =>
                    /\ reader'[r].kind = Kind(reader'[r].name) /\ reader'[r].found
                    /\ reader'[r].stale <= reader'[r].took + 1
    <3>0. reader'[r] =
            IF reader[r] # NoRead /\ reader[r].pc # "load" /\ reader[r].name \in Touched(c)
            THEN Outdated(reader[r]) ELSE reader[r]
      BY <1>5
    <3>1. \/ reader'[r] = reader[r]
          \/ reader[r] \in Read /\ reader'[r] = Outdated(reader[r])
      BY <3>0, Values DEF CacheInv
    <3>2. reader[r] \in Read => reader[r].stale \in Nat /\ reader[r].took \in Nat
      BY CacheAssumption DEF Read
    <3>3. reader[r] \in Read \cup {NoRead}
      BY DEF CacheInv, TypeOK
    <3>4. CASE reader'[r] = reader[r]
      BY <3>3, <3>4 DEF CacheInv, StoresReal
    <3>5. CASE reader[r] \in Read /\ reader'[r] = Outdated(reader[r])
      <4> DEFINE y == Outdated(reader[r])
      <4>1. /\ y \in Read /\ y.pc = reader[r].pc /\ y.name = reader[r].name
            /\ y.kind = reader[r].kind /\ y.found = reader[r].found /\ y.took = reader[r].took
            /\ y.stale <= reader[r].stale \/ y.stale = 1
        BY <3>5, OutdatedCopy
      <4>2. y.stale \in Nat
        BY <4>1, CacheAssumption DEF Read
      <4> HIDE DEF y
      <4>3. reader'[r] = y
        BY <3>5 DEF y
      <4> QED
        BY <3>2, <3>5, <4>1, <4>2, <4>3 DEF CacheInv, StoresReal
    <3> QED
      BY <3>1, <3>4, <3>5
  <2>4. TypeOK'
    BY <1>3, <1>5, <2>1, <2>2, <2>3 DEF TypeOK
  <2>5. StoresReal'
    BY <2>3 DEF StoresReal
  <2>6. EntriesReal'
    BY <2>2 DEF CacheInv, EntriesReal, Cached
  <2>7. EntryAges'
    <3> SUFFICES ASSUME NEW n \in Name, Cached(n)'
                 PROVE  /\ cache'[n].left <= TTL[Kind(n)]
                        /\ cache'[n].stale + cache'[n].left <= TTL[Kind(n)] + Slow + 1
      BY DEF EntryAges
    <3>1. /\ Cached(n) /\ cache'[n].left = cache[n].left
          /\ cache'[n].stale <= cache[n].stale \/ cache'[n].stale = 1
          /\ cache[n] \in Entry /\ cache'[n] \in Entry
      BY <2>2, Values DEF CacheInv, Cached
    <3>2. /\ cache[n].left \in Nat /\ cache[n].stale \in Nat /\ cache'[n].stale \in Nat
          /\ TTL[Kind(n)] \in 1 .. 4
      BY <3>1, Kinds4, CacheAssumption DEF Entry
    <3>3. /\ cache[n].left <= TTL[Kind(n)]
          /\ cache[n].stale + cache[n].left <= TTL[Kind(n)] + Slow + 1
      BY <3>1 DEF CacheInv, EntryAges
    <3> QED
      BY <3>1, <3>2, <3>3, CacheAssumption
  <2> QED
    BY <2>4, <2>5, <2>6, <2>7 DEF CacheInv
<1> QED
  BY <1>4, <1>5 DEF EndChange

\* Time brings an entry nearer to its end by as much as it makes it older.
LEMMA TickCacheInv ==
  ASSUME CacheInv, Tick
  PROVE  CacheInv'
<1>1. ASSUME NEW n \in Name
      PROVE  /\ cache'[n] \in Entry \cup {NoEntry}
             /\ Cached(n)' =>
                  /\ Cached(n) /\ cache[n] \in Entry /\ cache'[n] \in Entry
                  /\ cache'[n].kind = cache[n].kind /\ cache'[n].found = cache[n].found
                  /\ cache'[n].left = cache[n].left - 1
                  /\ cache'[n].stale <= cache[n].stale + 1
  <2>1. cache'[n] = Aged(n)
    BY DEF Tick
  <2>2. CASE ~Cached(n) \/ cache[n].left = 1
    BY <2>1, <2>2 DEF Aged, Cached
  <2>3. CASE Cached(n) /\ cache[n].left # 1
    <3> DEFINE x == cache[n]
               s == Older(x)
    <3>1. x \in Entry /\ s \in 0 .. Oldest /\ s <= x.stale + 1
      BY <2>3, Values, OlderBound DEF CacheInv
    <3>2. cache'[n] = [[x EXCEPT !.left = x.left - 1] EXCEPT !.stale = s]
      BY <2>1, <2>3 DEF Aged
    <3> HIDE DEF x, s
    <3>3. x.left - 1 \in 1 .. 4
      BY <2>3, <3>1 DEF x, Entry
    <3>4. /\ cache'[n] \in Entry /\ cache'[n].kind = x.kind /\ cache'[n].found = x.found
          /\ cache'[n].left = x.left - 1 /\ cache'[n].stale = s
      BY <3>1, <3>2, <3>3 DEF Entry
    <3> QED
      BY <2>3, <3>1, <3>4 DEF x
  <2> QED
    BY <2>2, <2>3
<1>2. ASSUME NEW r \in Reader
      PROVE  /\ reader'[r] \in Read \cup {NoRead}
             /\ reader'[r].pc = "store" =>
                  /\ reader'[r].kind = Kind(reader'[r].name) /\ reader'[r].found
                  /\ reader'[r].stale <= reader'[r].took + 1
  <2>1. CASE reader[r].pc # "store"
    BY <2>1 DEF Tick, CacheInv, TypeOK
  <2>2. CASE reader[r].pc = "store"
    <3> DEFINE x == reader[r]
               s == Older(x)
    <3>1. x \in Read /\ s \in 0 .. Oldest /\ s <= x.stale + 1
      BY <2>2, Values, OlderBound DEF CacheInv
    <3>2. x.took < Slow /\ x.kind = Kind(x.name) /\ x.found /\ x.stale <= x.took + 1
      BY <2>2 DEF Tick, CacheInv, StoresReal
    <3>3. reader'[r] = [[x EXCEPT !.took = x.took + 1] EXCEPT !.stale = s]
      BY <2>2 DEF Tick
    <3> HIDE DEF x, s
    <3>4. x.took \in 0 .. Slow /\ x.took + 1 \in 0 .. Slow /\ x.stale \in Nat
      BY <3>1, <3>2, CacheAssumption DEF Read
    <3>5. /\ reader'[r] \in Read /\ reader'[r].kind = x.kind /\ reader'[r].name = x.name
          /\ reader'[r].found = x.found /\ reader'[r].took = x.took + 1
          /\ reader'[r].stale = s
      BY <3>1, <3>3, <3>4 DEF Read
    <3> QED
      BY <3>1, <3>2, <3>4, <3>5, CacheAssumption
  <2> QED
    BY <2>1, <2>2
<1>3. TypeOK'
  BY <1>1, <1>2 DEF Tick, CacheInv, TypeOK
<1>4. StoresReal'
  BY <1>2 DEF StoresReal
<1>5. EntriesReal'
  BY <1>1 DEF CacheInv, EntriesReal, Cached
<1>6. EntryAges'
  <2> SUFFICES ASSUME NEW n \in Name, Cached(n)'
               PROVE  /\ cache'[n].left <= TTL[Kind(n)]
                      /\ cache'[n].stale + cache'[n].left <= TTL[Kind(n)] + Slow + 1
    BY DEF EntryAges
  <2>1. /\ cache[n].left <= TTL[Kind(n)]
        /\ cache[n].stale + cache[n].left <= TTL[Kind(n)] + Slow + 1
    BY <1>1 DEF CacheInv, EntryAges
  <2>2. /\ cache[n].left \in Nat /\ cache[n].stale \in Nat /\ cache'[n].stale \in Nat
        /\ TTL[Kind(n)] \in 1 .. 4
    BY <1>1, Kinds4, CacheAssumption DEF Entry
  <2> QED
    BY <1>1, <2>1, <2>2, CacheAssumption
<1> QED
  BY <1>3, <1>4, <1>5, <1>6 DEF CacheInv

\* Every step keeps the inductive invariant.
LEMMA NextCacheInv == CacheInv /\ [Next]_vars => CacheInv'
<1> SUFFICES ASSUME CacheInv, [Next]_vars PROVE CacheInv'
  OBVIOUS
<1>1. CASE UNCHANGED vars
  BY <1>1 DEF vars, CacheInv, TypeOK, StoresReal, EntriesReal, EntryAges, Cached
<1>2. ASSUME NEW r \in Reader, Begin(r) PROVE CacheInv'
  BY <1>2, BeginCacheInv
<1>3. ASSUME NEW r \in Reader, ReadStep(r) PROVE CacheInv'
  BY <1>3, LookCacheInv, StoreCacheInv DEF ReadStep
<1>4. ASSUME NEW w \in Writer, BeginChange(w) PROVE CacheInv'
  BY <1>4, ClearCacheInv
<1>5. ASSUME NEW w \in Writer, ChangeStep(w) PROVE CacheInv'
  BY <1>5, ClearCacheInv, EndCacheInv DEF ChangeStep
<1> QED
  BY <1>1, <1>2, <1>3, <1>4, <1>5, TickCacheInv DEF Next

\* The inductive invariant holds throughout.
THEOREM CacheInvariant == Spec => []CacheInv
  BY InitCacheInv, NextCacheInv, PTL DEF Spec

-----------------------------------------------------------------------------
\* The state of the cache, of the reads and of the changes stays within its types.
THEOREM CacheTypeCorrect == Spec => []TypeOK
<1>1. CacheInv => TypeOK
  BY DEF CacheInv
<1> QED
  BY <1>1, CacheInvariant, PTL

\* Whatever clients ask for and whichever calls fail, every entry shows a row that was
\* there, of the kind its name says.
THEOREM EntriesAreReal == Spec => []EntriesReal
<1>1. CacheInv => EntriesReal
  BY DEF CacheInv
<1> QED
  BY <1>1, CacheInvariant, PTL

\* For any number of users, batches, reads and changes, and whichever clears fail, no
\* view is served longer after a commit outdated it than its time to live and the time
\* its reader took.
THEOREM StalenessIsBounded == Spec => []StaleBounded
<1>1. CacheInv => StaleBounded
  <2> SUFFICES ASSUME CacheInv, NEW n \in Name, Cached(n)
               PROVE  cache[n].stale <= TTL[Kind(n)] + Slow
    BY DEF StaleBounded
  <2>1. cache[n].stale + cache[n].left <= TTL[Kind(n)] + Slow + 1
    BY DEF CacheInv, EntryAges
  <2>2. cache[n].left \in 1 .. 4 /\ cache[n].stale \in Nat /\ TTL[Kind(n)] \in 1 .. 4
    BY Values, Kinds4, CacheAssumption DEF CacheInv, Entry
  <2> QED
    BY <2>1, <2>2, CacheAssumption
<1> QED
  BY <1>1, CacheInvariant, PTL

=============================================================================
