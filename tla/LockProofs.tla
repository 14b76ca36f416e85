---------------------------- MODULE LockProofs -----------------------------
(***************************************************************************)
(* Proofs about the lock for readers and writers, for any number of        *)
(* threads and any priorities: who is counted, who is listed, who is       *)
(* awake, and that a rw_lock implements the readers-writers lock of        *)
(* ReadersWriters.  Then about the IDE channel, which threads share        *)
(* through a lock and a semaphore, for any number of threads, sectors,     *)
(* requests and stray interrupts: what they read is what was written.      *)
(***************************************************************************)
EXTENDS RWLock, Ide, KListTheorems, FiniteSetTheorems, TLAPS

ListedPc == {"ins", "rel", "blocked"}
Listed(c) == {t \in Threads : Queue(t) = c /\ pc[t] \in ListedPc}

\* While writers wait and nobody is active, a writer is on its way: it has been
\* woken, or is at the test of rw_lock_acquire()'s loop.  WriterFirst is this
\* where nobody holds the guard.
WriterAwake ==
  (AR + AW = 0 /\ \E t \in Threads : ~reader[t] /\ pc[t] \in ListedPc)
     => \E t \in Threads : ~reader[t] /\ pc[t] \in {"woken", "test"}

IInv == TypeOK /\ GuardExcludes /\ CountsExact /\ Exclusion /\ WaitersListed /\ WriterAwake

Pcs == {"out", "lock", "blocked", "woken", "in", "exit", "rel"} \cup GuardPc

One(b) == IF b THEN 1 ELSE 0

\* What every step of a thread does to the program points: t goes on to another
\* one, and the blocked threads W are woken.
Move(t, to, W) ==
  /\ pc' = [u \in Threads |-> IF u = t THEN to ELSE IF u \in W THEN "woken" ELSE pc[u]]
  /\ \A u \in Threads \ {t} : reader'[u] = reader[u]

-----------------------------------------------------------------------------
\* The counters are those of finite sets.
LEMMA Finite ==
  /\ IsFiniteSet(Readers) /\ IsFiniteSet(Writers)
  /\ IsFiniteSet(WaitingReaders) /\ IsFiniteSet(WaitingWriters)
<1>1. /\ Readers \in SUBSET Threads /\ Writers \in SUBSET Threads
      /\ WaitingReaders \in SUBSET Threads /\ WaitingWriters \in SUBSET Threads
  BY Zenon DEF Readers, Writers, WaitingReaders, WaitingWriters
<1> QED BY <1>1, FS_Subset, RWAssumption, Zenon

\* A set that gains or loses at most the element x.
LEMMA CardOne ==
  ASSUME NEW S, IsFiniteSet(S), NEW T, NEW x, NEW b \in BOOLEAN,
         T = IF b THEN S \cup {x} ELSE S \ {x}
  PROVE  Cardinality(T) = Cardinality(S) + One(b) - One(x \in S)
<1>1. Cardinality(S) \in Nat
  BY FS_CardinalityType, Zenon
<1>2. CASE b
  <2>1. Cardinality(S \cup {x}) = IF x \in S THEN Cardinality(S) ELSE Cardinality(S) + 1
    BY FS_AddElement, Zenon
  <2> QED BY <1>1, <1>2, <2>1 DEF One
<1>3. CASE ~b
  <2>1. Cardinality(S \ {x}) = IF x \in S THEN Cardinality(S) - 1 ELSE Cardinality(S)
    BY FS_RemoveElement, Zenon
  <2> QED BY <1>1, <1>3, <2>1 DEF One
<1> QED BY <1>2, <1>3, Zenon

\* What a step does to the sets that the counters and the lists are about.
LEMMA MoveSets ==
  ASSUME TypeOK, reader' \in [Threads -> BOOLEAN], NEW t \in Threads, NEW to,
         NEW W \in SUBSET Threads, t \notin W, \A u \in W : pc[u] = "blocked", Move(t, to, W)
  PROVE  /\ Readers' = IF reader'[t] /\ to \in ActivePc THEN Readers \cup {t} ELSE Readers \ {t}
         /\ Writers' = IF ~reader'[t] /\ to \in ActivePc THEN Writers \cup {t} ELSE Writers \ {t}
         /\ WaitingReaders' = IF reader'[t] /\ to \in CountedPc
                              THEN WaitingReaders \cup {t} ELSE WaitingReaders \ {t}
         /\ WaitingWriters' = IF ~reader'[t] /\ to \in CountedPc
                              THEN WaitingWriters \cup {t} ELSE WaitingWriters \ {t}
         /\ \A c : Listed(c)' = IF Queue(t)' = c /\ to \in ListedPc
                                THEN (Listed(c) \ W) \cup {t} ELSE (Listed(c) \ W) \ {t}
<1>1. /\ pc'[t] = to
      /\ \A u \in W : u # t /\ pc'[u] = "woken" /\ pc[u] = "blocked"
      /\ \A u \in Threads \ {t} : u \notin W => pc'[u] = pc[u]
      /\ \A u \in Threads \ {t} : reader'[u] = reader[u]
  BY Zenon DEF Move
<1>2. Readers' = IF reader'[t] /\ to \in ActivePc THEN Readers \cup {t} ELSE Readers \ {t}
  BY <1>1, Zenon DEF Readers, ActivePc
<1>3. Writers' = IF ~reader'[t] /\ to \in ActivePc THEN Writers \cup {t} ELSE Writers \ {t}
  BY <1>1, Zenon DEF Writers, ActivePc
<1>4. WaitingReaders' = IF reader'[t] /\ to \in CountedPc
                        THEN WaitingReaders \cup {t} ELSE WaitingReaders \ {t}
  BY <1>1, Zenon DEF WaitingReaders, CountedPc
<1>5. WaitingWriters' = IF ~reader'[t] /\ to \in CountedPc
                        THEN WaitingWriters \cup {t} ELSE WaitingWriters \ {t}
  BY <1>1, Zenon DEF WaitingWriters, CountedPc
<1>6. ASSUME NEW c
      PROVE  Listed(c)' = IF Queue(t)' = c /\ to \in ListedPc
                          THEN (Listed(c) \ W) \cup {t} ELSE (Listed(c) \ W) \ {t}
  BY <1>1, Zenon DEF Listed, ListedPc, Queue
<1> QED BY <1>2, <1>3, <1>4, <1>5, <1>6, Zenon

\* Where nobody is woken, at most the thread that moves is put on a list or off it.
LEMMA MoveOne ==
  ASSUME TypeOK, reader' \in [Threads -> BOOLEAN], NEW t \in Threads, NEW to, Move(t, to, {}), NEW c
  PROVE  Listed(c)' = IF Queue(t)' = c /\ to \in ListedPc
                      THEN Listed(c) \cup {t} ELSE Listed(c) \ {t}
<1>1. /\ pc'[t] = to
      /\ \A u \in Threads \ {t} : pc'[u] = pc[u] /\ reader'[u] = reader[u]
  BY Zenon DEF Move
<1> QED BY <1>1, Zenon DEF Listed, ListedPc, Queue

\* What a step does to the counters' true values.
LEMMA MoveCounts ==
  ASSUME TypeOK, CountsExact, reader' \in [Threads -> BOOLEAN], NEW t \in Threads, NEW to,
         NEW W \in SUBSET Threads, t \notin W, \A u \in W : pc[u] = "blocked", Move(t, to, W),
         AR' = AR + One(reader'[t] /\ to \in ActivePc) - One(reader[t] /\ pc[t] \in ActivePc),
         AW' = AW + One(~reader'[t] /\ to \in ActivePc) - One(~reader[t] /\ pc[t] \in ActivePc),
         WR' = WR + One(reader'[t] /\ to \in CountedPc) - One(reader[t] /\ pc[t] \in CountedPc),
         WW' = WW + One(~reader'[t] /\ to \in CountedPc) - One(~reader[t] /\ pc[t] \in CountedPc)
  PROVE  CountsExact' /\ AR' \in Nat /\ AW' \in Nat /\ WR' \in Nat /\ WW' \in Nat
<1>1. /\ (t \in Readers) = (reader[t] /\ pc[t] \in ActivePc)
      /\ (t \in Writers) = (~reader[t] /\ pc[t] \in ActivePc)
      /\ (t \in WaitingReaders) = (reader[t] /\ pc[t] \in CountedPc)
      /\ (t \in WaitingWriters) = (~reader[t] /\ pc[t] \in CountedPc)
  BY DEF Readers, Writers, WaitingReaders, WaitingWriters, TypeOK
<1>2. reader'[t] \in BOOLEAN
  OBVIOUS
<1> DEFINE r == reader'[t] /\ to \in ActivePc
           w == ~reader'[t] /\ to \in ActivePc
           wr == reader'[t] /\ to \in CountedPc
           ww == ~reader'[t] /\ to \in CountedPc
<1>3. r \in BOOLEAN /\ w \in BOOLEAN /\ wr \in BOOLEAN /\ ww \in BOOLEAN
  BY <1>2, Zenon
<1>4. /\ Readers' = IF r THEN Readers \cup {t} ELSE Readers \ {t}
      /\ Writers' = IF w THEN Writers \cup {t} ELSE Writers \ {t}
      /\ WaitingReaders' = IF wr THEN WaitingReaders \cup {t} ELSE WaitingReaders \ {t}
      /\ WaitingWriters' = IF ww THEN WaitingWriters \cup {t} ELSE WaitingWriters \ {t}
  BY MoveSets, Zenon
<1>5. /\ AR' = AR + One(r) - One(t \in Readers)
      /\ AW' = AW + One(w) - One(t \in Writers)
      /\ WR' = WR + One(wr) - One(t \in WaitingReaders)
      /\ WW' = WW + One(ww) - One(t \in WaitingWriters)
  BY <1>1, Zenon
<1> HIDE DEF r, w, wr, ww
<1>6. Cardinality(Readers') = Cardinality(Readers) + One(r) - One(t \in Readers)
  BY <1>3, <1>4, Finite, CardOne, Zenon
<1>7. Cardinality(Writers') = Cardinality(Writers) + One(w) - One(t \in Writers)
  BY <1>3, <1>4, Finite, CardOne, Zenon
<1>8. Cardinality(WaitingReaders') = Cardinality(WaitingReaders) + One(wr) - One(t \in WaitingReaders)
  BY <1>3, <1>4, Finite, CardOne, Zenon
<1>9. Cardinality(WaitingWriters') = Cardinality(WaitingWriters) + One(ww) - One(t \in WaitingWriters)
  BY <1>3, <1>4, Finite, CardOne, Zenon
<1>10. CountsExact'
  BY <1>5, <1>6, <1>7, <1>8, <1>9, Zenon DEF CountsExact
<1>11. /\ IsFiniteSet(Readers') /\ IsFiniteSet(Writers')
       /\ IsFiniteSet(WaitingReaders') /\ IsFiniteSet(WaitingWriters')
  BY <1>4, Finite, FS_AddElement, FS_RemoveElement, Zenon
<1> QED BY <1>10, <1>11, FS_CardinalityType, Zenon DEF CountsExact

-----------------------------------------------------------------------------
\* The guard stays where it is, is taken, or is given up by the thread that moves.
GuardStep(t, to) ==
  \/ guard' = guard /\ (to \in GuardPc <=> pc[t] \in GuardPc)
  \/ guard = NULL /\ guard' = t /\ to \in GuardPc
  \/ pc[t] \in GuardPc /\ guard' = NULL /\ to \notin GuardPc

\* The guard has one holder after a step too.
LEMMA GuardMove ==
  ASSUME TypeOK, GuardExcludes, NEW t \in Threads, NEW to, NEW W \in SUBSET Threads, t \notin W,
         \A u \in W : pc[u] = "blocked", Move(t, to, W), GuardStep(t, to)
  PROVE  GuardExcludes' /\ guard' \in Threads \cup {NULL}
<1>1. /\ pc'[t] = to
      /\ \A u \in W : pc'[u] = "woken" /\ pc[u] = "blocked"
      /\ \A u \in Threads \ {t} : u \notin W => pc'[u] = pc[u]
  BY Zenon DEF Move
<1>2. \A u \in Threads \ {t} : pc'[u] \in GuardPc <=> pc[u] \in GuardPc
  BY <1>1, Zenon DEF GuardPc
<1>3. NULL \notin Threads
  BY RWAssumption, Zenon
<1>4. guard' \in Threads \cup {NULL}
  BY Zenon DEF GuardStep, TypeOK
<1>5. CASE guard' = guard /\ (to \in GuardPc <=> pc[t] \in GuardPc)
  BY <1>1, <1>2, <1>4, <1>5, Zenon DEF GuardExcludes
<1>6. CASE guard = NULL /\ guard' = t /\ to \in GuardPc
  BY <1>1, <1>2, <1>3, <1>4, <1>6, Zenon DEF GuardExcludes
<1>7. CASE pc[t] \in GuardPc /\ guard' = NULL /\ to \notin GuardPc
  BY <1>1, <1>2, <1>3, <1>4, <1>7, Zenon DEF GuardExcludes
<1> QED BY <1>4, <1>5, <1>6, <1>7, Zenon DEF GuardStep

\* A step that only changes how far t has got.
QuietStep(t, to) ==
  /\ pc' = [pc EXCEPT ![t] = to]
  /\ \A u \in Threads \ {t} : reader'[u] = reader[u]
  /\ reader'[t] = reader[t] \/ pc[t] = "out"
  /\ UNCHANGED <<counts, waiters>>
  /\ to \in ActivePc <=> pc[t] \in ActivePc
  /\ to \in CountedPc <=> pc[t] \in CountedPc
  /\ to \in ListedPc <=> pc[t] \in ListedPc
  /\ pc[t] \notin {"woken", "test"}

\* Such a step keeps the invariant and lets nobody in or out.
LEMMA Quiet ==
  ASSUME IInv, NEW t \in Threads, NEW to \in Pcs, reader' \in [Threads -> BOOLEAN],
         broken' \in BOOLEAN, QuietStep(t, to), GuardStep(t, to)
  PROVE  IInv' /\ Readers' = Readers /\ Writers' = Writers
<1> USE DEF IInv
<1>1. pc' = [u \in Threads |-> IF u = t THEN to ELSE IF u \in {} THEN "woken" ELSE pc[u]]
  BY Zenon DEF QuietStep, TypeOK
<1>2. Move(t, to, {})
  BY <1>1, Zenon DEF QuietStep, Move
<1>3. /\ reader[t] \in BOOLEAN /\ reader'[t] \in BOOLEAN
      /\ reader'[t] = reader[t] \/ (pc[t] \notin ActivePc /\ pc[t] \notin CountedPc /\ pc[t] \notin ListedPc)
  BY Zenon DEF TypeOK, QuietStep, ActivePc, CountedPc, ListedPc
<1>4. /\ (reader'[t] /\ to \in ActivePc) = (reader[t] /\ pc[t] \in ActivePc)
      /\ (~reader'[t] /\ to \in ActivePc) = (~reader[t] /\ pc[t] \in ActivePc)
      /\ (reader'[t] /\ to \in CountedPc) = (reader[t] /\ pc[t] \in CountedPc)
      /\ (~reader'[t] /\ to \in CountedPc) = (~reader[t] /\ pc[t] \in CountedPc)
  BY <1>3, Zenon DEF QuietStep
<1>5. Readers' = Readers /\ Writers' = Writers
  BY <1>2, <1>4, MoveSets DEF Readers, Writers
<1>6. AR' = AR /\ AW' = AW /\ WR' = WR /\ WW' = WW /\ waiters' = waiters
  BY Zenon DEF QuietStep, counts
<1>7. CountsExact' /\ AR' \in Nat /\ AW' \in Nat /\ WR' \in Nat /\ WW' \in Nat
  <2>1. /\ WaitingReaders' = WaitingReaders
        /\ WaitingWriters' = WaitingWriters
    BY <1>2, <1>4, MoveSets DEF WaitingReaders, WaitingWriters
  <2> QED BY <1>5, <1>6, <2>1, Zenon DEF CountsExact, TypeOK
<1>8. GuardExcludes' /\ guard' \in Threads \cup {NULL}
  BY <1>2, GuardMove
<1>9. pc' \in [Threads -> Pcs]
  BY <1>1, Zenon DEF TypeOK, Pcs
<1>10. TypeOK'
  BY <1>6, <1>7, <1>8, <1>9, Zenon DEF TypeOK, Pcs
<1>11. \A c : Listed(c)' = Listed(c)
  BY <1>2, <1>3, MoveSets DEF Listed, Queue, QuietStep
<1>12. WaitersListed'
  BY <1>6, <1>11, Zenon DEF WaitersListed, Listed, ListedPc
<1>13. Exclusion'
  BY <1>5, Zenon DEF Exclusion
<1>14. WriterAwake'
  <2>1. ASSUME AR' + AW' = 0, NEW u \in Threads, ~reader'[u], pc'[u] \in ListedPc
        PROVE  \E v \in Threads : ~reader'[v] /\ pc'[v] \in {"woken", "test"}
    <3>1. ~reader[u] /\ pc[u] \in ListedPc
      BY <2>1, <1>1, <1>3, Zenon DEF QuietStep
    <3>2. PICK v \in Threads : ~reader[v] /\ pc[v] \in {"woken", "test"}
      BY <3>1, <2>1, <1>6, Zenon DEF WriterAwake
    <3>3. v # t
      BY <3>2, Zenon DEF QuietStep
    <3> QED BY <3>2, <3>3, <1>1, Zenon DEF QuietStep
  <2> QED BY <2>1, Zenon DEF WriterAwake
<1> QED BY <1>5, <1>7, <1>8, <1>10, <1>12, <1>13, <1>14, Zenon

-----------------------------------------------------------------------------
\* A counter is 0 exactly when nobody is counted.
LEMMA CountZero ==
  ASSUME CountsExact
  PROVE  /\ AR = 0 <=> Readers = {}
         /\ AW = 0 <=> Writers = {}
         /\ WW = 0 <=> WaitingWriters = {}
BY Finite, FS_EmptySet, Zenon DEF CountsExact

\* rw_lock_acquire() past its loop: a reader finds no writer, a writer nobody.
LEMMA Enter ==
  ASSUME IInv, NEW t \in Threads, rw_lock_enter(t)
  PROVE  /\ IInv'
         /\ t \notin Readers \cup Writers
         /\ \/ Writers = {} /\ Readers' = Readers \cup {t} /\ Writers' = Writers
            \/ Readers = {} /\ Writers = {} /\ Writers' = {t} /\ Readers' = Readers
<1> USE DEF IInv
<1>1. /\ pc[t] = "test" /\ ~MustWait(t) /\ reader' = reader /\ reader[t] \in BOOLEAN
      /\ AR \in Nat /\ AW \in Nat /\ WW \in Nat /\ WR \in Nat
      /\ AR' = IF reader[t] THEN AR + 1 ELSE AR
      /\ AW' = IF reader[t] THEN AW ELSE AW + 1
      /\ UNCHANGED <<guard, WR, WW, waiters, broken>>
  BY Zenon DEF rw_lock_enter, Goto, TypeOK
<1>2. pc' = [u \in Threads |-> IF u = t THEN "enter" ELSE IF u \in {} THEN "woken" ELSE pc[u]]
  BY Zenon DEF rw_lock_enter, Goto, TypeOK
<1>3. Move(t, "enter", {}) /\ reader' \in [Threads -> BOOLEAN]
  BY <1>1, <1>2, Zenon DEF Move, TypeOK
<1>4. t \notin Readers /\ t \notin Writers /\ \A c : t \notin Listed(c)
  BY <1>1, Zenon DEF Readers, Writers, ActivePc, Listed, ListedPc
<1>5. /\ Readers' = IF reader[t] THEN Readers \cup {t} ELSE Readers
      /\ Writers' = IF reader[t] THEN Writers ELSE Writers \cup {t}
      /\ \A c : Listed(c)' = Listed(c)
  <2>1. /\ Readers' = IF reader[t] THEN Readers \cup {t} ELSE Readers
        /\ Writers' = IF reader[t] THEN Writers ELSE Writers \cup {t}
    <3>1. /\ Readers' = IF reader'[t] /\ "enter" \in ActivePc THEN Readers \cup {t} ELSE Readers \ {t}
          /\ Writers' = IF ~reader'[t] /\ "enter" \in ActivePc THEN Writers \cup {t} ELSE Writers \ {t}
      BY <1>3, MoveSets
    <3> QED BY <1>1, <1>4, <3>1, Zenon DEF ActivePc
  <2>2. \A c : Listed(c)' = Listed(c)
    <3>1. \A c : Listed(c)' = IF Queue(t)' = c /\ "enter" \in ListedPc
                              THEN Listed(c) \cup {t} ELSE Listed(c) \ {t}
      BY <1>3, MoveOne, Zenon
    <3> QED BY <1>4, <3>1, Zenon DEF ListedPc
  <2> QED BY <2>1, <2>2, Zenon
<1>6. CountsExact' /\ AR' \in Nat /\ AW' \in Nat /\ WR' \in Nat /\ WW' \in Nat
  BY <1>1, <1>3, MoveCounts DEF One, ActivePc, CountedPc
<1>7. GuardExcludes' /\ guard' \in Threads \cup {NULL}
  BY <1>1, <1>3, GuardMove DEF GuardStep, GuardPc
<1>8. TypeOK'
  BY <1>1, <1>2, <1>3, <1>6, <1>7, Zenon DEF TypeOK, GuardPc
<1>9. WaitersListed'
  BY <1>1, <1>5, Zenon DEF WaitersListed, Listed, ListedPc
<1>10. WriterAwake'
  BY <1>1 DEF WriterAwake
<1>11. CASE reader[t]
  <2>1. Writers = {}
    BY <1>1, <1>11, CountZero DEF MustWait
  <2> QED BY <1>4, <1>5, <1>6, <1>7, <1>8, <1>9, <1>10, <1>11, <2>1, Zenon DEF Exclusion
<1>12. CASE ~reader[t]
  <2>1. Writers = {} /\ Readers = {}
    BY <1>1, <1>12, CountZero DEF MustWait
  <2> QED BY <1>4, <1>5, <1>6, <1>7, <1>8, <1>9, <1>10, <1>12, <2>1, Zenon DEF Exclusion
<1> QED BY <1>1, <1>11, <1>12, Zenon

\* cond_wait() up to the insertion: whoever must wait is counted and listed.
LEMMA Wait ==
  ASSUME IInv, NEW t \in Threads, rw_lock_wait(t)
  PROVE  IInv' /\ Readers' = Readers /\ Writers' = Writers
<1> USE DEF IInv
<1> DEFINE q == Queue(t)
           s == waiters[q]
           P == {i \in 1 .. Len(s) : Pri[t] > Pri[s[i]]}
           r == list_insert(s, First(P, Len(s)), t)
<1>1. /\ pc[t] = "test" /\ MustWait(t) /\ reader' = reader /\ reader[t] \in BOOLEAN
      /\ AR \in Nat /\ AW \in Nat /\ WW \in Nat /\ WR \in Nat
      /\ WR' = IF reader[t] THEN WR + 1 ELSE WR
      /\ WW' = IF reader[t] THEN WW ELSE WW + 1
      /\ UNCHANGED <<guard, AR, AW, broken>>
  BY Zenon DEF rw_lock_wait, Goto, TypeOK
<1>2. pc' = [u \in Threads |-> IF u = t THEN "ins" ELSE IF u \in {} THEN "woken" ELSE pc[u]]
  BY Zenon DEF rw_lock_wait, Goto, TypeOK
<1>3. Move(t, "ins", {}) /\ reader' \in [Threads -> BOOLEAN]
  BY <1>1, <1>2, Zenon DEF Move, TypeOK
<1>4. t \notin Readers /\ t \notin Writers /\ \A c : t \notin Listed(c)
  BY <1>1, Zenon DEF Readers, Writers, ActivePc, Listed, ListedPc
<1>5. /\ Readers' = Readers /\ Writers' = Writers
      /\ \A c : Listed(c)' = IF Queue(t)' = c THEN Listed(c) \cup {t} ELSE Listed(c)
  <2>1. Readers' = Readers /\ Writers' = Writers
    <3>1. /\ Readers' = IF reader'[t] /\ "ins" \in ActivePc THEN Readers \cup {t} ELSE Readers \ {t}
          /\ Writers' = IF ~reader'[t] /\ "ins" \in ActivePc THEN Writers \cup {t} ELSE Writers \ {t}
      BY <1>3, MoveSets
    <3> QED BY <1>1, <1>4, <3>1, Zenon DEF ActivePc
  <2>2. \A c : Listed(c)' = IF Queue(t)' = c THEN Listed(c) \cup {t} ELSE Listed(c)
    <3>1. \A c : Listed(c)' = IF Queue(t)' = c /\ "ins" \in ListedPc
                              THEN Listed(c) \cup {t} ELSE Listed(c) \ {t}
      BY <1>3, MoveOne, Zenon
    <3> QED BY <1>4, <3>1, Zenon DEF ListedPc
  <2> QED BY <2>1, <2>2, Zenon
<1>6. CountsExact' /\ AR' \in Nat /\ AW' \in Nat /\ WR' \in Nat /\ WW' \in Nat
  BY <1>1, <1>3, MoveCounts DEF One, ActivePc, CountedPc
<1>7. GuardExcludes' /\ guard' \in Threads \cup {NULL}
  BY <1>1, <1>3, GuardMove DEF GuardStep, GuardPc
<1>8. /\ q \in Conds /\ Queue(t)' = q
      /\ s \in Seq(Threads) /\ IsInjective(s) /\ Range(s) = Listed(q)
  BY <1>1, Zenon DEF Queue, Conds, TypeOK, WaitersListed, Listed, ListedPc
<1>9. waiters' = [waiters EXCEPT ![q] = r]
  BY Zenon DEF rw_lock_wait, list_insert_ordered
<1>10. r \in Seq(Threads) /\ Range(r) = Listed(q) \cup {t} /\ IsInjective(r)
  <2>1. P \in SUBSET (1 .. Len(s)) /\ t \notin Range(s)
    BY <1>4, <1>8, Zenon
  <2> QED BY <1>8, <2>1, InsertFirst
<1> HIDE DEF q, r
<1>11. waiters' \in [Conds -> Seq(Threads)] /\ waiters'[q] = r /\ \A c \in Conds \ {q} : waiters'[c] = waiters[c]
  BY <1>8, <1>9, <1>10, Zenon DEF TypeOK
<1>12. TypeOK'
  BY <1>1, <1>2, <1>3, <1>6, <1>7, <1>11, Zenon DEF TypeOK, GuardPc
<1>13. \A c \in Conds : Range(waiters[c]) = Listed(c) /\ IsInjective(waiters[c])
  BY Zenon DEF WaitersListed, Listed, ListedPc
<1>14. \A c \in Conds : Range(waiters'[c]) = Listed(c)' /\ IsInjective(waiters'[c])
  BY <1>5, <1>8, <1>10, <1>11, <1>13, Zenon
<1>15. WaitersListed'
  BY <1>14, Zenon DEF WaitersListed, Listed, ListedPc
<1>16. Exclusion'
  BY <1>5, Zenon DEF Exclusion
<1>17. WriterAwake'
  <2>1. ASSUME AR' + AW' = 0, NEW u \in Threads, ~reader'[u], pc'[u] \in ListedPc
        PROVE  \E v \in Threads : ~reader'[v] /\ pc'[v] \in {"woken", "test"}
    <3>1. reader[t]
      BY <1>1, <2>1 DEF MustWait
    <3>2. ~reader[u] /\ pc[u] \in ListedPc
      BY <1>1, <1>2, <2>1, <3>1, Zenon
    <3>3. PICK v \in Threads : ~reader[v] /\ pc[v] \in {"woken", "test"}
      BY <1>1, <2>1, <3>2, Zenon DEF WriterAwake
    <3> QED BY <1>1, <1>2, <3>1, <3>3, Zenon
  <2> QED BY <2>1, Zenon DEF WriterAwake
<1> QED BY <1>5, <1>6, <1>7, <1>12, <1>15, <1>16, <1>17, Zenon

\* cond_wait() from where it has been woken back to the loop's test.
LEMMA Relock ==
  ASSUME IInv, NEW t \in Threads, cond_wait_relock(t)
  PROVE  IInv' /\ Readers' = Readers /\ Writers' = Writers
<1> USE DEF IInv
<1>1. /\ pc[t] = "woken" /\ guard = NULL /\ guard' = t /\ reader' = reader /\ reader[t] \in BOOLEAN
      /\ AR \in Nat /\ AW \in Nat /\ WW \in Nat /\ WR \in Nat
      /\ WR' = IF reader[t] THEN WR - 1 ELSE WR
      /\ WW' = IF reader[t] THEN WW ELSE WW - 1
      /\ UNCHANGED <<AR, AW, waiters, broken>>
  BY Zenon DEF cond_wait_relock, lock_acquire, Goto, TypeOK
<1>2. pc' = [u \in Threads |-> IF u = t THEN "test" ELSE IF u \in {} THEN "woken" ELSE pc[u]]
  BY Zenon DEF cond_wait_relock, lock_acquire, Goto, TypeOK
<1>3. Move(t, "test", {}) /\ reader' \in [Threads -> BOOLEAN]
  BY <1>1, <1>2, Zenon DEF Move, TypeOK
<1>4. t \notin Readers /\ t \notin Writers /\ \A c : t \notin Listed(c)
  BY <1>1, Zenon DEF Readers, Writers, ActivePc, Listed, ListedPc
<1>5. Readers' = Readers /\ Writers' = Writers /\ \A c : Listed(c)' = Listed(c)
  <2>1. Readers' = Readers /\ Writers' = Writers
    <3>1. /\ Readers' = IF reader'[t] /\ "test" \in ActivePc THEN Readers \cup {t} ELSE Readers \ {t}
          /\ Writers' = IF ~reader'[t] /\ "test" \in ActivePc THEN Writers \cup {t} ELSE Writers \ {t}
      BY <1>3, MoveSets
    <3> QED BY <1>1, <1>4, <3>1, Zenon DEF ActivePc
  <2>2. \A c : Listed(c)' = Listed(c)
    <3>1. \A c : Listed(c)' = IF Queue(t)' = c /\ "test" \in ListedPc
                              THEN Listed(c) \cup {t} ELSE Listed(c) \ {t}
      BY <1>3, MoveOne, Zenon
    <3> QED BY <1>4, <3>1, Zenon DEF ListedPc
  <2> QED BY <2>1, <2>2, Zenon
<1>6. CountsExact' /\ AR' \in Nat /\ AW' \in Nat /\ WR' \in Nat /\ WW' \in Nat
  BY <1>1, <1>3, MoveCounts DEF One, ActivePc, CountedPc
<1>7. GuardExcludes' /\ guard' \in Threads \cup {NULL}
  BY <1>1, <1>3, GuardMove DEF GuardStep, GuardPc
<1>8. TypeOK'
  BY <1>1, <1>2, <1>3, <1>6, <1>7, Zenon DEF TypeOK, GuardPc
<1>9. WaitersListed'
  BY <1>1, <1>5, Zenon DEF WaitersListed, Listed, ListedPc
<1>10. WriterAwake'
  BY <1>1, <1>2, Zenon DEF WriterAwake, ListedPc
<1> QED BY <1>5, <1>6, <1>7, <1>8, <1>9, <1>10, Zenon DEF Exclusion

-----------------------------------------------------------------------------
\* cond_signal() and cond_broadcast(), or neither: t has left, the threads W are
\* woken and taken off the lists.
WakeStep(t, W) ==
  /\ pc' = [u \in Threads |-> IF u = t THEN "leave" ELSE IF u \in W THEN "woken" ELSE pc[u]]
  /\ waiters' \in [Conds -> Seq(Threads)]
  /\ \A c \in Conds : IsInjective(waiters'[c]) /\ Range(waiters'[c]) = Range(waiters[c]) \ W

\* Whoever is listed while t runs is blocked, and on one list only.
LEMMA ListedBlocked ==
  ASSUME IInv, NEW t \in Threads, Runs(t), pc[t] = "update"
  PROVE  \A c \in Conds : /\ waiters[c] \in Seq(Threads) /\ IsInjective(waiters[c])
                          /\ Range(waiters[c]) = Listed(c)
                          /\ \A u \in Range(waiters[c]) :
                               u \in Threads /\ u # t /\ pc[u] = "blocked" /\ Queue(u) = c
<1>1. \A c \in Conds : /\ waiters[c] \in Seq(Threads) /\ IsInjective(waiters[c])
                       /\ Range(waiters[c]) = Listed(c)
  BY Zenon DEF IInv, TypeOK, WaitersListed, Listed, ListedPc
<1>2. \A c, u : u \in Listed(c) => u \in Threads /\ u # t /\ pc[u] = "blocked" /\ Queue(u) = c
  BY Zenon DEF Listed, ListedPc, Runs, Window
<1> QED BY <1>1, <1>2, Zenon

\* cond_signal() wakes one listed thread, if there is one.
LEMMA Signal ==
  ASSUME IInv, NEW t \in Threads, Runs(t), pc[t] = "update", NEW c \in Conds, cond_signal(t, c)
  PROVE  \E W \in SUBSET Listed(c) : WakeStep(t, W) /\ (Listed(c) # {} => W # {})
<1>1. /\ waiters \in [Conds -> Seq(Threads)] /\ waiters[c] \in Seq(Threads)
      /\ IsInjective(waiters[c]) /\ Range(waiters[c]) = Listed(c)
      /\ \A d \in Conds \ {c} : IsInjective(waiters[d]) /\ Range(waiters[d]) \cap Listed(c) = {}
      /\ pc \in [Threads -> Pcs]
  BY ListedBlocked DEF IInv, TypeOK, Pcs
<1>2. CASE waiters[c] = <<>> /\ pc' = [pc EXCEPT ![t] = "leave"] /\ UNCHANGED waiters
  <2>1. Listed(c) = {}
    BY <1>1, <1>2, RangeFacts, Zenon
  <2>2. pc' = [u \in Threads |-> IF u = t THEN "leave" ELSE IF u \in {} THEN "woken" ELSE pc[u]]
    BY <1>1, <1>2, Zenon
  <2>3. \A d \in Conds : IsInjective(waiters'[d]) /\ Range(waiters'[d]) = Range(waiters[d]) \ {}
    BY <1>1, <1>2, Zenon
  <2>4. WakeStep(t, {})
    BY <1>1, <1>2, <2>2, <2>3, Zenon DEF WakeStep
  <2> QED BY <2>1, <2>4, Zenon
<1>3. ASSUME NEW i \in 1 .. Len(waiters[c]),
             pc' = [pc EXCEPT ![t] = "leave", ![waiters[c][i]] = "woken"],
             waiters' = [waiters EXCEPT ![c] = Unlink(@, i)]
      PROVE  \E W \in SUBSET Listed(c) : WakeStep(t, W) /\ (Listed(c) # {} => W # {})
  <2> DEFINE s == waiters[c]
             x == s[i]
             r == Unlink(s, i)
  <2>1. x \in Listed(c) /\ x # t
    BY <1>1, ListedBlocked DEF Range
  <2>2. r = list_remove(s, x)
    <3>1. i = CHOOSE j \in 1 .. Len(s) : s[j] = x
      BY <1>1 DEF IsInjective
    <3> QED BY <1>1, <2>1, <3>1, Zenon DEF list_remove
  <2>3. r \in Seq(Threads) /\ IsInjective(r) /\ Range(r) = Range(s) \ {x}
    BY <1>1, <2>2, RemoveElems
  <2>4. waiters' = [waiters EXCEPT ![c] = r]
    BY <1>3, Zenon
  <2>5. pc' = [u \in Threads |-> IF u = t THEN "leave" ELSE IF u \in {x} THEN "woken" ELSE pc[u]]
    BY <1>1, <1>3, <2>1, Zenon
  <2> HIDE DEF r, x
  <2>6. waiters' \in [Conds -> Seq(Threads)] /\ waiters'[c] = r /\ \A d \in Conds \ {c} : waiters'[d] = waiters[d]
    BY <1>1, <2>3, <2>4, Zenon
  <2>7. \A d \in Conds : IsInjective(waiters'[d]) /\ Range(waiters'[d]) = Range(waiters[d]) \ {x}
    <3>1. ASSUME NEW d \in Conds, d # c
          PROVE  Range(waiters[d]) = Range(waiters[d]) \ {x}
      BY <1>1, <2>1, <3>1, Zenon
    <3>2. ASSUME NEW d \in Conds
          PROVE  IsInjective(waiters'[d]) /\ Range(waiters'[d]) = Range(waiters[d]) \ {x}
      BY <1>1, <2>3, <2>6, <3>1, Zenon
    <3> QED BY <3>2, Zenon
  <2>8. WakeStep(t, {x})
    BY <2>5, <2>6, <2>7, Zenon DEF WakeStep
  <2> QED BY <2>1, <2>8, Zenon
<1> QED BY <1>2, <1>3, Zenon DEF cond_signal

\* cond_broadcast() wakes every listed thread.
LEMMA Broadcast ==
  ASSUME IInv, NEW t \in Threads, Runs(t), pc[t] = "update", NEW c \in Conds, cond_broadcast(t, c)
  PROVE  WakeStep(t, Listed(c))
<1>1. /\ waiters \in [Conds -> Seq(Threads)] /\ Range(waiters[c]) = Listed(c)
      /\ \A d \in Conds \ {c} : IsInjective(waiters[d]) /\ Range(waiters[d]) \cap Listed(c) = {}
  BY ListedBlocked DEF IInv, TypeOK
<1>2. pc' = [u \in Threads |-> IF u = t THEN "leave" ELSE IF u \in Listed(c) THEN "woken" ELSE pc[u]]
  BY <1>1, Zenon DEF cond_broadcast
<1>3. /\ waiters' \in [Conds -> Seq(Threads)] /\ waiters'[c] = <<>>
      /\ \A d \in Conds \ {c} : waiters'[d] = waiters[d]
  BY <1>1 DEF cond_broadcast
<1>4. IsInjective(waiters'[c]) /\ Range(waiters'[c]) = {}
  <2>1. <<>> \in Seq(Threads) /\ DOMAIN <<>> = 1 .. 0
    OBVIOUS
  <2> QED BY <1>3, <2>1 DEF IsInjective, Range
<1>5. ASSUME NEW d \in Conds
      PROVE  IsInjective(waiters'[d]) /\ Range(waiters'[d]) = Range(waiters[d]) \ Listed(c)
  <2>1. CASE d = c
    BY <1>1, <1>4, <2>1, Zenon
  <2>2. CASE d # c
    BY <1>1, <1>3, <2>2, Zenon
  <2> QED BY <2>1, <2>2, Zenon
<1> QED BY <1>2, <1>3, <1>5, Zenon DEF WakeStep

\* Leaving without a wake-up.
LEMMA NoWake ==
  ASSUME IInv, NEW t \in Threads, pc' = [pc EXCEPT ![t] = "leave"], UNCHANGED waiters
  PROVE  WakeStep(t, {})
<1>1. pc' = [u \in Threads |-> IF u = t THEN "leave" ELSE IF u \in {} THEN "woken" ELSE pc[u]]
  BY Zenon DEF IInv, TypeOK
<1>2. \A c \in Conds : IsInjective(waiters'[c]) /\ Range(waiters'[c]) = Range(waiters[c]) \ {}
  BY Zenon DEF IInv, WaitersListed
<1> QED BY <1>1, <1>2, Zenon DEF WakeStep, IInv, TypeOK

\* rw_lock_release(): t is no longer active, and if that leaves the rw_lock to
\* waiting writers one of them is woken.
LEMMA Leave ==
  ASSUME IInv, NEW t \in Threads, Runs(t), pc[t] = "update", NEW c \in Conds,
         NEW W \in SUBSET Listed(c), WakeStep(t, W),
         AR' = IF reader[t] THEN AR - 1 ELSE AR, AW' = IF reader[t] THEN AW ELSE AW - 1,
         UNCHANGED <<reader, guard, WR, WW, broken>>,
         AR' + AW' = 0 /\ Listed("write") # {} => \E u \in W : ~reader[u]
  PROVE  IInv' /\ Readers' = Readers \ {t} /\ Writers' = Writers \ {t}
<1> USE DEF IInv
<1>1. /\ reader' \in [Threads -> BOOLEAN] /\ reader[t] \in BOOLEAN /\ reader'[t] = reader[t]
      /\ AR \in Nat /\ AW \in Nat /\ WW \in Nat /\ WR \in Nat
  BY Zenon DEF TypeOK
<1>2. W \in SUBSET Threads /\ t \notin W /\ \A u \in W : pc[u] = "blocked"
  BY ListedBlocked
<1>3. Move(t, "leave", W)
  BY Zenon DEF Move, WakeStep
<1>4. Readers' = Readers \ {t} /\ Writers' = Writers \ {t}
  <2>1. /\ Readers' = IF reader'[t] /\ "leave" \in ActivePc THEN Readers \cup {t} ELSE Readers \ {t}
        /\ Writers' = IF ~reader'[t] /\ "leave" \in ActivePc THEN Writers \cup {t} ELSE Writers \ {t}
    BY <1>1, <1>2, <1>3, MoveSets, Zenon
  <2> QED BY <2>1, Zenon DEF ActivePc
<1>5. CountsExact' /\ AR' \in Nat /\ AW' \in Nat /\ WR' \in Nat /\ WW' \in Nat
  <2>1. /\ "leave" \notin ActivePc /\ "leave" \notin CountedPc
        /\ pc[t] \in ActivePc /\ pc[t] \notin CountedPc
    BY Zenon DEF ActivePc, CountedPc
  <2>2. /\ AR' = AR + One(reader'[t] /\ "leave" \in ActivePc) - One(reader[t] /\ pc[t] \in ActivePc)
        /\ AW' = AW + One(~reader'[t] /\ "leave" \in ActivePc) - One(~reader[t] /\ pc[t] \in ActivePc)
        /\ WR' = WR + One(reader'[t] /\ "leave" \in CountedPc) - One(reader[t] /\ pc[t] \in CountedPc)
        /\ WW' = WW + One(~reader'[t] /\ "leave" \in CountedPc) - One(~reader[t] /\ pc[t] \in CountedPc)
    BY <1>1, <2>1 DEF One
  <2> QED BY <1>1, <1>2, <1>3, <2>2, MoveCounts, Zenon
<1>6. GuardExcludes' /\ guard' \in Threads \cup {NULL}
  <2>1. GuardStep(t, "leave")
    BY Zenon DEF GuardStep, GuardPc
  <2> QED BY <1>2, <1>3, <2>1, GuardMove, Zenon
<1>7. pc' \in [Threads -> Pcs]
  BY Zenon DEF WakeStep, TypeOK, Pcs, GuardPc
<1>8. TypeOK'
  BY <1>1, <1>5, <1>6, <1>7, Zenon DEF TypeOK, WakeStep, Pcs
<1>9. WaitersListed'
  <2>1. \A d : Listed(d)' = IF Queue(t)' = d /\ "leave" \in ListedPc
                           THEN (Listed(d) \ W) \cup {t} ELSE (Listed(d) \ W) \ {t}
    BY <1>1, <1>2, <1>3, MoveSets, Zenon
  <2>2. \A d : t \notin Listed(d)
    BY Zenon DEF Listed, ListedPc
  <2>3. \A d : Listed(d)' = Listed(d) \ W
    BY <2>1, <2>2, Zenon DEF ListedPc
  <2>4. \A d \in Conds : Range(waiters[d]) = Listed(d)
    BY ListedBlocked, Zenon
  <2>5. \A d \in Conds : IsInjective(waiters'[d]) /\ Range(waiters'[d]) = Listed(d)'
    BY <2>3, <2>4, Zenon DEF WakeStep
  <2> QED BY <2>5, Zenon DEF WaitersListed, Listed, ListedPc
<1>10. Exclusion'
  BY <1>4, Zenon DEF Exclusion
<1>11. WriterAwake'
  <2>1. ASSUME AR' + AW' = 0, NEW u \in Threads, ~reader'[u], pc'[u] \in ListedPc
        PROVE  \E v \in Threads : ~reader'[v] /\ pc'[v] \in {"woken", "test"}
    <3>1. u \in Listed("write")
      BY <2>1, Zenon DEF WakeStep, Listed, ListedPc, Queue
    <3>2. PICK v \in W : ~reader[v]
      BY <2>1, <3>1, Zenon
    <3> QED BY <1>2, <3>2, Zenon DEF WakeStep
  <2> QED BY <2>1, Zenon DEF WriterAwake
<1> QED BY <1>4, <1>5, <1>6, <1>8, <1>9, <1>10, <1>11, Zenon

\* A listed writer is counted by WW, and only a writer waits for writers to leave.
LEMMA ListedWriters ==
  ASSUME IInv
  PROVE  /\ Listed("write") # {} => WW > 0
         /\ \A u \in Listed("write") : ~reader[u]
<1>1. Listed("write") \subseteq WaitingWriters
  BY Zenon DEF Listed, ListedPc, WaitingWriters, CountedPc, Queue
<1>2. WW \in Nat /\ (WW = 0 <=> WaitingWriters = {})
  BY CountZero, Zenon DEF IInv, TypeOK
<1> QED BY <1>1, <1>2 DEF WaitingWriters

\* The last reader to leave wakes a writer if one waits.
LEMMA LeaveReader ==
  ASSUME IInv, NEW t \in Threads, rw_lock_release_reader(t)
  PROVE  IInv' /\ t \in Readers /\ Readers' = Readers \ {t} /\ Writers' = Writers
<1>1. /\ Runs(t) /\ pc[t] = "update" /\ reader[t] /\ AR \in Nat /\ AW \in Nat
      /\ AR' = AR - 1 /\ AW' = AW /\ UNCHANGED <<reader, guard, WR, WW, broken>>
  BY Zenon DEF rw_lock_release_reader, IInv, TypeOK
<1>2. t \in Readers /\ t \notin Writers
  BY <1>1, Zenon DEF Readers, Writers, ActivePc
<1>3. AW = 0 /\ AR # 0 /\ "write" \in Conds
  BY <1>2, CountZero, Zenon DEF IInv, Exclusion, Conds
<1>4. CASE AR - 1 = 0 /\ WW > 0
  <2>1. PICK W \in SUBSET Listed("write") : WakeStep(t, W) /\ (Listed("write") # {} => W # {})
    BY <1>1, <1>3, <1>4, Signal, Zenon DEF rw_lock_release_reader
  <2>2. Listed("write") # {} => \E u \in W : ~reader[u]
    BY <2>1, ListedWriters, Zenon
  <2> QED BY <1>1, <1>2, <1>3, <2>1, <2>2, Leave
<1>5. CASE ~(AR - 1 = 0 /\ WW > 0)
  <2>1. WakeStep(t, {})
    BY <1>5, NoWake, Zenon DEF rw_lock_release_reader
  <2>2. ~(AR' + AW' = 0 /\ Listed("write") # {})
    BY <1>1, <1>3, <1>5, ListedWriters
  <2> QED BY <1>1, <1>2, <1>3, <2>1, <2>2, Leave, ZenonT(60)
<1> QED BY <1>4, <1>5, Zenon

\* A writer that leaves wakes a writer, or else every reader.
LEMMA LeaveWriter ==
  ASSUME IInv, NEW t \in Threads, rw_lock_release_writer(t)
  PROVE  IInv' /\ Writers = {t} /\ Writers' = {} /\ Readers' = Readers
<1>1. /\ Runs(t) /\ pc[t] = "update" /\ ~reader[t] /\ AR \in Nat /\ AW \in Nat /\ WW \in Nat
      /\ AW' = AW - 1 /\ AR' = AR /\ UNCHANGED <<reader, guard, WR, WW, broken>>
  BY Zenon DEF rw_lock_release_writer, IInv, TypeOK
<1>2. t \in Writers /\ t \notin Readers
  BY <1>1, Zenon DEF Readers, Writers, ActivePc
<1>3. Writers = {t}
  BY <1>2, Zenon DEF IInv, Exclusion
<1>4. "write" \in Conds /\ "read" \in Conds
  BY Zenon DEF Conds
<1>5. IInv' /\ Readers' = Readers \ {t} /\ Writers' = Writers \ {t}
  <2>1. CASE WW > 0
    <3>1. PICK W \in SUBSET Listed("write") : WakeStep(t, W) /\ (Listed("write") # {} => W # {})
      BY <1>1, <1>4, <2>1, Signal, Zenon DEF rw_lock_release_writer
    <3>2. Listed("write") # {} => \E u \in W : ~reader[u]
      BY <3>1, ListedWriters, Zenon
    <3> QED BY <1>1, <1>4, <3>1, <3>2, Leave, Zenon
  <2>2. CASE ~(WW > 0) /\ WR > 0
    <3>1. WakeStep(t, Listed("read"))
      BY <1>1, <1>4, <2>2, Broadcast, Zenon DEF rw_lock_release_writer
    <3>2. Listed("write") = {}
      BY <2>2, ListedWriters, Zenon
    <3> QED BY <1>1, <1>4, <3>1, <3>2, Leave, Zenon
  <2>3. CASE ~(WW > 0) /\ ~(WR > 0)
    <3>1. WakeStep(t, {})
      BY <2>3, NoWake, Zenon DEF rw_lock_release_writer
    <3>2. Listed("write") = {}
      BY <2>3, ListedWriters, Zenon
    <3> QED BY <1>1, <1>4, <3>1, <3>2, Leave, Zenon
  <2> QED BY <2>1, <2>2, <2>3, Zenon
<1> QED BY <1>2, <1>3, <1>5, Zenon

-----------------------------------------------------------------------------
\* Steps that change nothing but how far t has got.
LEMMA QuietActions ==
  ASSUME IInv, NEW t \in Threads,
         \/ \E r \in BOOLEAN : rw_lock_acquire(t, r)
         \/ rw_lock_acquire_guard(t) \/ rw_lock_acquire_end(t)
         \/ cond_wait_release(t) \/ cond_wait_block(t)
         \/ rw_lock_release(t) \/ rw_lock_release_guard(t) \/ rw_lock_release_end(t)
  PROVE  IInv' /\ Readers' = Readers /\ Writers' = Writers
<1> USE DEF Goto, QuietStep, GuardStep, ActivePc, CountedPc, ListedPc, GuardPc, Pcs
<1>1. TypeOK
  BY Zenon DEF IInv
<1>2. ASSUME NEW r \in BOOLEAN, rw_lock_acquire(t, r)
      PROVE  IInv' /\ Readers' = Readers /\ Writers' = Writers
  <2>1. /\ QuietStep(t, "lock") /\ GuardStep(t, "lock") /\ "lock" \in Pcs
        /\ reader' \in [Threads -> BOOLEAN] /\ broken' \in BOOLEAN
    BY <1>1, <1>2, Zenon DEF rw_lock_acquire, TypeOK
  <2> QED BY ONLY IInv, t \in Threads, <2>1, Quiet, Zenon
<1>3. CASE rw_lock_acquire_guard(t)
  <2>1. /\ QuietStep(t, "test") /\ GuardStep(t, "test") /\ "test" \in Pcs
        /\ reader' \in [Threads -> BOOLEAN] /\ broken' \in BOOLEAN
    BY <1>1, <1>3, Zenon DEF rw_lock_acquire_guard, lock_acquire, TypeOK
  <2> QED BY <2>1, Quiet, Zenon
<1>4. CASE rw_lock_acquire_end(t)
  <2>1. /\ QuietStep(t, "in") /\ GuardStep(t, "in") /\ "in" \in Pcs
        /\ reader' \in [Threads -> BOOLEAN] /\ broken' \in BOOLEAN
    BY <1>1, <1>4, Zenon DEF rw_lock_acquire_end, lock_release, TypeOK
  <2> QED BY <2>1, Quiet, Zenon
<1>5. CASE cond_wait_release(t)
  <2>1. /\ QuietStep(t, "rel") /\ GuardStep(t, "rel") /\ "rel" \in Pcs
        /\ reader' \in [Threads -> BOOLEAN] /\ broken' \in BOOLEAN
    BY <1>1, <1>5, Zenon DEF cond_wait_release, lock_release, TypeOK
  <2> QED BY <2>1, Quiet, Zenon
<1>6. CASE cond_wait_block(t)
  <2>1. /\ QuietStep(t, "blocked") /\ GuardStep(t, "blocked") /\ "blocked" \in Pcs
        /\ reader' \in [Threads -> BOOLEAN] /\ broken' \in BOOLEAN
    BY <1>1, <1>6, Zenon DEF cond_wait_block, TypeOK
  <2> QED BY <2>1, Quiet, Zenon
<1>7. CASE rw_lock_release(t)
  <2>1. /\ QuietStep(t, "exit") /\ GuardStep(t, "exit") /\ "exit" \in Pcs
        /\ reader' \in [Threads -> BOOLEAN] /\ broken' \in BOOLEAN
    BY <1>1, <1>7, Zenon DEF rw_lock_release, TypeOK
  <2> QED BY <2>1, Quiet, Zenon
<1>8. CASE rw_lock_release_guard(t)
  <2>1. /\ QuietStep(t, "update") /\ GuardStep(t, "update") /\ "update" \in Pcs
        /\ reader' \in [Threads -> BOOLEAN] /\ broken' \in BOOLEAN
    BY <1>1, <1>8, Zenon DEF rw_lock_release_guard, lock_acquire, TypeOK
  <2> QED BY <2>1, Quiet, Zenon
<1>9. CASE rw_lock_release_end(t)
  <2>1. /\ QuietStep(t, "out") /\ GuardStep(t, "out") /\ "out" \in Pcs
        /\ reader' \in [Threads -> BOOLEAN] /\ broken' \in BOOLEAN
    BY <1>1, <1>9, Zenon DEF rw_lock_release_end, lock_release, TypeOK
  <2> QED BY <2>1, Quiet, Zenon
<1> QED BY <1>2, <1>3, <1>4, <1>5, <1>6, <1>7, <1>8, <1>9, Zenon

\* A step that leaves what the invariant is about as it is: stuttering, and
\* elem_relinked(), which ends the behaviour.
LEMMA Still ==
  ASSUME IInv, UNCHANGED <<pc, reader, guard, counts, waiters>>, broken' \in BOOLEAN
  PROVE  IInv' /\ Readers' = Readers /\ Writers' = Writers
<1>1. /\ pc' = pc /\ reader' = reader /\ guard' = guard /\ waiters' = waiters
      /\ AR' = AR /\ WR' = WR /\ AW' = AW /\ WW' = WW
  BY Zenon DEF counts
<1>2. /\ Readers' = Readers /\ Writers' = Writers
      /\ WaitingReaders' = WaitingReaders /\ WaitingWriters' = WaitingWriters
  BY <1>1, Zenon DEF Readers, Writers, WaitingReaders, WaitingWriters
<1>3. TypeOK' /\ GuardExcludes' /\ WaitersListed' /\ WriterAwake'
  BY <1>1 DEF IInv, TypeOK, GuardExcludes, WaitersListed, WriterAwake, Queue
<1> QED BY <1>1, <1>2, <1>3, Zenon DEF IInv, CountsExact, Exclusion

\* Every step keeps the invariant, and seen through who is active it is a step of
\* the readers-writers lock or none.
LEMMA StepSimulates ==
  ASSUME IInv, [Next]_vars
  PROVE  IInv' /\ [RW!Next]_(RW!vars)
<1> USE DEF RW!vars
<1>1. CASE UNCHANGED vars
  <2>1. UNCHANGED <<pc, reader, guard, counts, waiters>> /\ broken' \in BOOLEAN
    BY <1>1, Zenon DEF vars, counts, IInv, TypeOK
  <2> QED BY <2>1, Still, Zenon
<1>2. CASE Broken
  BY <1>1, <1>2, Zenon DEF Broken
<1>3. ASSUME NEW t \in Threads, elem_relinked(t)
      PROVE  IInv' /\ [RW!Next]_(RW!vars)
  BY <1>3, Still, Zenon DEF elem_relinked
<1>4. ASSUME NEW t \in Threads, Call(t) \/ Step(t)
      PROVE  IInv' /\ [RW!Next]_(RW!vars)
  <2>1. CASE rw_lock_enter(t)
    BY <2>1, Enter, Zenon DEF RW!Next, RW!StartRead, RW!StartWrite
  <2>2. CASE rw_lock_release_reader(t)
    BY <2>2, LeaveReader, Zenon DEF RW!Next, RW!EndRead
  <2>3. CASE rw_lock_release_writer(t)
    BY <2>3, LeaveWriter, Zenon DEF RW!Next, RW!EndWrite
  <2>4. CASE rw_lock_wait(t)
    BY <2>4, Wait, Zenon
  <2>5. CASE cond_wait_relock(t)
    BY <2>5, Relock, Zenon
  <2>6. CASE \/ \E r \in BOOLEAN : rw_lock_acquire(t, r)
             \/ rw_lock_acquire_guard(t) \/ rw_lock_acquire_end(t)
             \/ cond_wait_release(t) \/ cond_wait_block(t)
             \/ rw_lock_release(t) \/ rw_lock_release_guard(t) \/ rw_lock_release_end(t)
    BY <2>6, QuietActions, Zenon
  <2> QED BY <1>4, <2>1, <2>2, <2>3, <2>4, <2>5, <2>6, Zenon DEF Call, Step
<1> QED BY <1>1, <1>2, <1>3, <1>4, Zenon DEF Next

\* A rw_lock nobody has used yet.
LEMMA InitSimulates ==
  ASSUME Init
  PROVE  IInv /\ RW!Init
<1>1. pc = [t \in Threads |-> "out"] /\ reader = [t \in Threads |-> FALSE]
  BY Zenon DEF Init
<1>2. Readers = {} /\ Writers = {} /\ WaitingReaders = {} /\ WaitingWriters = {}
  BY <1>1, Zenon DEF Readers, Writers, WaitingReaders, WaitingWriters, ActivePc, CountedPc
<1>3. TypeOK
  <2>1. <<>> \in Seq(Threads)
    OBVIOUS
  <2>2. waiters \in [Conds -> Seq(Threads)]
    BY <2>1, Zenon DEF Init
  <2>3. pc \in [Threads -> Pcs] /\ reader \in [Threads -> BOOLEAN]
    BY <1>1, Zenon DEF Pcs
  <2> QED BY <2>2, <2>3, Zenon DEF Init, TypeOK, Pcs
<1>4. GuardExcludes
  BY <1>1, RWAssumption, Zenon DEF Init, GuardExcludes, GuardPc
<1>5. CountsExact /\ Exclusion
  BY <1>2, FS_EmptySet, Zenon DEF Init, CountsExact, Exclusion
<1>6. WaitersListed
  <2>1. \A c \in Conds : waiters[c] = <<>>
    BY Zenon DEF Init
  <2>2. IsInjective(<<>>) /\ Range(<<>>) = {}
    <3>1. <<>> \in Seq(Threads) /\ DOMAIN <<>> = 1 .. 0
      OBVIOUS
    <3> QED BY <3>1 DEF IsInjective, Range
  <2>3. \A t \in Threads : pc[t] \notin {"ins", "rel", "blocked"}
    BY <1>1, Zenon
  <2> QED BY <2>1, <2>2, <2>3, Zenon DEF WaitersListed
<1>7. WriterAwake
  BY <1>1, Zenon DEF WriterAwake, ListedPc
<1> QED BY <1>2, <1>3, <1>4, <1>5, <1>6, <1>7, Zenon DEF IInv, RW!Init

\* The inductive invariant of rw_lock_acquire() and rw_lock_release(), with the
\* guard's holder, the exact counters, the lists and the writer on its way.
THEOREM RWInvariance == Spec => []IInv
<1>1. Init => IInv
  BY InitSimulates, Zenon
<1>2. IInv /\ [Next]_vars => IInv'
  BY StepSimulates, Zenon
<1> QED BY <1>1, <1>2, PTL DEF Spec

\* cond_signal() and cond_broadcast() find every thread that is blocked in
\* cond_wait(), once, on the list of its own condition.
THEOREM WaitersAreListed == Spec => []WaitersListed
<1>1. IInv => WaitersListed
  BY Zenon DEF IInv
<1> QED BY <1>1, RWInvariance, PTL

\* rw_lock_release() leaves no writer asleep on a rw_lock that is free.
THEOREM WritersGoFirst == Spec => []WriterFirst
<1>1. IInv => WriterFirst
  <2> SUFFICES ASSUME IInv, AR + AW = 0, guard = NULL,
                      NEW t \in Threads, pc[t] = "blocked", ~reader[t]
               PROVE  \E u \in Threads : pc[u] = "woken" /\ ~reader[u]
    BY Zenon DEF WriterFirst
  <2>1. PICK u \in Threads : ~reader[u] /\ pc[u] \in {"woken", "test"}
    BY Zenon DEF IInv, WriterAwake, ListedPc
  <2>2. pc[u] # "test"
    BY RWAssumption, Zenon DEF IInv, GuardExcludes, GuardPc
  <2> QED BY <2>1, <2>2, Zenon
<1> QED BY <1>1, RWInvariance, PTL

\* Seen through who is active between rw_lock_acquire() and rw_lock_release(), a
\* rw_lock is a readers-writers lock.
THEOREM RWImplements == Spec => RWSpec
<1>1. Init => RW!Init
  BY InitSimulates, Zenon
<1>2. IInv /\ [Next]_vars => [RW!Next]_(RW!vars)
  BY StepSimulates, Zenon
<1> QED BY <1>1, <1>2, RWInvariance, PTL DEF Spec, RWSpec, RW!Spec
-----------------------------------------------------------------------------
(* The IDE channel: what the threads read is what was written.               *)

IdeSpec == IdeInit /\ [][IdeNext]_dvars

\* The program points between lock_acquire() and lock_release().
Critical == {"select", "issue", "read_down", "input", "output", "write_down", "unlock", "dead"}

\* The disk has done what it was told, or has still to store a sector.
Settled == hw.status = "idle" /\ platter = store
Storing == /\ hw.status = "busy" /\ hw.cmd = "store" /\ hw.sector \in Sectors
           /\ store = [platter EXCEPT ![hw.sector] = hw.data]
NoInterrupt == completion_wait = 0 /\ ~hw.irq
\* The interrupt of the command is on the line or in the semaphore, not both,
\* once the command is done.
Signalled == /\ expecting_interrupt
             /\ IF hw.status = "busy" THEN NoInterrupt
                ELSE \/ completion_wait = 1 /\ ~hw.irq
                     \/ completion_wait = 0 /\ hw.irq

Requests == [pc : Critical \cup {"idle", "lock", "returns"}, cmd : {"read", "write", Nil},
             sector : Sectors \cup {Nil}, data : Data \cup {Nil}]
Disks == [status : {"idle", "busy", "drq"}, cmd : {"read", "write", "store", Nil},
          sector : Sectors, data : Data \cup {Nil}, irq : BOOLEAN]
IdeTypes ==
  /\ lock \in Users \cup {Nil}
  /\ completion_wait \in Nat /\ stray \in Nat /\ expecting_interrupt \in BOOLEAN
  /\ hw \in Disks
  /\ platter \in [Sectors -> Data \cup {Nil}] /\ store \in [Sectors -> Data \cup {Nil}]
  /\ user \in [Users -> Requests]
  /\ \A t \in Users : user[t].pc # "idle" => user[t].cmd \in {"read", "write"} /\ user[t].sector \in Sectors

\* The channel's lock: its holder is the one thread between the two calls, or the
\* one that died there.
Owner == \A t \in Users : user[t].pc \in Critical <=> lock = t

\* Where the disk is while nobody holds the channel, and at each point of a
\* request of the thread that does.
DiskAt(t) ==
  /\ user[t].pc = "select" => Settled \/ Storing
  /\ user[t].pc = "issue" => Settled /\ hw.sector = user[t].sector
  /\ user[t].pc \in {"read_down", "input"} =>
       /\ user[t].cmd = "read" /\ platter = store /\ hw.sector = user[t].sector
       /\ \/ hw.status = "busy" /\ hw.cmd = "read"
          \/ hw.status = "drq" /\ hw.data = platter[hw.sector]
  /\ user[t].pc = "output" =>
       /\ user[t].cmd = "write" /\ platter = store /\ hw.sector = user[t].sector
       /\ (hw.status = "busy" /\ hw.cmd = "write") \/ hw.status = "drq"
  /\ user[t].pc = "write_down" => user[t].cmd = "write"
  /\ user[t].pc = "write_down" \/ (user[t].pc = "unlock" /\ user[t].cmd = "write") =>
       store[user[t].sector] = user[t].data /\ (Settled \/ Storing)
  /\ user[t].pc = "unlock" /\ user[t].cmd = "read" =>
       Settled /\ user[t].data = store[user[t].sector]
  /\ user[t].pc = "dead" => hw.status = "drq"
DiskFollows == (lock = Nil => Settled \/ Storing) /\ \A t \in Users : DiskAt(t)

\* Without stray interrupts the semaphore is up exactly when a command is done.
InterruptAt(t) ==
  /\ user[t].pc \in {"select", "issue", "output", "input", "unlock"} => NoInterrupt
  /\ user[t].pc \in {"select", "unlock"} => Settled
  /\ user[t].pc \in {"read_down", "write_down"} => Signalled
  /\ user[t].pc = "output" => expecting_interrupt
  /\ user[t].pc = "input" => hw.status = "drq"
InterruptFollows == stray = 0 => (lock = Nil => NoInterrupt /\ Settled) /\ \A t \in Users : InterruptAt(t)

\* Until wait_until_idle() has run out; it cannot without a stray interrupt.
Followed == DiskFollows /\ InterruptFollows
IdeInv == IdeTypes /\ Owner /\ (gaveup => stray # 0) /\ (~gaveup => Followed)

-----------------------------------------------------------------------------
\* t is at l, with the request it had, and nobody else has moved.
Stepped(t, l) ==
  /\ user' \in [Users -> Requests] /\ \A u \in Users \ {t} : user'[u] = user[u]
  /\ user'[t].pc = l /\ user'[t].cmd = user[t].cmd /\ user'[t].sector = user[t].sector
  /\ user'[t].data = user[t].data
  /\ \A u \in Users : user'[u].pc # "idle" => user'[u].cmd \in {"read", "write"} /\ user'[u].sector \in Sectors

\* What an assignment of a program point does to the requests.
LEMMA SteppedTo ==
  ASSUME IdeTypes, NEW t \in Users, user[t].pc # "idle",
         NEW l \in Critical \cup {"idle", "lock", "returns"}, user' = [user EXCEPT ![t].pc = l]
  PROVE  Stepped(t, l)
<1>1. PICK v \in Requests : v = user[t]
  BY Zenon DEF IdeTypes
<1>2. PICK w : w = [v EXCEPT !.pc = l]
  OBVIOUS
<1>3. w \in Requests /\ w.pc = l /\ w.cmd = v.cmd /\ w.sector = v.sector /\ w.data = v.data
  BY <1>1, <1>2 DEF Requests
<1>4. user' = [user EXCEPT ![t] = w]
  BY <1>1, <1>2, Zenon
<1>5. user'[t] = w /\ user' \in [Users -> Requests] /\ \A u \in Users \ {t} : user'[u] = user[u]
  BY <1>3, <1>4, Zenon DEF IdeTypes
<1> QED BY <1>1, <1>3, <1>5, Zenon DEF Stepped, IdeTypes

\* Only t moves, and t holds the channel before or after its step.
LEMMA OwnerKept ==
  ASSUME Owner, NEW t \in Users, lock = Nil \/ lock = t, lock' = Nil \/ lock' = t,
         \A u \in Users \ {t} : user'[u] = user[u], user'[t].pc \in Critical <=> lock' = t
  PROVE  Owner'
<1>1. \A u \in Users \ {t} : user[u].pc \notin Critical
  BY IdeAssumption, Zenon DEF Owner
<1> QED BY <1>1, IdeAssumption, Zenon DEF Owner

\* What the invariant says of a thread that does not hold the channel: nothing.
LEMMA OthersApart ==
  ASSUME NEW t \in Users, Owner, lock = Nil \/ lock = t,
         \A u \in Users \ {t} : user'[u] = user[u]
  PROVE  \A u \in Users \ {t} : DiskAt(u)' /\ InterruptAt(u)'
<1>1. ASSUME NEW u \in Users \ {t}
      PROVE  user[u].pc \notin Critical
  BY IdeAssumption, Zenon DEF Owner
<1>2. ASSUME NEW u \in Users \ {t}
      PROVE  DiskAt(u)' /\ InterruptAt(u)'
  BY <1>1, <1>2, Zenon DEF DiskAt, InterruptAt, Critical
<1> QED BY <1>2, Zenon

\* A step of the thread t keeps the disk in its place if it does where t and the
\* disk are afterwards.
LEMMA IdeAssemble ==
  ASSUME NEW t \in Users, Owner, lock = Nil \/ lock = t,
         \A u \in Users \ {t} : user'[u] = user[u],
         DiskAt(t)', stray' = 0 => InterruptAt(t)',
         lock' = Nil => (Settled \/ Storing)' /\ (stray' = 0 => NoInterrupt' /\ Settled')
  PROVE  Followed'
<1>1. \A u \in Users \ {t} : DiskAt(u)' /\ InterruptAt(u)'
  BY OthersApart, Zenon
<1> QED BY <1>1, Zenon DEF Followed, DiskFollows, InterruptFollows

\* A step keeps the types and the lock's owner, and keeps the disk in its place.
Keeps == IdeTypes' /\ Owner' /\ (Followed => Followed')

\* block_read() and block_write() before they reach the driver.
LEMMA IdeRequest ==
  ASSUME IdeTypes, Owner, NEW t \in Users, block_request(t)
  PROVE  Keeps
<1>1. /\ user[t].pc = "idle"
      /\ UNCHANGED <<lock, expecting_interrupt, completion_wait, hw, platter, store, stray>>
  BY Zenon DEF block_request, chan
<1>2. PICK v \in Requests : /\ v.pc = "lock" /\ v.cmd \in {"read", "write"} /\ v.sector \in Sectors
                            /\ user' = [user EXCEPT ![t] = v]
  BY Zenon DEF block_request, Requests
<1>3. user' \in [Users -> Requests] /\ user'[t] = v /\ \A u \in Users \ {t} : user'[u] = user[u]
  BY <1>2, Zenon DEF IdeTypes
<1>4. IdeTypes'
  BY <1>1, <1>2, <1>3, Zenon DEF IdeTypes
<1>5. Owner'
  BY <1>1, <1>2, <1>3, Zenon DEF Owner, Critical
<1>6. DiskAt(t)' /\ InterruptAt(t)'
  BY <1>2, <1>3, Zenon DEF DiskAt, InterruptAt
<1>7. \A u \in Users \ {t} : (DiskAt(u) => DiskAt(u)') /\ (InterruptAt(u) => InterruptAt(u)')
  BY <1>1, <1>3 DEF DiskAt, InterruptAt, Settled, Storing, NoInterrupt, Signalled
<1>8. Followed => Followed'
  BY <1>1, <1>6, <1>7, Zenon DEF Followed, DiskFollows, InterruptFollows, Settled, Storing, NoInterrupt
<1> QED BY <1>4, <1>5, <1>8, Zenon DEF Keeps

\* lock_acquire() of the channel's lock.
LEMMA IdeLock ==
  ASSUME IdeTypes, Owner, NEW t \in Users, ide_lock(t)
  PROVE  Keeps
<1>1. /\ user[t].pc = "lock" /\ lock = Nil /\ lock' = t
      /\ user' = [user EXCEPT ![t].pc = "select"]
      /\ UNCHANGED <<expecting_interrupt, completion_wait, hw, platter, store, stray>>
  BY Zenon DEF ide_lock, Go, ends
<1>2. Stepped(t, "select")
  BY <1>1, SteppedTo, Zenon DEF Critical
<1>3. IdeTypes' /\ Owner'
  BY <1>1, <1>2, OwnerKept, Zenon DEF IdeTypes, Stepped, Critical
<1>4. Followed => DiskAt(t)' /\ (stray' = 0 => InterruptAt(t)')
  BY <1>1, <1>2, Zenon
     DEF Followed, DiskFollows, InterruptFollows, DiskAt, InterruptAt, Settled, Storing, NoInterrupt, Stepped
<1>5. lock' # Nil
  BY <1>1, IdeAssumption, Zenon
<1> QED BY <1>1, <1>2, <1>3, <1>4, <1>5, IdeAssemble, Zenon DEF Keeps, Stepped

\* select_sector() after the disk has become idle.
LEMMA IdeSelect ==
  ASSUME IdeTypes, Owner, NEW t \in Users, select_sector(t)
  PROVE  Keeps
<1>1. /\ user[t].pc = "select" /\ hw.status = "idle"
      /\ hw' = [hw EXCEPT !.sector = user[t].sector, !.irq = FALSE]
      /\ user' = [user EXCEPT ![t].pc = "issue"]
      /\ UNCHANGED <<lock, expecting_interrupt, completion_wait, platter, store, stray>>
  BY Zenon DEF select_sector, Go, chan, ends
<1>2. Stepped(t, "issue")
  BY <1>1, SteppedTo, Zenon DEF Critical
<1>3. lock = t /\ lock # Nil /\ user[t].sector \in Sectors
  BY <1>1, IdeAssumption, Zenon DEF Owner, Critical, IdeTypes
<1>4. hw' \in Disks /\ hw'.status = "idle" /\ hw'.sector = user[t].sector /\ hw'.irq = FALSE
  BY <1>1, <1>3, Zenon DEF IdeTypes, Disks
<1>5. IdeTypes' /\ Owner'
  BY <1>1, <1>2, <1>3, <1>4, OwnerKept, Zenon DEF IdeTypes, Stepped, Critical
<1>6. ASSUME DiskAt(t), stray = 0 => InterruptAt(t)
      PROVE  DiskAt(t)' /\ (stray' = 0 => InterruptAt(t)')
  BY <1>1, <1>2, <1>4, <1>6, Zenon DEF DiskAt, InterruptAt, Settled, Storing, NoInterrupt, Stepped
<1>7. Followed => DiskAt(t)' /\ (stray' = 0 => InterruptAt(t)')
  BY <1>6, Zenon DEF Followed, DiskFollows, InterruptFollows
<1> QED BY <1>1, <1>2, <1>3, <1>5, <1>7, IdeAssemble, Zenon DEF Keeps, Stepped

\* wait_until_idle() runs out only after a stray interrupt.
LEMMA IdeGivesUp ==
  ASSUME IdeTypes, Owner, NEW t \in Users, wait_until_idle(t)
  PROVE  IdeTypes' /\ Owner' /\ (Followed => stray # 0)
<1>1. /\ user[t].pc = "select" /\ hw.status # "idle"
      /\ user' = [user EXCEPT ![t].pc = "issue"]
      /\ UNCHANGED <<lock, expecting_interrupt, completion_wait, platter, store, stray>>
  BY Zenon DEF wait_until_idle, Go, chan
<1>2. Stepped(t, "issue")
  BY <1>1, SteppedTo, Zenon DEF Critical
<1>3. lock = t /\ user[t].sector \in Sectors
  BY <1>1, Zenon DEF Owner, Critical, IdeTypes
<1>4. PICK s \in Sectors : hw' = [hw EXCEPT !.sector = s, !.irq = FALSE]
  <2>1. hw.sector \in Sectors
    BY Zenon DEF IdeTypes, Disks
  <2> QED BY <1>3, <2>1, Zenon DEF wait_until_idle
<1>5. hw' \in Disks
  BY <1>4, Zenon DEF IdeTypes, Disks
<1>6. IdeTypes' /\ Owner'
  BY <1>1, <1>2, <1>3, <1>5, OwnerKept, Zenon DEF IdeTypes, Stepped, Critical
<1>7. Followed => stray # 0
  BY <1>1, Zenon DEF Followed, InterruptFollows, InterruptAt, Settled
<1> QED BY <1>6, <1>7, Zenon

\* issue_pio_command() starts the command and expects its interrupt.
LEMMA IdeIssue ==
  ASSUME IdeTypes, Owner, NEW t \in Users, issue_pio_command(t)
  PROVE  Keeps
<1> DEFINE l == IF user[t].cmd = "read" THEN "read_down" ELSE "output"
<1>1. /\ user[t].pc = "issue" /\ expecting_interrupt' = TRUE
      /\ user' = [user EXCEPT ![t].pc = l]
      /\ UNCHANGED <<lock, completion_wait, platter, store, stray>>
  BY Zenon DEF issue_pio_command, Go, ends
<1>2. Stepped(t, l)
  BY <1>1, SteppedTo, Zenon DEF Critical
<1>3. lock = t /\ lock # Nil /\ user[t].cmd \in {"read", "write"} /\ user[t].sector \in Sectors
  BY <1>1, IdeAssumption, Zenon DEF Owner, Critical, IdeTypes
<1>4. ASSUME hw' = [hw EXCEPT !.status = "busy", !.cmd = user[t].cmd]
      PROVE  /\ hw' \in Disks /\ hw'.status = "busy" /\ hw'.sector = hw.sector
             /\ hw'.irq = hw.irq /\ hw'.cmd = user[t].cmd
  BY <1>3, <1>4, Zenon DEF IdeTypes, Disks
<1>5. hw' \in Disks
  BY <1>4, Zenon DEF issue_pio_command, IdeTypes
<1>6. IdeTypes' /\ Owner'
  BY <1>1, <1>2, <1>3, <1>5, OwnerKept, Zenon DEF IdeTypes, Stepped, Critical
<1>7. ASSUME DiskAt(t), stray = 0 => InterruptAt(t)
      PROVE  DiskAt(t)' /\ (stray' = 0 => InterruptAt(t)')
  <2>1. hw.status = "idle"
    BY <1>1, <1>7, Zenon DEF DiskAt, Settled
  <2>2. hw'.status = "busy" /\ hw'.sector = hw.sector /\ hw'.irq = hw.irq /\ hw'.cmd = user[t].cmd
    BY <1>4, <2>1, Zenon DEF issue_pio_command
  <2> QED BY <1>1, <1>2, <1>3, <1>7, <2>2 DEF DiskAt, InterruptAt, Settled, NoInterrupt, Signalled, Stepped
<1>8. Followed => DiskAt(t)' /\ (stray' = 0 => InterruptAt(t)')
  BY <1>7, Zenon DEF Followed, DiskFollows, InterruptFollows
<1> QED BY <1>1, <1>2, <1>3, <1>6, <1>8, IdeAssemble, Zenon DEF Keeps, Stepped

\* sema_down(&completion_wait).
LEMMA IdeDown ==
  ASSUME IdeTypes, Owner, NEW t \in Users, completion_down(t)
  PROVE  Keeps
<1> DEFINE l == IF user[t].pc = "read_down" THEN "input" ELSE "unlock"
<1>1. /\ user[t].pc \in {"read_down", "write_down"} /\ completion_wait > 0
      /\ completion_wait' = completion_wait - 1
      /\ user' = [user EXCEPT ![t].pc = l]
      /\ UNCHANGED <<lock, expecting_interrupt, hw, platter, store, stray>>
  BY Zenon DEF completion_down, Go, ends
<1>2. Stepped(t, l)
  BY <1>1, SteppedTo, Zenon DEF Critical
<1>3. lock = t /\ lock # Nil /\ completion_wait \in Nat
  BY <1>1, IdeAssumption, Zenon DEF Owner, Critical, IdeTypes
<1>4. completion_wait' \in Nat
  BY <1>1, <1>3
<1>5. IdeTypes' /\ Owner'
  BY <1>1, <1>2, <1>3, <1>4, OwnerKept, Zenon DEF IdeTypes, Stepped, Critical
<1>6. ASSUME DiskAt(t), stray = 0 => InterruptAt(t)
      PROVE  DiskAt(t)' /\ (stray' = 0 => InterruptAt(t)')
  <2>1. DiskAt(t)'
    BY <1>1, <1>2, <1>6 DEF DiskAt, Settled, Storing, Stepped
  <2>2. stray' = 0 => InterruptAt(t)'
    BY <1>1, <1>2, <1>3, <1>6 DEF DiskAt, InterruptAt, Settled, Storing, NoInterrupt, Signalled, Stepped
  <2> QED BY <2>1, <2>2, Zenon
<1>7. Followed => DiskAt(t)' /\ (stray' = 0 => InterruptAt(t)')
  BY <1>6, Zenon DEF Followed, DiskFollows, InterruptFollows
<1> QED BY <1>1, <1>2, <1>3, <1>5, <1>7, IdeAssemble, Zenon DEF Keeps, Stepped

\* input_sector(): the data of the sector that was asked for.
LEMMA IdeInput ==
  ASSUME IdeTypes, Owner, NEW t \in Users, input_sector(t)
  PROVE  Keeps
<1>1. /\ user[t].pc = "input" /\ hw.status = "drq"
      /\ user' = [user EXCEPT ![t].pc = "unlock", ![t].data = hw.data]
      /\ hw' = [hw EXCEPT !.status = "idle"]
      /\ UNCHANGED <<lock, expecting_interrupt, completion_wait, platter, store, stray>>
  BY Zenon DEF input_sector, chan, ends
<1>2. /\ user' \in [Users -> Requests] /\ \A u \in Users \ {t} : user'[u] = user[u]
      /\ user'[t].pc = "unlock" /\ user'[t].cmd = user[t].cmd /\ user'[t].sector = user[t].sector
      /\ user'[t].data = hw.data
  <2>1. PICK v \in Requests : v = user[t]
    BY Zenon DEF IdeTypes
  <2>2. PICK d \in Data \cup {Nil} : d = hw.data
    BY Zenon DEF IdeTypes, Disks
  <2>3. PICK w : w = [[v EXCEPT !.pc = "unlock"] EXCEPT !.data = d]
    OBVIOUS
  <2>4. w \in Requests /\ w.pc = "unlock" /\ w.cmd = v.cmd /\ w.sector = v.sector /\ w.data = d
    BY <2>3 DEF Requests, Critical
  <2>5. user' = [user EXCEPT ![t] = w]
    BY <1>1, <2>1, <2>2, <2>3 DEF IdeTypes
  <2> QED BY <2>1, <2>2, <2>4, <2>5, Zenon DEF IdeTypes
<1>3. lock = t /\ lock # Nil
  BY <1>1, IdeAssumption, Zenon DEF Owner, Critical
<1>4. hw' \in Disks /\ hw'.status = "idle" /\ hw'.irq = hw.irq
  BY <1>1, Zenon DEF IdeTypes, Disks
<1>5. IdeTypes'
  BY <1>1, <1>2, <1>4, Zenon DEF IdeTypes
<1>6. Owner'
  BY <1>1, <1>2, <1>3, OwnerKept, Zenon DEF Critical
<1>7. ASSUME DiskAt(t), stray = 0 => InterruptAt(t)
      PROVE  DiskAt(t)' /\ (stray' = 0 => InterruptAt(t)')
  BY <1>1, <1>2, <1>4, <1>7 DEF DiskAt, InterruptAt, Settled, NoInterrupt
<1>8. Followed => DiskAt(t)' /\ (stray' = 0 => InterruptAt(t)')
  BY <1>7, Zenon DEF Followed, DiskFollows, InterruptFollows
<1> QED BY <1>1, <1>2, <1>3, <1>5, <1>6, <1>8, IdeAssemble, Zenon DEF Keeps

\* output_sector(): the disk has the data and will store it.
LEMMA IdeOutput ==
  ASSUME IdeTypes, Owner, NEW t \in Users, output_sector(t)
  PROVE  Keeps
<1>1. /\ user[t].pc = "output" /\ hw.status = "drq"
      /\ hw' = [hw EXCEPT !.status = "busy", !.cmd = "store", !.data = user[t].data]
      /\ store' = [store EXCEPT ![user[t].sector] = user[t].data]
      /\ user' = [user EXCEPT ![t].pc = "write_down"]
      /\ UNCHANGED <<lock, expecting_interrupt, completion_wait, platter, stray>>
  BY Zenon DEF output_sector, Go, chan, ends
<1>2. Stepped(t, "write_down")
  BY <1>1, SteppedTo, Zenon DEF Critical
<1>3. lock = t /\ lock # Nil /\ user[t].sector \in Sectors /\ user[t].data \in Data \cup {Nil}
  BY <1>1, IdeAssumption, Zenon DEF Owner, Critical, IdeTypes, Requests
<1>4. /\ hw' \in Disks /\ hw'.status = "busy" /\ hw'.cmd = "store" /\ hw'.data = user[t].data
      /\ hw'.sector = hw.sector /\ hw'.irq = hw.irq
  BY <1>1, <1>3, Zenon DEF IdeTypes, Disks
<1>5. IdeTypes' /\ Owner'
  <2>1. store' \in [Sectors -> Data \cup {Nil}]
    BY <1>1, <1>3, Zenon DEF IdeTypes
  <2> QED BY <1>1, <1>2, <1>3, <1>4, <2>1, OwnerKept, Zenon DEF IdeTypes, Stepped, Critical
<1>6. ASSUME DiskAt(t), stray = 0 => InterruptAt(t)
      PROVE  DiskAt(t)' /\ (stray' = 0 => InterruptAt(t)')
  <2>1. hw.sector = user[t].sector /\ platter = store /\ user[t].cmd = "write"
    BY <1>1, <1>6, Zenon DEF DiskAt
  <2>2. store'[user[t].sector] = user[t].data /\ Storing'
    BY <1>1, <1>3, <1>4, <2>1, Zenon DEF Storing, IdeTypes
  <2>3. DiskAt(t)'
    BY <1>2, <2>1, <2>2, Zenon DEF DiskAt, Stepped
  <2>4. stray' = 0 => InterruptAt(t)'
    BY <1>1, <1>2, <1>4, <1>6, Zenon DEF InterruptAt, NoInterrupt, Signalled, Stepped
  <2> QED BY <2>3, <2>4, Zenon
<1>7. Followed => DiskAt(t)' /\ (stray' = 0 => InterruptAt(t)')
  BY <1>6, Zenon DEF Followed, DiskFollows, InterruptFollows
<1> QED BY <1>1, <1>2, <1>3, <1>5, <1>7, IdeAssemble, Zenon DEF Keeps, Stepped

\* A fault in insw or outsw: the lock stays with a thread that is gone.
LEMMA IdeFault ==
  ASSUME IdeTypes, Owner, NEW t \in Users, transfer_fault(t)
  PROVE  Keeps
<1>1. /\ user[t].pc \in {"input", "output"} /\ hw.status = "drq"
      /\ user' = [user EXCEPT ![t].pc = "dead"]
      /\ UNCHANGED <<lock, expecting_interrupt, completion_wait, hw, platter, store, stray>>
  BY Zenon DEF transfer_fault, Go, chan, ends
<1>2. Stepped(t, "dead")
  BY <1>1, SteppedTo, Zenon DEF Critical
<1>3. lock = t /\ lock # Nil
  BY <1>1, IdeAssumption, Zenon DEF Owner, Critical
<1>4. IdeTypes' /\ Owner'
  BY <1>1, <1>2, <1>3, OwnerKept, Zenon DEF IdeTypes, Stepped, Critical
<1>5. DiskAt(t)' /\ InterruptAt(t)'
  BY <1>1, <1>2, Zenon DEF DiskAt, InterruptAt, Stepped
<1> QED BY <1>1, <1>2, <1>3, <1>4, <1>5, IdeAssemble, Zenon DEF Keeps, Stepped

\* lock_release() of the channel's lock.
LEMMA IdeUnlock ==
  ASSUME IdeTypes, Owner, NEW t \in Users, ide_unlock(t)
  PROVE  Keeps
<1>1. /\ user[t].pc = "unlock" /\ lock' = Nil
      /\ user' = [user EXCEPT ![t].pc = "returns"]
      /\ UNCHANGED <<expecting_interrupt, completion_wait, hw, platter, store, stray>>
  BY Zenon DEF ide_unlock, Go, ends
<1>2. Stepped(t, "returns")
  BY <1>1, SteppedTo, Zenon DEF Critical
<1>3. lock = t /\ user[t].cmd \in {"read", "write"}
  BY <1>1, Zenon DEF Owner, Critical, IdeTypes
<1>4. IdeTypes' /\ Owner'
  BY <1>1, <1>2, <1>3, OwnerKept, IdeAssumption, Zenon DEF IdeTypes, Stepped, Critical
<1>5. ASSUME DiskAt(t), stray = 0 => InterruptAt(t)
      PROVE  (Settled \/ Storing)' /\ (stray' = 0 => NoInterrupt' /\ Settled')
  BY <1>1, <1>3, <1>5, Zenon DEF DiskAt, InterruptAt, Settled, Storing, NoInterrupt
<1>6. Followed => (Settled \/ Storing)' /\ (stray' = 0 => NoInterrupt' /\ Settled')
  BY <1>5, Zenon DEF Followed, DiskFollows, InterruptFollows
<1>7. DiskAt(t)' /\ InterruptAt(t)'
  BY <1>2, Zenon DEF DiskAt, InterruptAt, Stepped
<1> QED BY <1>1, <1>2, <1>3, <1>4, <1>6, <1>7, IdeAssemble, Zenon DEF Keeps, Stepped

\* block_read() and block_write() return.
LEMMA IdeReturn ==
  ASSUME IdeTypes, Owner, NEW t \in Users, block_return(t)
  PROVE  Keeps
<1>1. /\ user[t].pc = "returns" /\ user' = [user EXCEPT ![t] = NoRequest]
      /\ UNCHANGED <<lock, expecting_interrupt, completion_wait, hw, platter, store, stray>>
  BY Zenon DEF block_return, chan, ends
<1>2. NoRequest \in Requests /\ NoRequest.pc = "idle"
  BY Zenon DEF NoRequest, Requests
<1>3. user' \in [Users -> Requests] /\ user'[t].pc = "idle" /\ \A u \in Users \ {t} : user'[u] = user[u]
  BY <1>1, <1>2, Zenon DEF IdeTypes
<1>4. IdeTypes'
  BY <1>1, <1>3, Zenon DEF IdeTypes
<1>5. Owner'
  BY <1>1, <1>3, Zenon DEF Owner, Critical
<1>6. DiskAt(t)' /\ InterruptAt(t)'
  BY <1>3, Zenon DEF DiskAt, InterruptAt
<1>7. \A u \in Users \ {t} : (DiskAt(u) => DiskAt(u)') /\ (InterruptAt(u) => InterruptAt(u)')
  BY <1>1, <1>3 DEF DiskAt, InterruptAt, Settled, Storing, NoInterrupt, Signalled
<1>8. Followed => Followed'
  BY <1>1, <1>6, <1>7, Zenon DEF Followed, DiskFollows, InterruptFollows, Settled, Storing, NoInterrupt
<1> QED BY <1>4, <1>5, <1>8, Zenon DEF Keeps

\* interrupt_handler() moves the interrupt from the line to the semaphore.
LEMMA IdeHandler ==
  ASSUME IdeTypes, Owner, interrupt_handler
  PROVE  Keeps
<1>1. /\ hw.irq /\ hw' = [hw EXCEPT !.irq = FALSE]
      /\ completion_wait' = IF expecting_interrupt THEN completion_wait + 1 ELSE completion_wait
      /\ UNCHANGED <<lock, expecting_interrupt, platter, store, user, stray>>
  BY Zenon DEF interrupt_handler, ends
<1>2. /\ hw' \in Disks /\ hw'.status = hw.status /\ hw'.cmd = hw.cmd /\ hw'.sector = hw.sector
      /\ hw'.data = hw.data /\ hw'.irq = FALSE /\ completion_wait \in Nat
  BY <1>1, Zenon DEF IdeTypes, Disks
<1>3. IdeTypes' /\ Owner'
  <2>1. completion_wait' \in Nat /\ stray' \in Nat
    BY <1>1 DEF IdeTypes
  <2>2. IdeTypes'
    BY <1>1, <1>2, <2>1, Zenon DEF IdeTypes
  <2>3. Owner'
    BY <1>1, Zenon DEF Owner
  <2> QED BY <2>2, <2>3, Zenon
<1>4. (Settled' <=> Settled) /\ (Storing' <=> Storing)
  BY <1>1, <1>2, Zenon DEF Settled, Storing
<1>5. \A t \in Users : DiskAt(t) => DiskAt(t)'
  BY <1>1, <1>2, <1>4 DEF DiskAt
<1>6. DiskFollows => DiskFollows'
  BY <1>1, <1>4, <1>5, Zenon DEF DiskFollows
<1>7. ~NoInterrupt
  BY <1>1, Zenon DEF NoInterrupt
<1>8. Signalled => Signalled'
  BY <1>1, <1>2, <1>7 DEF Signalled
<1>9. \A t \in Users : InterruptAt(t) => InterruptAt(t)'
  BY <1>1, <1>2, <1>4, <1>7, <1>8, Zenon DEF InterruptAt
<1>10. InterruptFollows => InterruptFollows'
  BY <1>1, <1>7, <1>9, Zenon DEF InterruptFollows
<1> QED BY <1>3, <1>6, <1>10, Zenon DEF Keeps, Followed

\* The disk goes on with its command.
LEMMA IdeDisk ==
  ASSUME IdeTypes, Owner, disk_works
  PROVE  Keeps
<1>1. /\ hw.status = "busy"
      /\ UNCHANGED <<lock, expecting_interrupt, completion_wait, store, user, stray>>
  BY Zenon DEF disk_works, chan, ends
<1>2. ~Settled /\ (Signalled => NoInterrupt /\ expecting_interrupt)
  BY <1>1, Zenon DEF Settled, Signalled
<1>3. Owner'
  BY <1>1, Zenon DEF Owner
<1>a. hw.sector \in Sectors /\ hw.data \in Data \cup {Nil} /\ platter[hw.sector] \in Data \cup {Nil}
  BY Zenon DEF IdeTypes, Disks
<1>4. CASE hw.cmd = "read" /\ hw' = [hw EXCEPT !.status = "drq", !.irq = TRUE, !.data = platter[hw.sector]] /\ UNCHANGED platter
  <2>1. /\ hw'.status = "drq" /\ hw'.irq = TRUE /\ hw'.sector = hw.sector /\ hw'.data = platter[hw.sector]
        /\ hw' \in Disks
    BY <1>4, <1>a, Zenon DEF IdeTypes, Disks
  <2>2. IdeTypes'
    BY <1>1, <1>4, <2>1, Zenon DEF IdeTypes
  <2> SUFFICES ASSUME Followed PROVE Followed'
    BY <1>3, <2>2, Zenon DEF Keeps
  <2>3. ~Storing
    BY <1>4, Zenon DEF Storing
  <2>4. lock # Nil
    BY <1>2, <2>3, Zenon DEF Followed, DiskFollows
  <2>5. PICK t \in Users : lock = t
    BY <2>4, Zenon DEF IdeTypes
  <2>6. DiskAt(t) /\ (stray = 0 => InterruptAt(t)) /\ user[t].pc \in Critical /\ user[t].cmd \in {"read", "write"}
    BY <2>5, Zenon DEF Followed, DiskFollows, InterruptFollows, Owner, IdeTypes, Critical
  <2>7. user[t].pc \in {"read_down", "input"} /\ platter = store /\ hw.sector = user[t].sector /\ user[t].cmd = "read"
    BY <1>1, <1>2, <1>4, <2>3, <2>6, Zenon DEF DiskAt, Critical
  <2>8. DiskAt(t)'
    BY <1>1, <1>4, <2>1, <2>7, Zenon DEF DiskAt
  <2>9. stray' = 0 => InterruptAt(t)'
    BY <1>1, <1>2, <2>1, <2>6, <2>7, Zenon DEF InterruptAt, Signalled, NoInterrupt
  <2> QED BY <1>1, <2>4, <2>5, <2>8, <2>9, IdeAssemble, Zenon
<1>5. CASE hw.cmd = "write" /\ hw' = [hw EXCEPT !.status = "drq"] /\ UNCHANGED platter
  <2>1. hw'.status = "drq" /\ hw'.irq = hw.irq /\ hw'.sector = hw.sector /\ hw' \in Disks
    BY <1>5, Zenon DEF IdeTypes, Disks
  <2>2. IdeTypes'
    BY <1>1, <1>5, <2>1, Zenon DEF IdeTypes
  <2> SUFFICES ASSUME Followed PROVE Followed'
    BY <1>3, <2>2, Zenon DEF Keeps
  <2>3. ~Storing
    BY <1>5, Zenon DEF Storing
  <2>4. lock # Nil
    BY <1>2, <2>3, Zenon DEF Followed, DiskFollows
  <2>5. PICK t \in Users : lock = t
    BY <2>4, Zenon DEF IdeTypes
  <2>6. DiskAt(t) /\ (stray = 0 => InterruptAt(t)) /\ user[t].pc \in Critical /\ user[t].cmd \in {"read", "write"}
    BY <2>5, Zenon DEF Followed, DiskFollows, InterruptFollows, Owner, IdeTypes, Critical
  <2>7. user[t].pc = "output" /\ platter = store /\ hw.sector = user[t].sector /\ user[t].cmd = "write"
    BY <1>1, <1>2, <1>5, <2>3, <2>6, Zenon DEF DiskAt, Critical
  <2>8. DiskAt(t)'
    BY <1>1, <1>5, <2>1, <2>7, Zenon DEF DiskAt
  <2>9. stray' = 0 => InterruptAt(t)'
    BY <1>1, <2>1, <2>6, <2>7, Zenon DEF InterruptAt, NoInterrupt
  <2> QED BY <1>1, <2>4, <2>5, <2>8, <2>9, IdeAssemble, Zenon
<1>6. CASE /\ hw.cmd = "store" /\ platter' = [platter EXCEPT ![hw.sector] = hw.data]
           /\ hw' = [hw EXCEPT !.status = "idle", !.irq = TRUE]
  <2>1. hw'.status = "idle" /\ hw'.irq = TRUE /\ hw'.sector = hw.sector /\ hw' \in Disks
    BY <1>6, Zenon DEF IdeTypes, Disks
  <2>2. Storing => Settled'
    BY <1>1, <1>6, <2>1, Zenon DEF Storing, Settled
  <2>3. IdeTypes'
    <3>1. platter' \in [Sectors -> Data \cup {Nil}]
      BY <1>6, <1>a, Zenon DEF IdeTypes
    <3> QED BY <1>1, <2>1, <3>1, Zenon DEF IdeTypes
  <2>4. ASSUME NEW t \in Users
        PROVE  DiskAt(t) => DiskAt(t)'
    BY <1>1, <1>2, <1>6, <2>2, Zenon DEF DiskAt, Settled
  <2>5. DiskFollows => DiskFollows'
    BY <1>1, <1>2, <2>2, <2>4, Zenon DEF DiskFollows
  <2>6. ASSUME NEW t \in Users, DiskAt(t), InterruptAt(t)
        PROVE  InterruptAt(t)'
    <3>1. user[t].pc \notin {"select", "unlock", "issue", "output", "read_down", "input"}
      BY <1>1, <1>2, <1>6, <2>6, Zenon DEF DiskAt, InterruptAt
    <3> QED BY <1>1, <1>2, <2>1, <2>6, <3>1, Zenon DEF InterruptAt, Signalled, NoInterrupt
  <2>7. Followed => InterruptFollows'
    BY <1>1, <1>2, <2>6, Zenon DEF InterruptFollows, DiskFollows, Followed
  <2> QED BY <1>3, <2>3, <2>5, <2>7, Zenon DEF Keeps, Followed
<1> QED BY <1>4, <1>5, <1>6, Zenon DEF disk_works

\* An interrupt that belongs to no command.
LEMMA IdeStray ==
  ASSUME IdeTypes, Owner, disk_stray
  PROVE  Keeps /\ stray' # 0
<1>1. /\ stray' = stray + 1 /\ hw' = [hw EXCEPT !.irq = TRUE]
      /\ UNCHANGED <<lock, expecting_interrupt, completion_wait, platter, store, user>>
  BY Zenon DEF disk_stray, chan
<1>2. /\ hw'.status = hw.status /\ hw'.cmd = hw.cmd /\ hw'.sector = hw.sector /\ hw'.data = hw.data
      /\ hw' \in Disks
  BY <1>1, Zenon DEF IdeTypes, Disks
<1>3. IdeTypes' /\ Owner'
  <2>1. completion_wait' \in Nat /\ stray' \in Nat
    BY <1>1 DEF IdeTypes
  <2>2. IdeTypes'
    BY <1>1, <1>2, <2>1, Zenon DEF IdeTypes
  <2>3. Owner'
    BY <1>1, Zenon DEF Owner
  <2> QED BY <2>2, <2>3, Zenon
<1>4. \A t \in Users : DiskAt(t) => DiskAt(t)'
  BY <1>1, <1>2 DEF DiskAt, Settled, Storing
<1>5. DiskFollows => DiskFollows'
  BY <1>1, <1>2, <1>4, Zenon DEF DiskFollows, Settled, Storing
<1>6. stray' # 0
  BY <1>1 DEF IdeTypes
<1> QED BY <1>3, <1>5, <1>6, Zenon DEF InterruptFollows, Followed, Keeps

\* A step that leaves the channel, the disk and the requests alone.
LEMMA IdeSame ==
  ASSUME IdeInv,
         UNCHANGED <<lock, expecting_interrupt, completion_wait, hw, platter, store, user, gaveup, stray>>
  PROVE  IdeInv'
<1>1. IdeTypes' /\ Owner'
  BY Zenon DEF IdeInv, IdeTypes, Owner
<1>2. (Settled' <=> Settled) /\ (Storing' <=> Storing) /\ (NoInterrupt' <=> NoInterrupt) /\ (Signalled' <=> Signalled)
  BY Zenon DEF Settled, Storing, NoInterrupt, Signalled
<1>3. \A t \in Users : DiskAt(t) => DiskAt(t)'
  BY <1>2, SMTT(30) DEF DiskAt
<1>4. \A t \in Users : InterruptAt(t) => InterruptAt(t)'
  BY <1>2, SMTT(30) DEF InterruptAt
<1>5. Followed => Followed'
  BY <1>2, <1>3, <1>4, Zenon DEF Followed, DiskFollows, InterruptFollows
<1> QED BY <1>1, <1>5, Zenon DEF IdeInv

-----------------------------------------------------------------------------
\* The inductive invariant: one thread at a time uses the channel, and until
\* wait_until_idle() runs out, which takes a stray interrupt, the disk is where
\* that thread's request says.
THEOREM ChannelInvariance == IdeSpec => []IdeInv
<1>1. IdeInit => IdeInv
  <2> SUFFICES ASSUME IdeInit PROVE IdeInv
    OBVIOUS
  <2>1. NoRequest \in Requests /\ NoRequest.pc = "idle"
    BY Zenon DEF NoRequest, Requests
  <2>2. hw \in Disks /\ hw.status = "idle" /\ ~hw.irq
    <3>1. PICK s \in Sectors : hw = [status |-> "idle", cmd |-> Nil, sector |-> s, data |-> Nil, irq |-> FALSE]
      BY Zenon DEF IdeInit
    <3> QED BY <3>1 DEF Disks
  <2>3. IdeTypes
    BY <2>1, <2>2, Zenon DEF IdeInit, IdeTypes
  <2>4. \A t \in Users : user[t].pc = "idle"
    BY <2>1, Zenon DEF IdeInit
  <2>5. Owner
    BY <2>4, IdeAssumption, Zenon DEF IdeInit, Owner, Critical
  <2>6. Followed
    BY <2>2, <2>4, Zenon
       DEF IdeInit, Followed, DiskFollows, InterruptFollows, DiskAt, InterruptAt, Settled, NoInterrupt
  <2>7. ~gaveup
    BY Zenon DEF IdeInit
  <2> QED BY <2>3, <2>5, <2>6, <2>7, Zenon DEF IdeInv
<1>2. IdeInv /\ [IdeNext]_dvars => IdeInv'
  <2> SUFFICES ASSUME IdeInv, [IdeNext]_dvars PROVE IdeInv'
    OBVIOUS
  <2>a. IdeTypes /\ Owner
    BY Zenon DEF IdeInv
  <2>0. ASSUME Keeps, UNCHANGED <<gaveup, stray>>
        PROVE  IdeInv'
    BY <2>0, Zenon DEF IdeInv, Keeps
  <2>1. CASE UNCHANGED dvars
    BY <2>1, IdeSame, Zenon DEF dvars, chan, ends
  <2>2. ASSUME NEW t \in Users, block_request(t)
        PROVE  IdeInv'
    BY <2>a, <2>0, <2>2, IdeRequest, Zenon DEF block_request
  <2>3. ASSUME NEW t \in Users, Using(t)
        PROVE  IdeInv'
    <3>1. Keeps
      BY <2>a, <2>3, IdeLock, IdeSelect, IdeIssue, IdeDown, IdeInput, IdeOutput, IdeFault, IdeUnlock, IdeReturn, Zenon DEF Using
    <3>2. UNCHANGED ends
      BY <2>3, Zenon DEF Using, ide_lock, select_sector, issue_pio_command, completion_down, input_sector, output_sector, transfer_fault, ide_unlock, block_return
    <3> QED BY <2>0, <3>1, <3>2, Zenon DEF ends
  <2>4. ASSUME NEW t \in Users, wait_until_idle(t)
        PROVE  IdeInv'
    <3>1. IdeTypes' /\ Owner' /\ (Followed => stray # 0)
      BY <2>a, <2>4, IdeGivesUp, Zenon
    <3>2. gaveup' /\ stray' = stray
      BY <2>4, Zenon DEF wait_until_idle
    <3> QED BY <3>1, <3>2, Zenon DEF IdeInv
  <2>5. ASSUME NEW t \in Users, wait_while_busy(t)
        PROVE  IdeInv'
    <3>1. UNCHANGED <<lock, expecting_interrupt, completion_wait, hw, platter, store, user, gaveup, stray>>
      BY <2>5, Zenon DEF wait_while_busy, chan
    <3> QED BY <3>1, IdeSame, Zenon
  <2>6. CASE interrupt_handler
    BY <2>a, <2>0, <2>6, IdeHandler, Zenon DEF interrupt_handler, ends
  <2>7. CASE disk_works
    BY <2>a, <2>0, <2>7, IdeDisk, Zenon DEF disk_works, ends
  <2>8. CASE disk_stray
    <3>1. Keeps /\ stray' # 0 /\ gaveup' = gaveup
      BY <2>a, <2>8, IdeStray, Zenon DEF disk_stray
    <3> QED BY <3>1, Zenon DEF IdeInv, Keeps
  <2> QED BY <2>1, <2>2, <2>3, <2>4, <2>5, <2>6, <2>7, <2>8, Zenon DEF IdeNext, Gives
<1> QED BY <1>1, <1>2, PTL DEF IdeSpec

\* wait_until_idle() runs out only after a stray interrupt; until it does,
\* ide_read() returns what the requests before it left in the sector; and without
\* stray interrupts ide_write() returns when the disk has the data.
THEOREM DiskFaithful == IdeSpec => []DiskData
<1>1. IdeInv => DiskData
  <2> SUFFICES ASSUME IdeInv PROVE DiskData
    OBVIOUS
  <2>1. gaveup => stray > 0
    <3>1. stray \in Nat /\ (gaveup => stray # 0)
      BY Zenon DEF IdeInv, IdeTypes
    <3> QED BY <3>1
  <2>2. ASSUME NEW t \in Users
        PROVE  /\ user[t].pc = "unlock" /\ user[t].cmd = "read" /\ ~gaveup => user[t].data = store[user[t].sector]
               /\ user[t].pc = "unlock" /\ user[t].cmd = "write" /\ stray = 0 => platter[user[t].sector] = user[t].data
    <3>1. (~gaveup => DiskAt(t)) /\ (stray = 0 => ~gaveup /\ InterruptAt(t))
      BY Zenon DEF IdeInv, Followed, DiskFollows, InterruptFollows
    <3> QED BY <3>1, Zenon DEF DiskAt, InterruptAt, Settled
  <2> QED BY <2>1, <2>2, Zenon DEF DiskData
<1> QED BY <1>1, ChannelInvariance, PTL

=============================================================================
