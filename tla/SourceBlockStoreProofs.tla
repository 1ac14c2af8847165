----------------------- MODULE SourceBlockStoreProofs -----------------------
(***************************************************************************)
(* Theorems about SourceBlockStore for every archive, window, budget and   *)
(* concurrency: what is held fits the window and the budget; the claims on *)
(* blocks are counted exactly, a block being read stays, a fetch has one   *)
(* owner, no wake-up is lost and the budget is whole again in the end.     *)
(***************************************************************************)
EXTENDS SourceBlockStore, FiniteSetTheorems, SequenceTheorems, TLAPS

-----------------------------------------------------------------------------
(* Weights: blocks are disjoint byte ranges, so weights add up. *)

\* A block's bytes lie in the archive and are as many as its length.
LEMMA BlockBytes ==
  ASSUME NEW b \in Block
  PROVE  /\ Bytes(b) \subseteq 0 .. BlockEnd[NumBlocks]
         /\ IsFiniteSet(Bytes(b)) /\ Cardinality(Bytes(b)) = Len1(b)
         /\ Len1(b) \in Nat /\ Len1(b) > 0 /\ Len1(b) <= BudgetBytes
  <1>1. NumBlocks \in Block /\ (b # NumBlocks => b < NumBlocks)
    BY SizesAssumption DEF Block
  <1>2. /\ BlockStart[b] \in Nat /\ BlockEnd[b] \in Nat /\ BlockEnd[NumBlocks] \in Nat
        /\ BlockStart[b] < BlockEnd[b]
    BY <1>1, BlocksAssumption
  <1>3. BlockEnd[b] <= BlockEnd[NumBlocks]
    <2>1. CASE b = NumBlocks
      BY <2>1, <1>2
    <2>2. CASE b # NumBlocks
      <3>1. BlockEnd[b] <= BlockStart[NumBlocks]
        BY <2>2, <1>1, BlocksAssumption
      <3>2. BlockStart[NumBlocks] \in Nat /\ BlockStart[NumBlocks] < BlockEnd[NumBlocks]
        BY <1>1, BlocksAssumption
      <3> QED
        BY <3>1, <3>2, <1>2
    <2> QED
      BY <2>1, <2>2
  <1>4. Bytes(b) \subseteq 0 .. BlockEnd[NumBlocks]
    BY <1>2, <1>3 DEF Bytes
  <1>5. IsFiniteSet(Bytes(b)) /\ Cardinality(Bytes(b)) = Len1(b)
    <2> DEFINE lo == BlockStart[b]
               hi == BlockEnd[b] - 1
    <2>1. lo \in Int /\ hi \in Int /\ ~(lo > hi) /\ hi - lo + 1 = Len1(b)
      BY <1>2 DEF Len1
    <2>2. Bytes(b) = lo .. hi
      BY DEF Bytes
    <2> HIDE DEF lo, hi
    <2> QED
      BY <2>1, <2>2, FS_Interval
  <1>6. Len1(b) <= BudgetBytes
    BY BlocksAssumption DEF Len1
  <1> QED
    BY <1>2, <1>4, <1>5, <1>6 DEF Len1

\* Any set of blocks has finitely many bytes.
LEMMA WeightType ==
  ASSUME NEW S \in SUBSET Block
  PROVE  IsFiniteSet(Content(S)) /\ Weight(S) \in Nat
  <1>1. Content(S) \subseteq 0 .. BlockEnd[NumBlocks]
    BY BlockBytes DEF Content
  <1>2. BlockEnd[NumBlocks] \in Nat
    BY SizesAssumption, BlocksAssumption DEF Block
  <1>3. IsFiniteSet(0 .. BlockEnd[NumBlocks])
    BY <1>2, FS_Interval
  <1>4. IsFiniteSet(Content(S))
    BY <1>1, <1>3, FS_Subset
  <1> QED
    BY <1>4, FS_CardinalityType DEF Weight

\* Different blocks share no byte.
LEMMA BytesDisjoint ==
  ASSUME NEW b \in Block, NEW c \in Block, b # c
  PROVE  Bytes(b) \cap Bytes(c) = {}
  <1>1. b < c \/ c < b
    BY SizesAssumption DEF Block
  <1>2. /\ BlockStart[b] \in Nat /\ BlockEnd[b] \in Nat
        /\ BlockStart[c] \in Nat /\ BlockEnd[c] \in Nat
        /\ BlockEnd[b] <= BlockStart[c] \/ BlockEnd[c] <= BlockStart[b]
    BY <1>1, BlocksAssumption
  <1> QED
    BY <1>2 DEF Bytes

\* Disjoint sets of blocks weigh together what they weigh apart.
LEMMA WeightUnion ==
  ASSUME NEW S \in SUBSET Block, NEW T \in SUBSET Block, S \cap T = {}
  PROVE  Weight(S \cup T) = Weight(S) + Weight(T)
  <1>1. Content(S \cup T) = Content(S) \cup Content(T)
    BY DEF Content
  <1>2. Content(S) \cap Content(T) = {}
    BY BytesDisjoint DEF Content
  <1>3. IsFiniteSet(Content(S)) /\ IsFiniteSet(Content(T))
    BY WeightType
  <1>4. Cardinality(Content(S) \cap Content(T)) = 0
    BY <1>2, FS_EmptySet
  <1>5. Cardinality(Content(S \cup T)) =
          Cardinality(Content(S)) + Cardinality(Content(T))
          - Cardinality(Content(S) \cap Content(T))
    BY <1>1, <1>3, FS_Union
  <1> QED
    BY <1>4, <1>5, WeightType DEF Weight

\* A block weighs its length, nothing weighs nothing.
LEMMA WeightSingle ==
  /\ Weight({}) = 0
  /\ \A b \in Block : Weight({b}) = Len1(b)
  <1>1. Content({}) = {} /\ \A b \in Block : Content({b}) = Bytes(b)
    BY DEF Content
  <1> QED
    BY <1>1, BlockBytes, FS_EmptySet DEF Weight

\* Taking blocks out of a set, or putting them in.
LEMMA WeightDifference ==
  ASSUME NEW T \in SUBSET Block, NEW S \in SUBSET T
  PROVE  /\ Weight(T \ S) = Weight(T) - Weight(S)
         /\ Weight(S) <= Weight(T)
         /\ Weight(S) \in Nat /\ Weight(T) \in Nat
  <1>1. Weight((T \ S) \cup S) = Weight(T \ S) + Weight(S)
    BY WeightUnion
  <1>2. (T \ S) \cup S = T
    OBVIOUS
  <1>3. Weight(T) \in Nat /\ Weight(S) \in Nat /\ Weight(T \ S) \in Nat
    <2>1. T \in SUBSET Block /\ S \in SUBSET Block /\ T \ S \in SUBSET Block
      OBVIOUS
    <2> QED
      BY <2>1, WeightType
  <1>4. Weight(T) = Weight(T \ S) + Weight(S)
    BY <1>1, <1>2
  <1> QED
    BY <1>3, <1>4

LEMMA WeightAdd ==
  ASSUME NEW T \in SUBSET Block, NEW b \in Block, b \notin T
  PROVE  Weight(T \cup {b}) = Weight(T) + Len1(b)
  BY WeightUnion, WeightSingle

LEMMA WeightRemove ==
  ASSUME NEW T \in SUBSET Block, NEW b \in T
  PROVE  Weight(T \ {b}) = Weight(T) - Len1(b) /\ Len1(b) <= Weight(T)
  BY WeightDifference, WeightSingle

-----------------------------------------------------------------------------
(* The invariant *)

\* A reader that has started stays in the span of its entry, and only a
\* reader that is opening or reading runs the reservation and fetch code: the
\* step to the next block and the error paths stay within the types.
ReaderPlaced ==
  \A r \in Reader : /\ phase[r] # "Idle" => pos[r] \in Span(r[1])
                    /\ at[r] # "None" => Active(r)

IInv == TypeOK /\ ReaderPlaced /\ MemoryAccounting

-----------------------------------------------------------------------------
(* Types of the helpers *)

LEMMA ProcFacts ==
  /\ Scheduler \in Proc /\ Reader \subseteq Proc
  /\ \A r \in Reader : r[1] \in Entry /\ r[2] \in Nat
  /\ \A e \in Entry, k \in Nat : 1 <= k /\ k <= MaxAttempts[e] => <<e, k>> \in Reader
  /\ Scheduler \notin Reader
  <1>1. \A e \in Entry : MaxAttempts[e] \in Nat \ {0}
    BY EntriesAssumption
  <1>2. \A r \in Reader : r[1] \in Entry /\ r[2] \in Nat
    BY <1>1 DEF Reader
  <1>3. \A e \in Entry, k \in Nat : 1 <= k /\ k <= MaxAttempts[e] => <<e, k>> \in Reader
    BY <1>1 DEF Reader
  <1>4. Scheduler \notin Reader
    BY <1>2, SizesAssumption DEF Scheduler, Entry
  <1> QED
    BY <1>2, <1>3, <1>4 DEF Proc

LEMMA SpanFacts ==
  \A e \in Entry : /\ FirstBlock[e] \in Span(e) /\ LastBlock[e] \in Span(e)
                   /\ Span(e) \subseteq Block
                   /\ \A b \in Span(e) : b # LastBlock[e] => b + 1 \in Span(e)
  BY EntriesAssumption, SizesAssumption DEF Span, Block

LEMMA SaturatingSubType ==
  \A a, b \in Nat : /\ SaturatingSub(a, b) \in Nat
                    /\ b <= a => SaturatingSub(a, b) = a - b
  BY DEF SaturatingSub

LEMMA WokenType ==
  ASSUME at \in [Proc -> Place], NEW s
  PROVE  Woken(s) \in [Proc -> Place]
  BY DEF Woken, Place

LEMMA LeaveType ==
  ASSUME NEW q \in Seq(Proc), NEW p
  PROVE  Leave(q, p) \in Seq(Proc)
  <1>1. CASE \E i \in DOMAIN q : q[i] = p
    <2> DEFINE i == CHOOSE i \in DOMAIN q : q[i] = p
    <2>1. i \in 1 .. Len(q) /\ Len(q) \in Nat /\ \A j \in 1 .. Len(q) : q[j] \in Proc
      BY <1>1
    <2>2. SubSeq(q, 1, i - 1) \in Seq(Proc) /\ SubSeq(q, i + 1, Len(q)) \in Seq(Proc)
      <3> HIDE DEF i
      <3>1. \A j \in 1 .. i - 1 : q[j] \in Proc
        BY <2>1
      <3>2. \A j \in i + 1 .. Len(q) : q[j] \in Proc
        BY <2>1
      <3>3. i - 1 \in Int /\ i + 1 \in Int /\ Len(q) \in Int
        BY <2>1
      <3> QED
        BY <3>1, <3>2, <3>3, SubSeqProperties
    <2>3. Leave(q, p) = SubSeq(q, 1, i - 1) \o SubSeq(q, i + 1, Len(q))
      BY <1>1 DEF Leave
    <2> HIDE DEF i
    <2> QED
      BY <2>2, <2>3
  <1>2. CASE ~ \E i \in DOMAIN q : q[i] = p
    BY <1>2 DEF Leave
  <1> QED
    BY <1>1, <1>2

\* An error return keeps the types and leaves every reader where it belongs.
LEMMA ReturnErrType ==
  ASSUME TypeOK, ReaderPlaced, NEW p \in Proc, NEW w \in [Proc -> Place],
         ReturnErr(p, w), at[p] # "None", UNCHANGED pos,
         \A r \in Reader : w[r] # "None" => at[r] # "None"
  PROVE  /\ at' \in [Proc -> Place]
         /\ prefetch' \in [Block -> {"None", "Pushed", "Getting"}]
         /\ phase' \in [Reader -> Phase] /\ outcome' \in [Reader -> Outcome]
         /\ ReaderPlaced'
  <1>1. CASE p = Scheduler
    <2>1. at' = [w EXCEPT ![p] = "Stopped"] /\ UNCHANGED <<phase, outcome>>
          /\ prefetch' = [b \in Block |-> "None"]
      BY <1>1 DEF ReturnErr
    <2> QED
      BY <1>1, <2>1, ProcFacts DEF TypeOK, Place, ReaderPlaced, Active
  <1>2. CASE p # Scheduler
    <2>1. p \in Reader
      BY <1>2 DEF Proc
    <2>2. /\ at' = [w EXCEPT ![p] = "None"]
          /\ phase' = [phase EXCEPT ![p] = DropPhase(p)]
          /\ outcome' = [outcome EXCEPT ![p] = "Err"]
          /\ UNCHANGED prefetch
      BY <1>2 DEF ReturnErr
    <2>3. DropPhase(p) \in Phase /\ phase[p] # "Idle"
      BY <2>1 DEF DropPhase, Phase, ReaderPlaced, Active
    <2> QED
      BY <2>1, <2>2, <2>3, ProcFacts DEF TypeOK, Place, Outcome, ReaderPlaced, Active
  <1> QED
    BY <1>1, <1>2

-----------------------------------------------------------------------------
(* How a step may move the totals *)

LEMMA TotalsType ==
  ASSUME TypeOK, MemoryAccounting
  PROVE  /\ Committed \in SUBSET Block /\ Held \in SUBSET Block /\ Held \subseteq Committed
         /\ committed = Weight(Committed) /\ resident = Weight(Held)
         /\ Weight(Committed) \in Nat /\ Weight(Held) \in Nat
  <1>1. Committed \in SUBSET Block /\ Held \in SUBSET Block
    BY DEF Committed, Held
  <1>2. Held \subseteq Committed
    BY DEF MemoryAccounting, Committed, Resident
  <1> QED
    BY <1>1, <1>2, WeightType DEF MemoryAccounting

\* Nothing that counts changes.
LEMMA KeepTotals ==
  ASSUME MemoryAccounting, Committed' = Committed, Held' = Held, Resident' = Resident,
         UNCHANGED <<committed, resident, available>>
  PROVE  MemoryAccounting'
  BY DEF MemoryAccounting

\* A block is committed to the window.
LEMMA AddCommitted ==
  ASSUME TypeOK, MemoryAccounting, NEW b \in Block, b \notin Committed,
         Committed' = Committed \cup {b}, Held' = Held, Resident' = Resident,
         committed' = committed + Len1(b), UNCHANGED <<resident, available>>
  PROVE  MemoryAccounting' /\ committed' \in Nat
  <1>1. Weight(Committed') = Weight(Committed) + Len1(b)
    BY WeightAdd, TotalsType
  <1> QED
    BY <1>1, TotalsType, BlockBytes DEF MemoryAccounting

\* A committed block gets its permits.
LEMMA AddHeld ==
  ASSUME TypeOK, MemoryAccounting, NEW b \in Block, b \notin Held,
         Len1(b) <= available,
         Committed' = Committed, Held' = Held \cup {b}, Resident' = Held',
         resident' = resident + Len1(b), available' = available - Len1(b),
         UNCHANGED committed
  PROVE  MemoryAccounting' /\ resident' \in Nat /\ available' \in Nat
  <1>1. Weight(Held') = Weight(Held) + Len1(b)
    BY WeightAdd, TotalsType
  <1>2. available + Weight(Held) = BudgetBytes /\ available \in Nat
    BY DEF MemoryAccounting, TypeOK
  <1>3. available' + Weight(Held') = BudgetBytes /\ available' \in Nat /\ resident' \in Nat
    BY <1>1, <1>2, TotalsType, BlockBytes, SizesAssumption
  <1>4. resident' = Weight(Resident')
    BY <1>1, TotalsType
  <1> QED
    BY <1>3, <1>4 DEF MemoryAccounting

\* The blocks C leave the window and the blocks H among them give their
\* permits back; the saturating subtractions are exact.
LEMMA DropTotals ==
  ASSUME TypeOK, MemoryAccounting,
         NEW C \in SUBSET Committed, NEW H \in SUBSET Held,
         Committed' = Committed \ C, Held' = Held \ H, Resident' = Held',
         committed' = SaturatingSub(committed, Weight(C)),
         resident' = SaturatingSub(resident, Weight(H)),
         available' = available + Weight(H)
  PROVE  MemoryAccounting' /\ committed' \in Nat /\ resident' \in Nat /\ available' \in Nat
  <1>1. /\ Weight(Committed') = Weight(Committed) - Weight(C)
        /\ Weight(C) <= Weight(Committed) /\ Weight(C) \in Nat
    BY WeightDifference, TotalsType
  <1>2. /\ Weight(Held') = Weight(Held) - Weight(H)
        /\ Weight(H) <= Weight(Held) /\ Weight(H) \in Nat
    BY WeightDifference, TotalsType
  <1>3. committed' = Weight(Committed') /\ resident' = Weight(Resident')
    BY <1>1, <1>2, TotalsType, SaturatingSubType
  <1>4. available + Weight(Held) = BudgetBytes /\ available \in Nat
    BY DEF MemoryAccounting, TypeOK
  <1>5. available' + Weight(Held') = BudgetBytes /\ available' \in Nat
    BY <1>2, <1>4, TotalsType, SizesAssumption
  <1>6. committed' \in Nat /\ resident' \in Nat
    BY <1>1, <1>2, TotalsType, SaturatingSubType
  <1> QED
    BY <1>3, <1>5, <1>6 DEF MemoryAccounting

-----------------------------------------------------------------------------
(* The steps that leave every block and total alone *)

LEMMA SameBlocks ==
  ASSUME MemoryAccounting,
         UNCHANGED <<permit, status, committed, resident, available>>
  PROVE  MemoryAccounting'
  <1>1. Committed' = Committed /\ Held' = Held /\ Resident' = Resident
    BY DEF Committed, Held, Resident
  <1> QED
    BY <1>1, KeepTotals

\* A step that wakes sleepers and moves one active process on keeps every
\* reader in its place.
LEMMA StayPlaced ==
  ASSUME TypeOK, ReaderPlaced, UNCHANGED <<pos, phase>>,
         NEW p \in Proc, NEW to \in Place, NEW s,
         at[p] # "None",
         at' = [at EXCEPT ![p] = to] \/ at' = [Woken(s) EXCEPT ![p] = to]
  PROVE  at' \in [Proc -> Place] /\ ReaderPlaced'
  <1>1. at \in [Proc -> Place] /\ Woken(s) \in [Proc -> Place]
    BY WokenType DEF TypeOK
  <1>2. \A r \in Reader : Woken(s)[r] # "None" => at[r] # "None"
    BY ProcFacts DEF Woken
  <1>3. \A r \in Reader : at'[r] # "None" => at[r] # "None"
    BY <1>1, <1>2, ProcFacts
  <1>4. at' \in [Proc -> Place]
    BY <1>1
  <1> QED
    BY <1>3, <1>4 DEF ReaderPlaced, Active

LEMMA ReserveQuietIInv ==
  ASSUME IInv, NEW p \in Proc,
         ReserveFailed(p) \/ ReserveNone(p) \/ ReserveWait(p)
  PROVE  IInv'
  <1> USE DEF IInv, slotVars, sumVars, budgetVars, readerVars, schedVars, taskVars
  <1>1. CASE ReserveFailed(p)
    <2>1. MemoryAccounting'
      BY <1>1, SameBlocks DEF ReserveFailed
    <2>2. at \in [Proc -> Place] /\ ReturnErr(p, at)
      BY <1>1 DEF ReserveFailed, TypeOK
    <2>3. TypeOK' /\ ReaderPlaced'
      BY <1>1, <2>2, ReturnErrType DEF ReserveFailed, TypeOK
    <2> QED
      BY <2>1, <2>3
  <1>2. CASE ReserveNone(p)
    <2>1. MemoryAccounting'
      BY <1>2, SameBlocks DEF ReserveNone
    <2>2. Resume(p) \in Place
      BY DEF Resume, Place
    <2>3. at' \in [Proc -> Place] /\ ReaderPlaced'
      BY <1>2, <2>2, StayPlaced DEF ReserveNone
    <2>4. TypeOK'
      BY <1>2, <2>3 DEF ReserveNone, TypeOK
    <2> QED
      BY <2>1, <2>3, <2>4
  <1>3. CASE ReserveWait(p)
    <2>1. MemoryAccounting'
      BY <1>3, SameBlocks DEF ReserveWait
    <2>2. at' \in [Proc -> Place] /\ ReaderPlaced'
      BY <1>3, StayPlaced DEF ReserveWait, Place
    <2>3. TypeOK'
      BY <1>3, <2>2 DEF ReserveWait, TypeOK
    <2> QED
      BY <2>1, <2>2, <2>3
  <1> QED
    BY <1>1, <1>2, <1>3

LEMMA ReserveCommitIInv ==
  ASSUME IInv, NEW p \in Proc, ReserveCommit(p)
  PROVE  IInv'
  <1> DEFINE b == pos[p]
  <1> USE DEF IInv, slotVars, sumVars, budgetVars, readerVars, schedVars, taskVars
  <1>1. b \in Block
    BY DEF TypeOK
  <1>2. /\ b \notin Committed /\ Committed' = Committed \cup {b}
        /\ Held' = Held /\ Resident' = Resident
    BY <1>1 DEF ReserveCommit, Reservable, TypeOK, Status, Committed, Held, Resident
  <1>3. MemoryAccounting' /\ committed' \in Nat
    BY <1>1, <1>2, AddCommitted DEF ReserveCommit
  <1>4. at' \in [Proc -> Place] /\ ReaderPlaced'
    BY StayPlaced DEF ReserveCommit, Place
  <1>5. queue' \in Seq(Proc)
    BY DEF ReserveCommit, TypeOK
  <1>6. /\ restore' \in [Block -> BOOLEAN] /\ replayPriority' \in [Block -> BOOLEAN]
        /\ status' \in [Block -> Status]
    BY <1>1 DEF ReserveCommit, TypeOK, Status
  <1>7. TypeOK'
    BY <1>3, <1>4, <1>5, <1>6 DEF ReserveCommit, TypeOK
  <1> QED
    BY <1>3, <1>4, <1>7

LEMMA PermitTakenIInv ==
  ASSUME IInv, NEW p \in Proc, PermitTaken(p)
  PROVE  IInv'
  <1> DEFINE b == pos[p]
  <1> USE DEF IInv, slotVars, sumVars, budgetVars, readerVars, schedVars, taskVars
  <1>1. b \in Block
    BY DEF TypeOK
  <1>2. /\ b \notin Held /\ Committed' = Committed
        /\ Held' = Held \cup {b} /\ Resident' = Held'
    <2>1. /\ status[b] = "Reserving" /\ status' = [status EXCEPT ![b] = "Fetching"]
          /\ permit' = [permit EXCEPT ![b] = TRUE]
      BY DEF PermitTaken
    <2>2. Held = Resident
      BY DEF MemoryAccounting
    <2>3. Committed' = Committed /\ Resident' = Resident \cup {b} /\ b \notin Resident
      BY <1>1, <2>1 DEF TypeOK, Status, Committed, Resident
    <2>4. Held' = Held \cup {b}
      BY <1>1, <2>1 DEF TypeOK, Held
    <2> QED
      BY <2>2, <2>3, <2>4
  <1>3. Len1(b) <= available
    BY DEF PermitTaken, PermitReady
  <1>4. /\ resident' = resident + Len1(b) /\ available' = available - Len1(b)
        /\ committed' = committed
    BY DEF PermitTaken
  <1>5. MemoryAccounting' /\ resident' \in Nat /\ available' \in Nat
    BY <1>1, <1>2, <1>3, <1>4, AddHeld
  <1>6. at' \in [Proc -> Place] /\ ReaderPlaced'
    <2>1. at[p] # "None" /\ UNCHANGED <<pos, phase>>
      BY DEF PermitTaken, PermitReady
    <2>2. \E to \in Place : at' = [Woken({"notify"}) EXCEPT ![p] = to]
      BY DEF PermitTaken, Place
    <2> QED
      BY <2>1, <2>2, StayPlaced
  <1>7. queue' \in Seq(Proc)
    BY DEF PermitTaken, PermitReady, TypeOK
  <1>8. /\ permit' \in [Block -> BOOLEAN] /\ status' \in [Block -> Status]
        /\ prefetch' \in [Block -> {"None", "Pushed", "Getting"}]
    BY <1>1 DEF PermitTaken, TypeOK, Status
  <1>9. TypeOK'
    BY <1>5, <1>6, <1>7, <1>8 DEF PermitTaken, TypeOK
  <1> QED
    BY <1>5, <1>6, <1>9

LEMMA PermitUnneededIInv ==
  ASSUME IInv, NEW p \in Proc, PermitUnneeded(p)
  PROVE  IInv'
  <1> DEFINE b == pos[p]
  <1> USE DEF IInv, slotVars, sumVars, budgetVars, readerVars, schedVars, taskVars
  <1>1. b \in Block
    BY DEF TypeOK
  <1>2. MemoryAccounting' /\ committed' \in Nat /\ status' \in [Block -> Status]
    <2>1. CASE status[b] = "Reserving"
      <3>1. /\ {b} \in SUBSET Committed /\ {} \in SUBSET Held
            /\ Committed' = Committed \ {b} /\ Held' = Held \ {} /\ Resident' = Held'
            /\ status' \in [Block -> Status]
        <4>1. status' = [status EXCEPT ![b] = "Released"] /\ permit' = permit
          BY <2>1 DEF PermitUnneeded
        <4>2. status \in [Block -> Status] /\ Held = Resident
          BY DEF TypeOK, MemoryAccounting
        <4>3. status' \in [Block -> Status]
          BY <1>1, <4>1, <4>2 DEF Status
        <4>4. b \in Committed /\ Committed' = Committed \ {b}
          BY <1>1, <2>1, <4>1, <4>2 DEF Committed
        <4>5. Held' = Held /\ Resident' = Resident
          BY <1>1, <2>1, <4>1, <4>2 DEF Held, Resident
        <4> QED BY <4>2, <4>3, <4>4, <4>5
      <3>2. /\ committed' = SaturatingSub(committed, Weight({b}))
            /\ resident' = SaturatingSub(resident, Weight({}))
            /\ available' = available + Weight({})
        <4>1. /\ committed' = SaturatingSub(committed, Len1(b))
              /\ resident' = resident /\ available' = available
          BY <2>1 DEF PermitUnneeded
        <4>2. resident \in Nat /\ available \in Nat
          BY DEF TypeOK
        <4>3. SaturatingSub(resident, 0) = resident /\ available + 0 = available
          BY <4>2, SaturatingSubType
        <4> QED
          BY <1>1, <4>1, <4>3, WeightSingle
      <3> QED
        BY <3>1, <3>2, DropTotals
    <2>2. CASE status[b] # "Reserving"
      BY <2>2, SameBlocks DEF PermitUnneeded, TypeOK
    <2> QED
      BY <2>1, <2>2
  <1>3. at' \in [Proc -> Place] /\ ReaderPlaced'
    <2>1. at[p] # "None" /\ Resume(p) \in Place
      BY DEF PermitUnneeded, PermitReady, Resume, Place
    <2> QED
      BY <2>1, StayPlaced DEF PermitUnneeded
  <1>4. queue' \in Seq(Proc) /\ restore' \in [Block -> BOOLEAN]
    BY DEF PermitUnneeded, PermitReady, TypeOK
  <1>5. TypeOK'
    BY <1>2, <1>3, <1>4 DEF PermitUnneeded, TypeOK
  <1> QED
    BY <1>2, <1>3, <1>5

LEMMA PermitCancelledIInv ==
  ASSUME IInv, NEW p \in Proc, PermitCancelled(p)
  PROVE  IInv'
  <1> DEFINE w == Woken({"notify", "capacity"})
  <1> USE DEF IInv, slotVars, sumVars, budgetVars, readerVars, schedVars, taskVars
  <1>1. MemoryAccounting'
    BY SameBlocks DEF PermitCancelled
  <1>2. w \in [Proc -> Place] /\ \A r \in Reader : w[r] # "None" => at[r] # "None"
    BY WokenType, ProcFacts DEF TypeOK, Woken
  <1>3. ReturnErr(p, w) /\ at[p] # "None" /\ UNCHANGED pos
    BY DEF PermitCancelled
  <1> HIDE DEF w
  <1>4. /\ at' \in [Proc -> Place]
        /\ prefetch' \in [Block -> {"None", "Pushed", "Getting"}]
        /\ phase' \in [Reader -> Phase] /\ outcome' \in [Reader -> Outcome]
        /\ ReaderPlaced'
    BY <1>2, <1>3, ReturnErrType
  <1>5. queue' \in Seq(Proc) /\ restore' \in [Block -> BOOLEAN]
    BY LeaveType DEF PermitCancelled, TypeOK
  <1>6. TypeOK'
    BY <1>4, <1>5 DEF PermitCancelled, TypeOK
  <1> QED
    BY <1>1, <1>4, <1>6

-----------------------------------------------------------------------------
(* The end of a fetch *)

\* A committed block b leaves the window; if it held permits they go back.
LEMMA DropBlock ==
  ASSUME TypeOK, MemoryAccounting, NEW b \in Block, b \in Committed,
         NEW new \in Status, new \notin {"Reserving", "Fetching", "Ready"},
         status' = [status EXCEPT ![b] = new],
         committed' = SaturatingSub(committed, Len1(b)),
         \/ /\ status[b] = "Reserving"
            /\ UNCHANGED <<permit, resident, available>>
         \/ /\ status[b] # "Reserving"
            /\ permit' = [permit EXCEPT ![b] = FALSE]
            /\ resident' = SaturatingSub(resident, Len1(b))
            /\ available' = available + Len1(b)
  PROVE  /\ MemoryAccounting' /\ committed' \in Nat /\ resident' \in Nat
         /\ available' \in Nat
         /\ permit' \in [Block -> BOOLEAN] /\ status' \in [Block -> Status]
  <1>1. Held = Resident
    BY DEF MemoryAccounting
  <1>2. /\ status' \in [Block -> Status] /\ Committed' = Committed \ {b}
        /\ Resident' = Resident \ {b} /\ (b \in Resident <=> status[b] # "Reserving")
    BY DEF TypeOK, Status, Committed, Resident
  <1>3. Weight({b}) = Len1(b) /\ Weight({}) = 0
    BY WeightSingle
  <1>4. CASE status[b] = "Reserving"
    <2>1. Held' = Held \ {} /\ Resident' = Held' /\ {} \in SUBSET Held
      BY <1>1, <1>2, <1>4 DEF Held
    <2>2. SaturatingSub(resident, 0) = resident /\ available + 0 = available
      BY SaturatingSubType DEF TypeOK
    <2>3. /\ committed' = SaturatingSub(committed, Weight({b}))
          /\ resident' = SaturatingSub(resident, Weight({}))
          /\ available' = available + Weight({})
      BY <1>3, <1>4, <2>2
    <2>4. permit' \in [Block -> BOOLEAN]
      BY <1>4 DEF TypeOK
    <2> QED
      BY <1>2, <2>1, <2>3, <2>4, DropTotals
  <1>5. CASE status[b] # "Reserving"
    <2>1. permit' = [permit EXCEPT ![b] = FALSE]
      BY <1>5
    <2>2. /\ Held' = Held \ {b} /\ {b} \in SUBSET Held
          /\ permit' \in [Block -> BOOLEAN]
      BY <1>1, <1>2, <1>5, <2>1 DEF Held, TypeOK
    <2>3. /\ committed' = SaturatingSub(committed, Weight({b}))
          /\ resident' = SaturatingSub(resident, Weight({b}))
          /\ available' = available + Weight({b})
      BY <1>3, <1>5
    <2> QED
      BY <1>1, <1>2, <2>2, <2>3, DropTotals
  <1> QED
    BY <1>4, <1>5

LEMMA FinishFetchTotals ==
  ASSUME TypeOK, MemoryAccounting, NEW b \in Block, NEW ok \in BOOLEAN,
         NEW p \in Proc, NEW to \in Place, FinishFetch(b, ok, p, to)
  PROVE  /\ MemoryAccounting' /\ committed' \in Nat /\ resident' \in Nat
         /\ available' \in Nat
         /\ permit' \in [Block -> BOOLEAN] /\ status' \in [Block -> Status]
         /\ restore' \in [Block -> BOOLEAN]
         /\ \/ at' = [at EXCEPT ![p] = to]
            \/ \E s : at' = [Woken(s) EXCEPT ![p] = to]
  <1>1. restore' \in [Block -> BOOLEAN]
    BY DEF FinishFetch, TypeOK
  <1>2. CASE failure \/ status[b] # "Fetching"
    BY <1>1, <1>2, SameBlocks DEF FinishFetch, TypeOK
  <1>3. CASE ~(failure \/ status[b] # "Fetching") /\ ok /\ (remaining[b] > 0 \/ live[b] > 0)
    <2>1. /\ status' = [status EXCEPT ![b] = "Ready"] /\ status[b] = "Fetching"
          /\ UNCHANGED <<permit, committed, resident, available>>
          /\ at' = [Woken({"notify"}) EXCEPT ![p] = to]
      BY <1>3 DEF FinishFetch
    <2>2. /\ Committed' = Committed /\ Held' = Held /\ Resident' = Resident
          /\ status' \in [Block -> Status]
      BY <2>1 DEF Committed, Held, Resident, TypeOK, Status
    <2> QED
      BY <1>1, <2>1, <2>2, KeepTotals DEF TypeOK
  <1>4. CASE ~(failure \/ status[b] # "Fetching") /\ ~(ok /\ (remaining[b] > 0 \/ live[b] > 0))
    <2>1. \E new \in {"Released", "Failed"} : status' = [status EXCEPT ![b] = new]
      BY <1>4 DEF FinishFetch
    <2>2. /\ status[b] = "Fetching"
          /\ permit' = [permit EXCEPT ![b] = FALSE]
          /\ available' = available + Len1(b)
          /\ resident' = SaturatingSub(resident, Len1(b))
          /\ committed' = SaturatingSub(committed, Len1(b))
          /\ at' = [Woken({"notify", "capacity"}) EXCEPT ![p] = to]
      BY <1>4 DEF FinishFetch
    <2>3. b \in Committed
      BY <2>2 DEF Committed
    <2>4. PICK new \in {"Released", "Failed"} : status' = [status EXCEPT ![b] = new]
      BY <2>1
    <2>5. new \in Status /\ new \notin {"Reserving", "Fetching", "Ready"}
      BY <2>4 DEF Status
    <2> QED
      BY <1>1, <2>2, <2>3, <2>4, <2>5, DropBlock
  <1> QED
    BY <1>2, <1>3, <1>4

LEMMA RollbackTotals ==
  ASSUME TypeOK, MemoryAccounting, NEW b \in Block, NEW p \in Proc,
         NEW to \in Place, NEW q \in Seq(Proc), RollbackFetch(b, p, to, q)
  PROVE  /\ MemoryAccounting' /\ committed' \in Nat /\ resident' \in Nat
         /\ available' \in Nat /\ queue' \in Seq(Proc)
         /\ permit' \in [Block -> BOOLEAN] /\ status' \in [Block -> Status]
         /\ restore' \in [Block -> BOOLEAN] /\ replayPriority' \in [Block -> BOOLEAN]
         /\ \/ at' = [at EXCEPT ![p] = to]
            \/ \E s : at' = [Woken(s) EXCEPT ![p] = to]
  <1>1. restore' \in [Block -> BOOLEAN] /\ queue' \in Seq(Proc)
    BY DEF RollbackFetch, TypeOK
  <1>2. CASE status[b] \notin {"Reserving", "Fetching"}
    BY <1>1, <1>2, SameBlocks DEF RollbackFetch, TypeOK
  <1>3. CASE status[b] \in {"Reserving", "Fetching"}
    <2>1. /\ status' = [status EXCEPT ![b] = "Pending"]
          /\ committed' = SaturatingSub(committed, Len1(b))
          /\ replayPriority' = [replayPriority EXCEPT ![b] = @ \/ restore[b]]
          /\ at' = [Woken({"notify", "capacity"}) EXCEPT ![p] = to]
      BY <1>3 DEF RollbackFetch
    <2>2. \/ /\ status[b] = "Reserving"
             /\ UNCHANGED <<permit, resident, available>>
          \/ /\ status[b] # "Reserving"
             /\ permit' = [permit EXCEPT ![b] = FALSE]
             /\ resident' = SaturatingSub(resident, Len1(b))
             /\ available' = available + Len1(b)
      BY <1>3 DEF RollbackFetch
    <2>3. b \in Committed
      BY <1>3 DEF Committed
    <2>4. "Pending" \in Status /\ "Pending" \notin {"Reserving", "Fetching", "Ready"}
      BY DEF Status
    <2>5. replayPriority' \in [Block -> BOOLEAN]
      BY <2>1 DEF TypeOK
    <2>6. /\ MemoryAccounting' /\ committed' \in Nat /\ resident' \in Nat
          /\ available' \in Nat
          /\ permit' \in [Block -> BOOLEAN] /\ status' \in [Block -> Status]
      BY <2>1, <2>2, <2>3, <2>4, DropBlock
    <2> QED
      BY <1>1, <2>1, <2>5, <2>6
  <1> QED
    BY <1>2, <1>3

LEMMA DemandIInv ==
  ASSUME IInv, NEW r \in Reader,
         DemandGet(r) \/ \E ok \in BOOLEAN : DemandDone(r, ok)
  PROVE  IInv'
  <1> USE DEF IInv, slotVars, sumVars, budgetVars, readerVars, schedVars, taskVars
  <1>1. r \in Proc
    BY ProcFacts
  <1>2. CASE DemandGet(r)
    <2>1. MemoryAccounting'
      BY <1>2, SameBlocks DEF DemandGet
    <2>2. at' \in [Proc -> Place] /\ ReaderPlaced'
      BY <1>1, <1>2, StayPlaced DEF DemandGet, Place
    <2>3. TypeOK'
      BY <1>2, <2>2 DEF DemandGet, TypeOK
    <2> QED
      BY <2>1, <2>2, <2>3
  <1>3. CASE \E ok \in BOOLEAN : DemandDone(r, ok)
    <2>1. PICK ok \in BOOLEAN : DemandDone(r, ok)
      BY <1>3
    <2>2. /\ pos[r] \in Block /\ "Check" \in Place
          /\ FinishFetch(pos[r], ok, r, "Check")
          /\ at[r] # "None"
          /\ UNCHANGED <<remaining, live, replayPriority, failure, queue,
                         readerVars, schedVars, taskVars>>
      BY <1>1, <2>1 DEF DemandDone, Place, TypeOK
    <2>3. /\ MemoryAccounting' /\ committed' \in Nat /\ resident' \in Nat
          /\ available' \in Nat
          /\ permit' \in [Block -> BOOLEAN] /\ status' \in [Block -> Status]
          /\ restore' \in [Block -> BOOLEAN]
          /\ \/ at' = [at EXCEPT ![r] = "Check"]
             \/ \E s : at' = [Woken(s) EXCEPT ![r] = "Check"]
      BY <1>1, <2>2, FinishFetchTotals
    <2>4. at' \in [Proc -> Place] /\ ReaderPlaced'
      BY <1>1, <2>2, <2>3, StayPlaced
    <2>5. TypeOK'
      BY <2>2, <2>3, <2>4 DEF TypeOK
    <2> QED
      BY <2>3, <2>4, <2>5
  <1> QED
    BY <1>2, <1>3

-----------------------------------------------------------------------------
(* The reader *)

LEMMA SliceIInv ==
  ASSUME IInv, NEW r \in Reader,
         SliceReady(r) \/ SliceWait(r) \/ SliceDemand(r) \/ SliceError(r)
           \/ ActivateError(r)
  PROVE  IInv'
  <1> USE DEF IInv, slotVars, sumVars, budgetVars, readerVars, schedVars, taskVars
  <1>1. r \in Proc
    BY ProcFacts
  <1>2. CASE SliceReady(r) \/ SliceWait(r) \/ SliceDemand(r)
    <2>1. /\ UNCHANGED <<slotVars, sumVars, budgetVars, readerVars, schedVars, taskVars>>
          /\ at[r] # "None" /\ \E to \in Place : at' = [at EXCEPT ![r] = to]
      BY <1>2 DEF SliceReady, SliceWait, SliceDemand, Place
    <2>2. MemoryAccounting'
      BY <2>1, SameBlocks
    <2>3. at' \in [Proc -> Place] /\ ReaderPlaced'
      BY <1>1, <2>1, StayPlaced
    <2>4. TypeOK'
      BY <2>1, <2>3 DEF TypeOK
    <2> QED
      BY <2>2, <2>3, <2>4
  <1>3. CASE SliceError(r) \/ ActivateError(r)
    <2>1. /\ ReturnErr(r, at) /\ at[r] # "None" /\ at \in [Proc -> Place]
          /\ UNCHANGED <<slotVars, sumVars, budgetVars, pos, nextIndex, taskVars>>
      BY <1>3 DEF SliceError, ActivateError, TypeOK
    <2>2. MemoryAccounting'
      BY <2>1, SameBlocks
    <2>3. /\ at' \in [Proc -> Place]
          /\ prefetch' \in [Block -> {"None", "Pushed", "Getting"}]
          /\ phase' \in [Reader -> Phase] /\ outcome' \in [Reader -> Outcome]
          /\ ReaderPlaced'
      BY <1>1, <2>1, ReturnErrType
    <2>4. TypeOK'
      BY <2>1, <2>3 DEF TypeOK
    <2> QED
      BY <2>2, <2>3, <2>4
  <1> QED
    BY <1>2, <1>3

LEMMA ActivateIInv ==
  ASSUME IInv, NEW r \in Reader, ActivateReader(r)
  PROVE  IInv'
  <1> USE DEF IInv, slotVars, sumVars, budgetVars, readerVars, schedVars, taskVars
  <1>1. MemoryAccounting'
    BY SameBlocks DEF ActivateReader
  <1>2. /\ live' \in [Block -> Nat] /\ phase' \in [Reader -> Phase]
        /\ at' \in [Proc -> Place]
    <2>1. live' = [b \in Block |-> IF b \in Span(r[1]) THEN live[b] + 1 ELSE live[b]]
      BY DEF ActivateReader
    <2>2. live' \in [Block -> Nat]
      BY <2>1 DEF TypeOK
    <2>3. phase' \in [Reader -> Phase] /\ at' \in [Proc -> Place]
      BY DEF ActivateReader, TypeOK, Phase, Place
    <2> QED
      BY <2>2, <2>3
  <1>3. TypeOK'
    BY <1>2 DEF ActivateReader, TypeOK
  <1>4. ReaderPlaced'
    <2>1. /\ at' = [at EXCEPT ![r] = "Check"] /\ pos' = pos
          /\ phase' = [phase EXCEPT ![r] = "Reading"] /\ phase[r] = "Opening"
      BY DEF ActivateReader
    <2> QED
      BY <2>1, ProcFacts DEF ReaderPlaced, Active, TypeOK
  <1> QED
    BY <1>1, <1>3, <1>4

\* Ready blocks are committed and hold their permits: releasing them keeps
\* the totals exact.
LEMMA ReleaseReadyTotals ==
  ASSUME TypeOK, MemoryAccounting, NEW S \in SUBSET Block,
         \A b \in S : status[b] = "Ready", ReleaseReady(S)
  PROVE  /\ MemoryAccounting' /\ committed' \in Nat /\ resident' \in Nat
         /\ available' \in Nat
         /\ permit' \in [Block -> BOOLEAN] /\ status' \in [Block -> Status]
  <1>1. Held = Resident
    BY DEF MemoryAccounting
  <1>2. S \in SUBSET Committed /\ S \in SUBSET Resident
    BY DEF Committed, Resident
  <1>3. {b \in S : permit[b]} = S
    BY <1>1, <1>2 DEF Held
  <1>4. /\ available' = available + Weight(S)
        /\ resident' = SaturatingSub(resident, Weight(S))
        /\ committed' = SaturatingSub(committed, Weight(S))
    BY <1>3 DEF ReleaseReady
  <1>5. status' \in [Block -> Status] /\ permit' \in [Block -> BOOLEAN]
    BY DEF ReleaseReady, TypeOK, Status
  <1>6. Committed' = Committed \ S /\ Resident' = Resident \ S
    BY DEF ReleaseReady, Committed, Resident
  <1>7. Held' = Held \ S
    BY DEF ReleaseReady, Held
  <1> QED
    BY <1>1, <1>2, <1>4, <1>5, <1>6, <1>7, DropTotals

LEMMA ReleaseBlockTotals ==
  ASSUME TypeOK, MemoryAccounting, NEW b \in Block, NEW r \in Reader,
         NEW to \in Place, ReleaseBlockReader(b, r, to)
  PROVE  /\ MemoryAccounting' /\ committed' \in Nat /\ resident' \in Nat
         /\ available' \in Nat
         /\ permit' \in [Block -> BOOLEAN] /\ status' \in [Block -> Status]
         /\ remaining' \in [Block -> Nat] /\ live' \in [Block -> Nat]
         /\ replayPriority' \in [Block -> BOOLEAN]
         /\ \/ at' = [at EXCEPT ![r] = to]
            \/ \E s : at' = [Woken(s) EXCEPT ![r] = to]
  <1>1. CASE live[b] = 0
    <2>1. /\ at' = [at EXCEPT ![r] = to]
          /\ UNCHANGED <<remaining, live, replayPriority, permit, status,
                         committed, resident, available>>
      BY <1>1 DEF ReleaseBlockReader
    <2> QED
      BY <2>1, SameBlocks DEF TypeOK
  <1>2. CASE live[b] # 0
    <2> DEFINE left == SaturatingSub(remaining[b], 1)
    <2>1. /\ live' = [live EXCEPT ![b] = @ - 1]
          /\ remaining' = [remaining EXCEPT ![b] = left]
          /\ replayPriority' =
               [replayPriority EXCEPT ![b] =
                 @ \/ (left = 0 /\ status[b] \in {"Pending", "Reserving", "Fetching"})]
          /\ IF LastClaim(b, left) /\ status[b] = "Ready"
             THEN /\ ReleaseReady({b})
                  /\ at' = [Woken({"capacity"}) EXCEPT ![r] = to]
             ELSE /\ at' = [at EXCEPT ![r] = to]
                  /\ UNCHANGED <<permit, status, committed, resident, available>>
      BY <1>2 DEF ReleaseBlockReader
    <2>2. left \in Nat
      BY SaturatingSubType DEF TypeOK
    <2>3. /\ remaining' \in [Block -> Nat] /\ live' \in [Block -> Nat]
          /\ replayPriority' \in [Block -> BOOLEAN]
      <3> HIDE DEF left
      <3> QED
        BY <1>2, <2>1, <2>2 DEF TypeOK
    <2>4. CASE LastClaim(b, left) /\ status[b] = "Ready"
      <3>1. /\ MemoryAccounting' /\ committed' \in Nat /\ resident' \in Nat
            /\ available' \in Nat
            /\ permit' \in [Block -> BOOLEAN] /\ status' \in [Block -> Status]
        BY <2>1, <2>4, ReleaseReadyTotals
      <3> QED
        BY <2>1, <2>3, <2>4, <3>1
    <2>5. CASE ~(LastClaim(b, left) /\ status[b] = "Ready")
      BY <2>1, <2>3, <2>5, SameBlocks DEF TypeOK
    <2> QED
      BY <2>4, <2>5
  <1> QED
    BY <1>1, <1>2

LEMMA PassBlockIInv ==
  ASSUME IInv, NEW r \in Reader, ConsumeBlock(r) \/ DropReaderBlock(r)
  PROVE  IInv'
  <1> USE DEF IInv, slotVars, sumVars, budgetVars, readerVars, schedVars, taskVars
  <1> DEFINE b == pos[r]
             last == b = LastBlock[r[1]]
  <1>1. r \in Proc /\ b \in Block /\ r[1] \in Entry /\ b \in Span(r[1])
    BY ProcFacts DEF TypeOK, ConsumeBlock, DropReaderBlock, ReaderPlaced
  <1>2. \E to \in Place, end \in Outcome, more \in Phase :
          /\ ReleaseBlockReader(b, r, to) /\ NextBlockOr(r, end, more)
          /\ more # "Idle"
          /\ to # "None" => ~last /\ more = "Reading"
    <2>1. CASE ConsumeBlock(r)
      BY <2>1 DEF ConsumeBlock, Place, Outcome, Phase
    <2>2. CASE DropReaderBlock(r)
      BY <2>2 DEF DropReaderBlock, Place, Phase, TypeOK
    <2> QED
      BY <2>1, <2>2
  <1>3. PICK to \in Place, end \in Outcome, more \in Phase :
          /\ ReleaseBlockReader(b, r, to) /\ NextBlockOr(r, end, more)
          /\ more # "Idle"
          /\ to # "None" => ~last /\ more = "Reading"
    BY <1>2
  <1>4. /\ MemoryAccounting' /\ committed' \in Nat /\ resident' \in Nat
        /\ available' \in Nat
        /\ permit' \in [Block -> BOOLEAN] /\ status' \in [Block -> Status]
        /\ remaining' \in [Block -> Nat] /\ live' \in [Block -> Nat]
        /\ replayPriority' \in [Block -> BOOLEAN]
        /\ \/ at' = [at EXCEPT ![r] = to]
           \/ \E s : at' = [Woken(s) EXCEPT ![r] = to]
    BY <1>1, <1>3, ReleaseBlockTotals
  <1>5. /\ at' \in [Proc -> Place] /\ at'[r] = to
        /\ \A o \in Reader : o # r => (at'[o] # "None" => at[o] # "None")
    <2>1. at \in [Proc -> Place] /\ \A s : Woken(s) \in [Proc -> Place]
      BY WokenType DEF TypeOK
    <2>2. \A s : \A o \in Reader : Woken(s)[o] # "None" => at[o] # "None"
      BY ProcFacts DEF Woken
    <2> QED
      BY <1>1, <1>4, <2>1, <2>2, ProcFacts
  <1>6. /\ pos' \in [Proc -> Block] /\ phase' \in [Reader -> Phase]
        /\ outcome' \in [Reader -> Outcome]
        /\ pos'[r] \in Span(r[1]) /\ phase'[r] # "Idle"
        /\ to # "None" => phase'[r] = "Reading"
        /\ \A o \in Reader : o # r => pos'[o] = pos[o] /\ phase'[o] = phase[o]
    <2>1. pos \in [Proc -> Block] /\ phase \in [Reader -> Phase] /\ outcome \in [Reader -> Outcome]
      BY DEF TypeOK
    <2>2. CASE last
      <3>1. /\ phase' = [phase EXCEPT ![r] = "Closed"]
            /\ outcome' = [outcome EXCEPT ![r] = end]
            /\ UNCHANGED pos
        BY <1>3, <2>2 DEF NextBlockOr
      <3> QED
        BY <1>1, <1>3, <2>1, <2>2, <3>1 DEF Phase
    <2>3. CASE ~last
      <3>1. /\ pos' = [pos EXCEPT ![r] = @ + 1]
            /\ phase' = [phase EXCEPT ![r] = more]
            /\ UNCHANGED outcome
        BY <1>3, <2>3 DEF NextBlockOr
      <3>2. b + 1 \in Span(r[1]) /\ b + 1 \in Block
        BY <1>1, <2>3, SpanFacts
      <3> QED
        BY <1>1, <1>3, <2>1, <3>1, <3>2, ProcFacts
    <2> QED
      BY <2>2, <2>3
  <1>7. UNCHANGED <<restore, failure, queue, schedVars, taskVars>>
    BY DEF ConsumeBlock, DropReaderBlock
  <1>8. TypeOK'
    BY <1>4, <1>5, <1>6, <1>7 DEF TypeOK
  <1>9. ReaderPlaced'
    BY <1>3, <1>5, <1>6 DEF ReaderPlaced, Active
  <1> QED
    BY <1>4, <1>8, <1>9

LEMMA DropClaimIInv ==
  ASSUME IInv, NEW r \in Reader, DropClaim(r)
  PROVE  IInv'
  <1> USE DEF IInv, slotVars, sumVars, budgetVars, readerVars, schedVars, taskVars
  <1> DEFINE span  == Span(r[1])
             ended == {b \in span : remaining[b] = 1 /\ live[b] = 0}
             freed == {b \in ended : status[b] = "Ready"}
             lost  == {b \in ended : status[b] \in {"Pending", "Reserving", "Fetching"}}
  <1>1. /\ r \in Proc /\ r[1] \in Entry /\ LastBlock[r[1]] \in span /\ span \subseteq Block
    BY ProcFacts, SpanFacts
  <1>2. /\ phase[r] = "DroppingClaim"
        /\ remaining' = [b \in Block |-> IF b \in span
                                         THEN SaturatingSub(remaining[b], 1)
                                         ELSE remaining[b]]
        /\ replayPriority' = [b \in Block |-> replayPriority[b] \/ b \in lost]
        /\ ReleaseReady(freed)
        /\ at' = at \/ at' = Woken({"capacity"})
        /\ phase' = [phase EXCEPT ![r] = "Closed"]
        /\ pos' = [pos EXCEPT ![r] = LastBlock[r[1]]]
        /\ UNCHANGED <<live, restore, failure, queue, outcome, schedVars, taskVars>>
    BY DEF DropClaim
  <1>3. freed \in SUBSET Block /\ \A b \in freed : status[b] = "Ready"
    BY <1>1
  <1> HIDE DEF freed, lost
  <1>4. /\ MemoryAccounting' /\ committed' \in Nat /\ resident' \in Nat
        /\ available' \in Nat
        /\ permit' \in [Block -> BOOLEAN] /\ status' \in [Block -> Status]
    BY <1>2, <1>3, ReleaseReadyTotals
  <1>5. /\ remaining' \in [Block -> Nat] /\ replayPriority' \in [Block -> BOOLEAN]
    BY <1>2, SaturatingSubType DEF TypeOK
  <1>6. /\ at' \in [Proc -> Place]
        /\ \A o \in Reader : at'[o] # "None" => at[o] # "None"
    <2>1. CASE at' = at
      BY <2>1 DEF TypeOK
    <2>2. CASE at' = Woken({"capacity"})
      <3>1. Woken({"capacity"}) \in [Proc -> Place]
        BY WokenType DEF TypeOK
      <3>2. \A o \in Reader : Woken({"capacity"})[o] # "None" => at[o] # "None"
        BY ProcFacts DEF Woken
      <3> QED
        BY <2>2, <3>1, <3>2
    <2> QED
      BY <1>2, <2>1, <2>2
  <1>7. /\ pos' \in [Proc -> Block] /\ phase' \in [Reader -> Phase]
    BY <1>1, <1>2 DEF TypeOK, Phase
  <1>8. /\ live' \in [Block -> Nat] /\ restore' \in [Block -> BOOLEAN]
        /\ failure' \in BOOLEAN /\ queue' \in Seq(Proc)
        /\ outcome' \in [Reader -> Outcome]
    BY <1>2 DEF TypeOK
  <1>9. /\ nextIndex' \in 1 .. NumBlocks + 1
        /\ prefetch' \in [Block -> {"None", "Pushed", "Getting"}]
        /\ task' \in [Entry -> TaskState] /\ retained' \in [Entry -> BOOLEAN]
        /\ attempt' \in [Entry -> Nat]
        /\ \A e \in Entry : attempt'[e] <= MaxAttempts[e]
    BY <1>2 DEF TypeOK
  <1>10. TypeOK'
    BY <1>4, <1>5, <1>6, <1>7, <1>8, <1>9 DEF TypeOK
  <1>11. ReaderPlaced'
    BY <1>1, <1>2, <1>6 DEF ReaderPlaced, Active, TypeOK
  <1> QED
    BY <1>4, <1>10, <1>11

-----------------------------------------------------------------------------
(* The transfer loop *)

\* The steps that only change a task, and the start of an attempt's reader.
LEMMA TaskOnlyIInv ==
  ASSUME IInv, NEW e \in Entry,
         SpawnTask(e) \/ AttemptFails(e) \/ TaskSucceeds(e) \/ TaskFails(e)
  PROVE  IInv'
  <1> USE DEF IInv, slotVars, sumVars, budgetVars, readerVars, schedVars, taskVars
  <1>1. /\ \E s \in TaskState : task' = [task EXCEPT ![e] = s]
        /\ UNCHANGED <<slotVars, sumVars, budgetVars, at, readerVars, schedVars,
                       attempt, retained>>
    BY DEF SpawnTask, AttemptFails, TaskSucceeds, TaskFails, TaskState
  <1>2. MemoryAccounting'
    BY <1>1, SameBlocks
  <1>3. task' \in [Entry -> TaskState]
    BY <1>1 DEF TypeOK
  <1>4. TypeOK'
    BY <1>1, <1>3 DEF TypeOK
  <1>5. ReaderPlaced'
    BY <1>1 DEF ReaderPlaced, Active
  <1> QED
    BY <1>2, <1>4, <1>5

\* Reader <<e, k>> starts opening at the first block of its entry.
LEMMA StartReader ==
  ASSUME TypeOK, ReaderPlaced, NEW e \in Entry, NEW k \in Nat, <<e, k>> \in Reader,
         phase' = [phase EXCEPT ![<<e, k>>] = "Opening"],
         pos' = [pos EXCEPT ![<<e, k>>] = FirstBlock[e]],
         NEW s,
         \/ at' = [at EXCEPT ![<<e, k>>] = "Check"]
         \/ at' = [Woken(s) EXCEPT ![<<e, k>>] = "Check"]
  PROVE  /\ at' \in [Proc -> Place] /\ pos' \in [Proc -> Block]
         /\ phase' \in [Reader -> Phase] /\ ReaderPlaced'
  <1> DEFINE r == <<e, k>>
  <1>1. r \in Reader /\ r \in Proc /\ r[1] = e /\ FirstBlock[e] \in Span(r[1])
    BY ProcFacts, SpanFacts
  <1>2. FirstBlock[e] \in Block
    BY EntriesAssumption
  <1>3. /\ at \in [Proc -> Place] /\ Woken(s) \in [Proc -> Place]
        /\ \A o \in Reader : Woken(s)[o] # "None" => at[o] # "None"
    BY WokenType, ProcFacts DEF TypeOK, Woken
  <1> HIDE DEF r
  <1>4. /\ at' \in [Proc -> Place]
        /\ \A o \in Reader : o # r => (at'[o] # "None" => at[o] # "None")
    BY <1>1, <1>3, ProcFacts DEF Place, r
  <1>5. pos' \in [Proc -> Block] /\ phase' \in [Reader -> Phase]
    BY <1>1, <1>2 DEF TypeOK, Phase, r
  <1>6. /\ pos'[r] \in Span(r[1]) /\ phase'[r] = "Opening"
        /\ \A o \in Reader : o # r => pos'[o] = pos[o] /\ phase'[o] = phase[o]
    BY <1>1, ProcFacts DEF TypeOK, r
  <1> QED
    BY <1>4, <1>5, <1>6 DEF ReaderPlaced, Active

\* add_replay_claims, or no change at all, keeps the types of the slots and
\* the totals: only a slot that holds nothing becomes pending again.
LEMMA ReplayClaims ==
  ASSUME TypeOK, MemoryAccounting, NEW e \in Entry,
         \/ AddReplayClaims(e)
         \/ UNCHANGED <<remaining, replayPriority, status>>,
         UNCHANGED <<permit, committed, resident, available>>
  PROVE  /\ remaining' \in [Block -> Nat] /\ replayPriority' \in [Block -> BOOLEAN]
         /\ status' \in [Block -> Status] /\ MemoryAccounting'
  <1>1. /\ remaining' \in [Block -> Nat] /\ replayPriority' \in [Block -> BOOLEAN]
        /\ status' \in [Block -> Status]
    <2>1. CASE UNCHANGED <<remaining, replayPriority, status>>
      BY <2>1 DEF TypeOK
    <2>2. CASE ~ UNCHANGED <<remaining, replayPriority, status>>
      <3>1. /\ remaining' = [b \in Block |-> IF b \in Span(e) THEN remaining[b] + 1
                                             ELSE remaining[b]]
            /\ replayPriority' = [b \in Block |-> replayPriority[b] \/ b \in Span(e)]
            /\ status' = [b \in Block |->
                            IF b \in Span(e) /\ status[b] \in {"Released", "Failed"}
                            THEN "Pending" ELSE status[b]]
        BY <2>2 DEF AddReplayClaims
      <3>2. remaining' \in [Block -> Nat]
        BY <3>1 DEF TypeOK
      <3>3. replayPriority' \in [Block -> BOOLEAN]
        BY <3>1, Zenon DEF TypeOK
      <3>4. status' \in [Block -> Status]
        BY <3>1 DEF TypeOK, Status
      <3> QED
        BY <3>2, <3>3, <3>4
    <2> QED
      BY <2>1, <2>2
  <1>2. /\ status \in [Block -> Status]
        /\ \A b \in Block : status'[b] = status[b]
              \/ (status[b] \in {"Released", "Failed"} /\ status'[b] = "Pending")
    <2>1. \/ status' = status
          \/ status' = [b \in Block |->
                          IF b \in Span(e) /\ status[b] \in {"Released", "Failed"}
                          THEN "Pending" ELSE status[b]]
      BY DEF AddReplayClaims
    <2>2. status \in [Block -> Status]
      BY DEF TypeOK
    <2>3. CASE status' = status
      BY <2>2, <2>3
    <2>4. CASE status' = [b \in Block |->
                            IF b \in Span(e) /\ status[b] \in {"Released", "Failed"}
                            THEN "Pending" ELSE status[b]]
      BY <1>1, <2>2, <2>4
    <2> QED
      BY <2>1, <2>3, <2>4
  <1>3. Committed' = Committed /\ Held' = Held /\ Resident' = Resident
    BY <1>1, <1>2 DEF Committed, Held, Resident
  <1> QED
    BY <1>1, <1>3, KeepTotals

\* A reader starts: it takes up retained claims or adds its own.
LEMMA StartBodyIInv ==
  ASSUME IInv, NEW e \in Entry, StartBody(e)
  PROVE  IInv'
  <1> USE DEF IInv, slotVars, sumVars, budgetVars, readerVars, schedVars, taskVars
  <1> DEFINE k == attempt[e] + 1
  <1>1. k \in Nat /\ 1 <= k /\ k <= MaxAttempts[e] /\ MaxAttempts \in [Entry -> Nat]
    <2>1. MaxAttempts \in [Entry -> Nat] /\ attempt[e] \in Nat
      BY EntriesAssumption DEF TypeOK
    <2>2. MaxAttempts[e] \in Nat /\ attempt[e] < MaxAttempts[e]
      BY <2>1 DEF StartBody
    <2> QED
      BY <2>1, <2>2
  <1>2. <<e, k>> \in Reader
    BY <1>1, ProcFacts
  <1>3. /\ phase' = [phase EXCEPT ![<<e, k>>] = "Opening"]
        /\ pos' = [pos EXCEPT ![<<e, k>>] = FirstBlock[e]]
        /\ \/ at' = [at EXCEPT ![<<e, k>>] = "Check"]
           \/ at' = [Woken(IF failure THEN {} ELSE {"notify"})
                       EXCEPT ![<<e, k>>] = "Check"]
    BY DEF StartBody
  <1> HIDE DEF k
  <1>4. /\ at' \in [Proc -> Place] /\ pos' \in [Proc -> Block]
        /\ phase' \in [Reader -> Phase] /\ ReaderPlaced'
    BY <1>1, <1>2, <1>3, StartReader
  <1>5. /\ UNCHANGED <<live, permit, restore, sumVars, budgetVars, outcome, schedVars>>
        /\ \/ AddReplayClaims(e)
           \/ UNCHANGED <<remaining, replayPriority, status>>
    BY DEF StartBody
  <1>6. /\ remaining' \in [Block -> Nat] /\ replayPriority' \in [Block -> BOOLEAN]
        /\ status' \in [Block -> Status] /\ MemoryAccounting'
    BY <1>5, ReplayClaims
  <1>7. /\ task' \in [Entry -> TaskState] /\ attempt' \in [Entry -> Nat]
        /\ \A f \in Entry : attempt'[f] <= MaxAttempts[f]
        /\ retained' \in [Entry -> BOOLEAN]
    <2>1. /\ task' = [task EXCEPT ![e] = "Running"] /\ attempt' = [attempt EXCEPT ![e] = k]
          /\ retained' = [retained EXCEPT ![e] = FALSE]
      BY DEF StartBody, k
    <2> QED
      BY <1>1, <2>1 DEF TypeOK, TaskState
  <1>8. TypeOK'
    BY <1>4, <1>5, <1>6, <1>7 DEF TypeOK
  <1> QED
    BY <1>4, <1>6, <1>8

\* The comparison pass retains the entry's blocks for the PUT body.
LEMMA RetainForReplayIInv ==
  ASSUME IInv, NEW e \in Entry, RetainForReplay(e)
  PROVE  IInv'
  <1> USE DEF IInv, slotVars, sumVars, budgetVars, readerVars, schedVars, taskVars
  <1>1. /\ AddReplayClaims(e)
        /\ at' = Woken(IF failure THEN {} ELSE {"notify"})
        /\ UNCHANGED <<live, permit, restore, sumVars, budgetVars, readerVars,
                       schedVars, attempt>>
        /\ task' = [task EXCEPT ![e] = "Between"]
        /\ retained' = [retained EXCEPT ![e] = TRUE]
    BY DEF RetainForReplay
  <1>2. /\ remaining' \in [Block -> Nat] /\ replayPriority' \in [Block -> BOOLEAN]
        /\ status' \in [Block -> Status] /\ MemoryAccounting'
    BY <1>1, ReplayClaims
  <1>3. /\ at' \in [Proc -> Place]
        /\ \A o \in Reader : at'[o] # "None" => at[o] # "None"
    <2>1. ASSUME NEW s, at' = Woken(s)
          PROVE  /\ at' \in [Proc -> Place]
                 /\ \A o \in Reader : at'[o] # "None" => at[o] # "None"
      BY <2>1, WokenType, ProcFacts DEF TypeOK, Woken
    <2> QED
      BY <1>1, <2>1
  <1>4. task' \in [Entry -> TaskState] /\ retained' \in [Entry -> BOOLEAN]
    BY <1>1 DEF TypeOK, TaskState
  <1>5. TypeOK'
    BY <1>1, <1>2, <1>3, <1>4 DEF TypeOK
  <1>6. ReaderPlaced'
    BY <1>1, <1>3 DEF ReaderPlaced, Active
  <1> QED
    BY <1>2, <1>5, <1>6

LEMMA AbortReaderIInv ==
  ASSUME IInv, NEW r \in Reader, AbortReader(r)
  PROVE  IInv'
  <1> USE DEF IInv, slotVars, sumVars, budgetVars, readerVars, schedVars, taskVars
  <1>1. r \in Proc /\ pos[r] \in Block /\ "None" \in Place /\ Leave(queue, r) \in Seq(Proc)
    BY ProcFacts, LeaveType DEF TypeOK, Place
  <1>2. /\ Active(r)
        /\ phase' = [phase EXCEPT ![r] = DropPhase(r)]
        /\ outcome' = [outcome EXCEPT ![r] = "Aborted"]
        /\ UNCHANGED <<remaining, live, failure, pos, schedVars, taskVars>>
    BY DEF AbortReader, Orphaned
  <1>3. /\ MemoryAccounting' /\ committed' \in Nat /\ resident' \in Nat
        /\ available' \in Nat /\ queue' \in Seq(Proc)
        /\ permit' \in [Block -> BOOLEAN] /\ status' \in [Block -> Status]
        /\ restore' \in [Block -> BOOLEAN] /\ replayPriority' \in [Block -> BOOLEAN]
        /\ \/ at' = [at EXCEPT ![r] = "None"]
           \/ \E s : at' = [Woken(s) EXCEPT ![r] = "None"]
    <2>1. CASE at[r] \in {"Permit", "Fetch", "Get"}
      <3>1. RollbackFetch(pos[r], r, "None", Leave(queue, r))
        BY <2>1 DEF AbortReader
      <3> QED
        BY <1>1, <3>1, RollbackTotals
    <2>2. CASE at[r] \notin {"Permit", "Fetch", "Get"}
      <3>1. /\ at' = [at EXCEPT ![r] = "None"]
            /\ UNCHANGED <<replayPriority, permit, status, restore, committed,
                           resident, budgetVars>>
        BY <2>2 DEF AbortReader
      <3> QED
        BY <3>1, SameBlocks DEF TypeOK
    <2> QED
      BY <2>1, <2>2
  <1>4. /\ at' \in [Proc -> Place] /\ at'[r] = "None"
        /\ \A o \in Reader : at'[o] # "None" => at[o] # "None" /\ o # r
    <2>1. at \in [Proc -> Place] /\ \A s : Woken(s) \in [Proc -> Place]
      BY WokenType DEF TypeOK
    <2>2. \A s : \A o \in Reader : Woken(s)[o] # "None" => at[o] # "None"
      BY ProcFacts DEF Woken
    <2> QED
      BY <1>1, <1>3, <2>1, <2>2, ProcFacts
  <1>5. phase' \in [Reader -> Phase] /\ outcome' \in [Reader -> Outcome]
    BY <1>2 DEF TypeOK, Phase, Outcome, DropPhase
  <1>6. TypeOK'
    BY <1>2, <1>3, <1>4, <1>5 DEF TypeOK
  <1>7. ReaderPlaced'
    BY <1>2, <1>4 DEF ReaderPlaced, Active, TypeOK
  <1> QED
    BY <1>3, <1>6, <1>7

LEMMA CancelIInv ==
  ASSUME IInv, Cancel
  PROVE  IInv'
  <1> USE DEF IInv, slotVars, sumVars, budgetVars, readerVars, schedVars, taskVars
  <1>1. /\ failure' = TRUE /\ committed' = 0 /\ resident' = 0
        /\ permit' = [b \in Block |-> FALSE]
        /\ available' = available + Weight(Held)
        /\ status' = [b \in Block |-> IF status[b] = "Released" THEN "Released"
                                      ELSE "Failed"]
        /\ at' = Woken({"notify", "capacity"})
        /\ UNCHANGED <<remaining, live, replayPriority, restore, queue, readerVars,
                       schedVars, taskVars>>
    BY DEF Cancel, Held
  <1>2. /\ status' \in [Block -> Status] /\ permit' \in [Block -> BOOLEAN]
        /\ Committed' = {} /\ Resident' = {} /\ Held' = {}
    BY <1>1 DEF Committed, Resident, Held, Status
  <1>3. available + Weight(Held) = BudgetBytes /\ BudgetBytes \in Nat /\ Weight({}) = 0
    BY WeightSingle, SizesAssumption DEF MemoryAccounting
  <1>4. MemoryAccounting'
    BY <1>1, <1>2, <1>3 DEF MemoryAccounting
  <1>5. /\ at' \in [Proc -> Place]
        /\ \A o \in Reader : at'[o] # "None" => at[o] # "None"
    BY <1>1, WokenType, ProcFacts DEF TypeOK, Woken
  <1>6. TypeOK'
    BY <1>1, <1>2, <1>3, <1>5 DEF TypeOK
  <1>7. ReaderPlaced'
    BY <1>1, <1>5 DEF ReaderPlaced, Active
  <1> QED
    BY <1>4, <1>6, <1>7

-----------------------------------------------------------------------------
(* The prefetching scheduler *)

LEMMA SchedulerIInv ==
  ASSUME IInv, StartScheduler \/ PrefetchNext \/ PrefetchAwait
                 \/ \E b \in Block : PrefetchGet(b)
  PROVE  IInv'
  <1> USE DEF IInv, slotVars, sumVars, budgetVars, readerVars, schedVars, taskVars
  <1>1. CASE StartScheduler \/ PrefetchAwait
    <2>1. /\ UNCHANGED <<slotVars, sumVars, budgetVars, readerVars, schedVars, taskVars>>
          /\ \E to \in Place : at' = [at EXCEPT ![Scheduler] = to]
      BY <1>1 DEF StartScheduler, PrefetchAwait, Place
    <2>2. MemoryAccounting'
      BY <2>1, SameBlocks
    <2>3. at' \in [Proc -> Place] /\ \A r \in Reader : at'[r] = at[r]
      BY <2>1, ProcFacts DEF TypeOK
    <2>4. TypeOK'
      BY <2>1, <2>3 DEF TypeOK
    <2>5. ReaderPlaced'
      BY <2>1, <2>3 DEF ReaderPlaced, Active
    <2> QED
      BY <2>2, <2>4, <2>5
  <1>2. CASE PrefetchNext
    <2>1. /\ pos' = [pos EXCEPT ![Scheduler] = nextIndex]
          /\ nextIndex' = nextIndex + 1 /\ nextIndex <= NumBlocks
          /\ at' = [at EXCEPT ![Scheduler] = "Reserve"]
          /\ UNCHANGED <<slotVars, sumVars, budgetVars, phase, outcome, prefetch, taskVars>>
      BY <1>2 DEF PrefetchNext, MorePrefetch
    <2>2. MemoryAccounting'
      BY <2>1, SameBlocks
    <2>3. nextIndex \in Block /\ nextIndex' \in 1 .. NumBlocks + 1
      BY <2>1, SizesAssumption DEF TypeOK, Block
    <2>4. /\ at' \in [Proc -> Place] /\ pos' \in [Proc -> Block]
          /\ \A r \in Reader : at'[r] = at[r] /\ pos'[r] = pos[r]
      BY <2>1, <2>3, ProcFacts DEF TypeOK, Place
    <2>5. TypeOK'
      BY <2>1, <2>3, <2>4 DEF TypeOK
    <2>6. ReaderPlaced'
      BY <2>1, <2>4 DEF ReaderPlaced, Active
    <2> QED
      BY <2>2, <2>5, <2>6
  <1>3. CASE \E b \in Block : PrefetchGet(b)
    <2>1. PICK b \in Block : PrefetchGet(b)
      BY <1>3
    <2>2. /\ prefetch' = [prefetch EXCEPT ![b] = "Getting"]
          /\ UNCHANGED <<slotVars, sumVars, budgetVars, at, readerVars, nextIndex, taskVars>>
      BY <2>1 DEF PrefetchGet
    <2>3. MemoryAccounting'
      BY <2>2, SameBlocks
    <2>4. TypeOK'
      BY <2>2 DEF TypeOK
    <2>5. ReaderPlaced'
      BY <2>2 DEF ReaderPlaced, Active
    <2> QED
      BY <2>3, <2>4, <2>5
  <1> QED
    BY <1>1, <1>2, <1>3

\* The prefetch futures that end or are dropped, and the aborted scheduler.
LEMMA PrefetchEndIInv ==
  ASSUME IInv, NEW b \in Block,
         DropPrefetch(b) \/ \E ok \in BOOLEAN : PrefetchDone(b, ok)
  PROVE  IInv'
  <1> USE DEF IInv, slotVars, sumVars, budgetVars, readerVars, schedVars, taskVars
  <1>1. /\ Scheduler \in Proc /\ at[Scheduler] # "None"
        /\ prefetch' = [prefetch EXCEPT ![b] = "None"]
        /\ UNCHANGED <<remaining, live, failure, readerVars, nextIndex, taskVars>>
    BY ProcFacts DEF DropPrefetch, PrefetchDone
  <1>2. CASE DropPrefetch(b)
    <2>1. /\ RollbackFetch(b, Scheduler, "Stopped", queue)
          /\ "Stopped" \in Place /\ queue \in Seq(Proc)
      BY <1>2 DEF DropPrefetch, Place, TypeOK
    <2>2. /\ MemoryAccounting' /\ committed' \in Nat /\ resident' \in Nat
          /\ available' \in Nat /\ queue' \in Seq(Proc)
          /\ permit' \in [Block -> BOOLEAN] /\ status' \in [Block -> Status]
          /\ restore' \in [Block -> BOOLEAN] /\ replayPriority' \in [Block -> BOOLEAN]
          /\ \/ at' = [at EXCEPT ![Scheduler] = "Stopped"]
             \/ \E s : at' = [Woken(s) EXCEPT ![Scheduler] = "Stopped"]
      BY <1>1, <2>1, RollbackTotals
    <2>3. at' \in [Proc -> Place] /\ ReaderPlaced'
      BY <1>1, <2>1, <2>2, StayPlaced
    <2>4. TypeOK'
      BY <1>1, <2>2, <2>3 DEF TypeOK
    <2> QED
      BY <2>2, <2>3, <2>4
  <1>3. CASE \E ok \in BOOLEAN : PrefetchDone(b, ok)
    <2>1. PICK ok \in BOOLEAN : PrefetchDone(b, ok)
      BY <1>3
    <2>2. /\ FinishFetch(b, ok, Scheduler, "Next") /\ "Next" \in Place
          /\ UNCHANGED <<replayPriority, queue>>
      BY <2>1 DEF PrefetchDone, Place
    <2>3. /\ MemoryAccounting' /\ committed' \in Nat /\ resident' \in Nat
          /\ available' \in Nat
          /\ permit' \in [Block -> BOOLEAN] /\ status' \in [Block -> Status]
          /\ restore' \in [Block -> BOOLEAN]
          /\ \/ at' = [at EXCEPT ![Scheduler] = "Next"]
             \/ \E s : at' = [Woken(s) EXCEPT ![Scheduler] = "Next"]
      BY <1>1, <2>2, FinishFetchTotals
    <2>4. at' \in [Proc -> Place] /\ ReaderPlaced'
      BY <1>1, <2>2, <2>3, StayPlaced
    <2>5. TypeOK'
      BY <1>1, <2>2, <2>3, <2>4 DEF TypeOK
    <2> QED
      BY <2>3, <2>4, <2>5
  <1> QED
    BY <1>2, <1>3

LEMMA AbortSchedulerIInv ==
  ASSUME IInv, AbortScheduler
  PROVE  IInv'
  <1> USE DEF IInv, slotVars, sumVars, budgetVars, readerVars, schedVars, taskVars
  <1>1. /\ Scheduler \in Proc /\ at[Scheduler] # "None" /\ "Stopped" \in Place
        /\ pos[Scheduler] \in Block /\ Leave(queue, Scheduler) \in Seq(Proc)
        /\ UNCHANGED <<remaining, live, failure, readerVars, schedVars, taskVars>>
    BY ProcFacts, LeaveType DEF AbortScheduler, Place, TypeOK
  <1>2. /\ MemoryAccounting' /\ committed' \in Nat /\ resident' \in Nat
        /\ available' \in Nat /\ queue' \in Seq(Proc)
        /\ permit' \in [Block -> BOOLEAN] /\ status' \in [Block -> Status]
        /\ restore' \in [Block -> BOOLEAN] /\ replayPriority' \in [Block -> BOOLEAN]
        /\ \/ at' = [at EXCEPT ![Scheduler] = "Stopped"]
           \/ \E s : at' = [Woken(s) EXCEPT ![Scheduler] = "Stopped"]
    <2>1. CASE at[Scheduler] = "Permit"
      <3>1. RollbackFetch(pos[Scheduler], Scheduler, "Stopped", Leave(queue, Scheduler))
        BY <2>1 DEF AbortScheduler
      <3> QED
        BY <1>1, <3>1, RollbackTotals
    <2>2. CASE at[Scheduler] # "Permit"
      <3>1. /\ at' = [at EXCEPT ![Scheduler] = "Stopped"]
            /\ UNCHANGED <<replayPriority, permit, status, restore, committed,
                           resident, budgetVars>>
        BY <2>2 DEF AbortScheduler
      <3> QED
        BY <3>1, SameBlocks DEF TypeOK
    <2> QED
      BY <2>1, <2>2
  <1>3. at' \in [Proc -> Place] /\ ReaderPlaced'
    BY <1>1, <1>2, StayPlaced
  <1>4. TypeOK'
    BY <1>1, <1>2, <1>3 DEF TypeOK
  <1> QED
    BY <1>2, <1>3, <1>4

-----------------------------------------------------------------------------
(* The theorems *)

LEMMA InitIInv == Init => IInv
  <1> SUFFICES ASSUME Init PROVE IInv
    OBVIOUS
  <1>1. /\ \A b \in Block : Cardinality({e \in Entry : b \in Span(e)}) \in Nat
        /\ 1 \in Block /\ Weight({}) = 0
    <2>1. IsFiniteSet(Entry)
      BY SizesAssumption, FS_Interval DEF Entry
    <2>2. \A b \in Block : IsFiniteSet({e \in Entry : b \in Span(e)})
      BY <2>1, FS_Subset
    <2> QED
      BY <2>2, FS_CardinalityType, WeightSingle, SizesAssumption DEF Block
  <1>2. TypeOK
    <2>1. \A e \in Entry : MaxAttempts[e] \in Nat
      BY EntriesAssumption
    <2>2. /\ remaining \in [Block -> Nat] /\ live \in [Block -> Nat]
          /\ replayPriority \in [Block -> BOOLEAN] /\ permit \in [Block -> BOOLEAN]
          /\ status \in [Block -> Status] /\ restore \in [Block -> BOOLEAN]
      <3>1. remaining = [b \in Block |-> Cardinality({e \in Entry : b \in Span(e)})]
        BY DEF Init
      <3>2. remaining \in [Block -> Nat]
        BY <1>1, <3>1
      <3>3. /\ live \in [Block -> Nat] /\ status \in [Block -> Status]
            /\ replayPriority \in [Block -> BOOLEAN] /\ permit \in [Block -> BOOLEAN]
            /\ restore \in [Block -> BOOLEAN]
        BY DEF Init, Status
      <3> QED
        BY <3>2, <3>3
    <2>3. /\ committed \in Nat /\ resident \in Nat /\ failure \in BOOLEAN
          /\ available \in Nat /\ queue \in Seq(Proc)
          /\ nextIndex \in 1 .. NumBlocks + 1
      <3>1. nextIndex = 1 /\ NumBlocks \in Nat /\ NumBlocks # 0
        BY SizesAssumption DEF Init
      <3>2. nextIndex \in 1 .. NumBlocks + 1
        BY <3>1
      <3>3. queue = <<>> /\ <<>> \in Seq(Proc)
        BY DEF Init
      <3>4. /\ committed \in Nat /\ resident \in Nat /\ failure \in BOOLEAN
            /\ available \in Nat
        BY SizesAssumption DEF Init
      <3> QED
        BY <3>2, <3>3, <3>4
    <2>4. /\ at \in [Proc -> Place] /\ pos \in [Proc -> Block]
          /\ phase \in [Reader -> Phase] /\ outcome \in [Reader -> Outcome]
      BY <1>1 DEF Init, Place, Phase, Outcome
    <2>5. /\ prefetch \in [Block -> {"None", "Pushed", "Getting"}]
          /\ task \in [Entry -> TaskState] /\ retained \in [Entry -> BOOLEAN]
      BY DEF Init, TaskState
    <2>6. attempt \in [Entry -> Nat] /\ \A e \in Entry : attempt[e] <= MaxAttempts[e]
      BY <2>1 DEF Init
    <2> QED
      BY <2>2, <2>3, <2>4, <2>5, <2>6 DEF TypeOK
  <1>3. ReaderPlaced
    BY ProcFacts DEF Init, ReaderPlaced
  <1>4. MemoryAccounting
    <2>1. Committed = {} /\ Resident = {} /\ Held = {}
      BY DEF Init, Committed, Resident, Held
    <2> QED
      BY <1>1, <2>1, SizesAssumption DEF Init, MemoryAccounting
  <1> QED
    BY <1>2, <1>3, <1>4 DEF IInv

LEMMA StutterIInv ==
  ASSUME IInv, UNCHANGED vars
  PROVE  IInv'
  <1> USE DEF vars, slotVars, sumVars, budgetVars, readerVars, schedVars, taskVars
  <1>1. TypeOK'
    BY DEF IInv, TypeOK
  <1>2. MemoryAccounting'
    BY SameBlocks DEF IInv
  <1>3. ReaderPlaced'
    BY DEF IInv, ReaderPlaced, Active
  <1> QED
    BY <1>1, <1>2, <1>3 DEF IInv

LEMMA NextIInv == IInv /\ [Next]_vars => IInv'
  <1> SUFFICES ASSUME IInv, [Next]_vars PROVE IInv'
    OBVIOUS
  <1>1. ASSUME NEW p \in Proc, Reserve(p) PROVE IInv'
    BY <1>1, ReserveQuietIInv, ReserveCommitIInv, PermitTakenIInv,
       PermitUnneededIInv, PermitCancelledIInv DEF Reserve
  <1>2. ASSUME NEW r \in Reader, ReaderStep(r) PROVE IInv'
    BY <1>2, SliceIInv, ActivateIInv, PassBlockIInv, DropClaimIInv DEF ReaderStep
  <1>3. ASSUME NEW r \in Reader, AbortReader(r) PROVE IInv'
    BY <1>3, AbortReaderIInv
  <1>4. ASSUME NEW r \in Reader, DemandGet(r) \/ \E ok \in BOOLEAN : DemandDone(r, ok)
        PROVE IInv'
    BY <1>4, DemandIInv
  <1>5. ASSUME NEW e \in Entry, TaskStep(e) PROVE IInv'
    BY <1>5, TaskOnlyIInv, StartBodyIInv, RetainForReplayIInv DEF TaskStep
  <1>6. CASE SchedulerStep \/ \E b \in Block : PrefetchGet(b)
    BY <1>6, SchedulerIInv, AbortSchedulerIInv DEF SchedulerStep
  <1>7. ASSUME NEW b \in Block, DropPrefetch(b) \/ \E ok \in BOOLEAN : PrefetchDone(b, ok)
        PROVE IInv'
    BY <1>7, PrefetchEndIInv
  <1>8. CASE Cancel
    BY <1>8, CancelIInv
  <1>9. CASE Terminated \/ UNCHANGED vars
    BY <1>9, StutterIInv DEF Terminated
  <1> QED
    BY <1>1, <1>2, <1>3, <1>4, <1>5, <1>6, <1>7, <1>8, <1>9 DEF Next

\* The inductive invariant: types, readers within their spans, exact totals.
THEOREM Inductive == Spec => []IInv
  BY InitIInv, NextIInv, PTL DEF Spec

\* Every variable of the block store keeps its type, for every archive: in
\* particular live_claims never goes below zero and no reader runs past the
\* last block of its entry.
THEOREM TypeCorrect == Spec => []TypeOK
  <1>1. IInv => TypeOK
    BY DEF IInv
  <1> QED
    BY <1>1, Inductive, PTL

\* No sequence of commits, completions, rollbacks, releases, replays and
\* cancellation leaks a permit or returns one twice, and the saturating
\* subtractions of the totals are always exact.
THEOREM MemoryIsAccounted == Spec => []MemoryAccounting
  <1>1. IInv => MemoryAccounting
    BY DEF IInv
  <1> QED
    BY <1>1, Inductive, PTL

\* The bytes of the resident blocks never exceed the invocation-global budget
\* (SourceByteBudget), even when replayed blocks go beyond the local window.
THEOREM BudgetBound == Spec => [](resident <= BudgetBytes)
  <1>1. IInv => resident <= BudgetBytes
    <2>1. ASSUME IInv PROVE resident <= BudgetBytes
      <3>1. /\ resident = Weight(Held) /\ Weight(Held) \in Nat
            /\ available + Weight(Held) = BudgetBytes /\ available \in Nat
        BY <2>1, TotalsType DEF IInv, MemoryAccounting, TypeOK
      <3> QED
        BY <3>1
    <2> QED
      BY <2>1
  <1> QED
    BY <1>1, Inductive, PTL

-----------------------------------------------------------------------------
(* Claims, owners, waiters and the queue: the inductive invariant *)

\* The readers of an entry start one after the other, at its first block.
Started      == \A r \in Reader : phase[r] = "Idle" <=> r[2] > attempt[r[1]]
OpensAtFirst == \A r \in Reader : phase[r] = "Opening" => pos[r] = FirstBlock[r[1]]

\* A running task has had its retained claims taken up.
TakenUp == \A e \in Entry : task[e] \in {"Running", "Done"} => ~retained[e]

LifeInv == Started /\ OpensAtFirst /\ TakenUp

\* A block that is reserved or fetched is so by exactly one process.
ReservedBy(p, b) == at[p] = "Permit" /\ pos[p] = b
FetchedBy(p, b) ==
  IF p = Scheduler THEN prefetch[b] # "None" ELSE at[p] \in {"Fetch", "Get"} /\ pos[p] = b

Owned(b) ==
  /\ status[b] = "Reserving" <=> \E p \in Proc : ReservedBy(p, b)
  /\ status[b] = "Fetching" <=> \E p \in Proc : FetchedBy(p, b)
  /\ \A p, q \in Proc : ReservedBy(p, b) /\ ReservedBy(q, b) => p = q
  /\ \A p, q \in Proc : FetchedBy(p, b) /\ FetchedBy(q, b) => p = q

Owners == ~failure => \A b \in Block : Owned(b)

\* The semaphore's queue holds the waiting reservations, each once.
Queued ==
  /\ \A p \in Proc : at[p] = "Permit" <=> \E i \in DOMAIN queue : queue[i] = p
  /\ \A i, j \in DOMAIN queue : queue[i] = queue[j] => i = j

\* A ready block is needed, and cancel() leaves no block to wait for or to free.
ReadyNeeded == ~failure => \A b \in Block : status[b] = "Ready" => remaining[b] > 0
Cancelled   == failure => \A b \in Block : status[b] \in {"Released", "Failed"}

-----------------------------------------------------------------------------
(* Steps that leave the claims alone *)

LEMMA ReaderPair == \A r \in Reader : r = <<r[1], r[2]>> /\ r # Scheduler
  BY ProcFacts, EntriesAssumption DEF Reader

\* Readers stay where they are, or start to give back what they hold.
ReadersKeep ==
  \A r \in Reader :
    /\ pos'[r] = pos[r]
    /\ phase'[r] = phase[r] \/ (Active(r) /\ phase'[r] = DropPhase(r))

ClaimsKeep == ReadersKeep /\ UNCHANGED <<remaining, live, attempt, retained, task>>

\* The steps of the fetching code, of the scheduler and of error paths.
QuietStep ==
  \/ \E p \in Proc : Reserve(p)
  \/ \E r \in Reader : \/ SliceReady(r) \/ SliceWait(r) \/ SliceDemand(r) \/ SliceError(r)
                       \/ ActivateError(r) \/ AbortReader(r) \/ DemandGet(r)
  \/ \E r \in Reader, ok \in BOOLEAN : DemandDone(r, ok)
  \/ SchedulerStep
  \/ \E b \in Block : PrefetchGet(b) \/ DropPrefetch(b)
  \/ \E b \in Block, ok \in BOOLEAN : PrefetchDone(b, ok)
  \/ Cancel \/ UNCHANGED vars

LEMMA ReturnErrKeeps ==
  ASSUME TypeOK, ReaderPlaced, NEW p \in Proc, NEW w, ReturnErr(p, w),
         at[p] # "None", UNCHANGED pos
  PROVE  ReadersKeep
  <1>1. CASE p = Scheduler
    BY <1>1 DEF ReturnErr, ReadersKeep
  <1>2. CASE p # Scheduler
    <2>1. p \in Reader /\ Active(p)
      BY <1>2 DEF Proc, ReaderPlaced
    <2> QED
      BY <1>2, <2>1 DEF ReturnErr, ReadersKeep, TypeOK
  <1> QED
    BY <1>1, <1>2

LEMMA QuietKeeps ==
  ASSUME IInv, QuietStep
  PROVE  ClaimsKeep
  <1> USE DEF slotVars, sumVars, budgetVars, readerVars, schedVars, taskVars
  <1>0. TypeOK /\ ReaderPlaced
    BY DEF IInv
  <1>1. ASSUME NEW p \in Proc, Reserve(p) PROVE ClaimsKeep
    <2>1. CASE ReserveFailed(p) \/ PermitCancelled(p)
      BY <1>0, <2>1, ReturnErrKeeps DEF ReserveFailed, PermitCancelled, ClaimsKeep
    <2>2. CASE ReserveNone(p) \/ ReserveCommit(p) \/ ReserveWait(p)
      BY <2>2 DEF ReserveNone, ReserveCommit, ReserveWait, ClaimsKeep, ReadersKeep
    <2>3. CASE PermitTaken(p) \/ PermitUnneeded(p)
      BY <2>3 DEF PermitTaken, PermitUnneeded, ClaimsKeep, ReadersKeep
    <2> QED
      BY <1>1, <2>1, <2>2, <2>3 DEF Reserve
  <1>2. ASSUME NEW r \in Reader, SliceError(r) \/ ActivateError(r) PROVE ClaimsKeep
    <2>1. r \in Proc
      BY DEF Proc
    <2> QED
      BY <1>0, <1>2, <2>1, ReturnErrKeeps DEF SliceError, ActivateError, ClaimsKeep
  <1>3. ASSUME NEW r \in Reader, SliceReady(r) \/ SliceWait(r) \/ SliceDemand(r) \/ DemandGet(r)
        PROVE ClaimsKeep
    BY <1>3 DEF SliceReady, SliceWait, SliceDemand, DemandGet, ClaimsKeep, ReadersKeep
  <1>4. ASSUME NEW r \in Reader, AbortReader(r) PROVE ClaimsKeep
    <2>1. /\ Active(r) /\ UNCHANGED <<remaining, live, pos, task, attempt, retained>>
          /\ phase' = [phase EXCEPT ![r] = DropPhase(r)]
      BY <1>4 DEF AbortReader, Orphaned
    <2>2. phase \in [Reader -> Phase]
      BY <1>0 DEF TypeOK
    <2>3. phase'[r] = DropPhase(r) /\ \A q \in Reader \ {r} : phase'[q] = phase[q]
      BY <2>1, <2>2
    <2>4. ReadersKeep
      BY <2>1, <2>3 DEF ReadersKeep, Active, DropPhase
    <2> QED
      BY <2>1, <2>4 DEF ClaimsKeep
  <1>5. ASSUME NEW r \in Reader, NEW ok \in BOOLEAN, DemandDone(r, ok) PROVE ClaimsKeep
    BY <1>5 DEF DemandDone, ClaimsKeep, ReadersKeep
  <1>6. CASE SchedulerStep
    <2>1. CASE PrefetchNext
      <3>1. \A r \in Reader : pos'[r] = pos[r]
        BY <1>0, <2>1, ReaderPair DEF PrefetchNext, TypeOK, Proc
      <3> QED
        BY <2>1, <3>1 DEF PrefetchNext, ClaimsKeep, ReadersKeep
    <2>2. CASE StartScheduler \/ PrefetchAwait \/ AbortScheduler
      BY <2>2 DEF StartScheduler, PrefetchAwait, AbortScheduler, ClaimsKeep, ReadersKeep
    <2> QED
      BY <1>6, <2>1, <2>2 DEF SchedulerStep
  <1>7. ASSUME NEW b \in Block, PrefetchGet(b) \/ DropPrefetch(b) PROVE ClaimsKeep
    BY <1>7 DEF PrefetchGet, DropPrefetch, ClaimsKeep, ReadersKeep
  <1>8. ASSUME NEW b \in Block, NEW ok \in BOOLEAN, PrefetchDone(b, ok) PROVE ClaimsKeep
    BY <1>8 DEF PrefetchDone, ClaimsKeep, ReadersKeep
  <1>9. CASE Cancel \/ UNCHANGED vars
    BY <1>9 DEF Cancel, vars, ClaimsKeep, ReadersKeep
  <1> QED
    BY <1>1, <1>2, <1>3, <1>4, <1>5, <1>6, <1>7, <1>8, <1>9 DEF QuietStep

-----------------------------------------------------------------------------
(* The life of readers and tasks *)

LEMMA LifeKept ==
  ASSUME IInv, LifeInv, ClaimsKeep
  PROVE  LifeInv'
  BY DEF LifeInv, Started, OpensAtFirst, TakenUp, ClaimsKeep, ReadersKeep, Active, DropPhase

\* A reader opens, passes a block or gives a claim back.
LEMMA LifeReader ==
  ASSUME IInv, LifeInv, NEW r \in Reader,
         ActivateReader(r) \/ ConsumeBlock(r) \/ DropReaderBlock(r) \/ DropClaim(r)
  PROVE  LifeInv'
  <1>1. /\ UNCHANGED taskVars /\ phase[r] # "Idle" /\ phase'[r] \notin {"Idle", "Opening"}
        /\ \A q \in Reader \ {r} : phase'[q] = phase[q] /\ pos'[q] = pos[q]
    <2>1. r \in Proc /\ pos \in [Proc -> Block] /\ phase \in [Reader -> Phase]
      BY DEF Proc, IInv, TypeOK
    <2>2. CASE ActivateReader(r)
      BY <2>1, <2>2 DEF ActivateReader
    <2>3. CASE ConsumeBlock(r)
      BY <2>1, <2>3 DEF ConsumeBlock, NextBlockOr, taskVars, Proc
    <2>4. CASE DropReaderBlock(r)
      BY <2>1, <2>4 DEF DropReaderBlock, NextBlockOr, taskVars, Proc
    <2>5. CASE DropClaim(r)
      BY <2>1, <2>5 DEF DropClaim
    <2> QED
      BY <2>2, <2>3, <2>4, <2>5
  <1> QED
    BY <1>1 DEF LifeInv, Started, OpensAtFirst, TakenUp, taskVars

LEMMA LifeTask ==
  ASSUME IInv, LifeInv, NEW e \in Entry,
         SpawnTask(e) \/ AttemptFails(e) \/ TaskSucceeds(e) \/ TaskFails(e)
  PROVE  LifeInv'
  <1>1. /\ UNCHANGED <<attempt, retained, phase, pos>>
        /\ \A f \in Entry : task'[f] = task[f] \/ task'[f] \in {"Between", "Failed"}
                            \/ task[f] = "Running"
    BY DEF SpawnTask, AttemptFails, TaskSucceeds, TaskFails, readerVars, IInv, TypeOK
  <1> QED
    BY <1>1 DEF LifeInv, Started, OpensAtFirst, TakenUp

LEMMA LifeRetain ==
  ASSUME IInv, LifeInv, NEW e \in Entry, RetainForReplay(e)
  PROVE  LifeInv'
  BY DEF LifeInv, Started, OpensAtFirst, TakenUp, RetainForReplay, readerVars, IInv, TypeOK

LEMMA LifeStart ==
  ASSUME IInv, LifeInv, NEW e \in Entry, StartBody(e)
  PROVE  LifeInv'
  <1> DEFINE r == <<e, attempt[e] + 1>>
  <1>1. /\ attempt \in [Entry -> Nat] /\ phase \in [Reader -> Phase] /\ pos \in [Proc -> Block]
        /\ task \in [Entry -> TaskState] /\ retained \in [Entry -> BOOLEAN]
    BY DEF IInv, TypeOK
  <1>2. r \in Reader
    <2>1. MaxAttempts[e] \in Nat /\ attempt[e] \in Nat /\ attempt[e] < MaxAttempts[e]
      BY <1>1, EntriesAssumption DEF StartBody
    <2>2. attempt[e] + 1 \in Nat /\ 1 <= attempt[e] + 1 /\ attempt[e] + 1 <= MaxAttempts[e]
      BY <2>1
    <2> QED
      BY <2>2, ProcFacts
  <1>3. /\ task' = [task EXCEPT ![e] = "Running"]
        /\ attempt' = [attempt EXCEPT ![e] = attempt[e] + 1]
        /\ retained' = [retained EXCEPT ![e] = FALSE]
        /\ phase' = [phase EXCEPT ![r] = "Opening"]
        /\ pos' = [pos EXCEPT ![r] = FirstBlock[e]]
    BY DEF StartBody
  <1>4. \A q \in Reader : q[1] \in Entry /\ q[2] \in Nat /\ q = <<q[1], q[2]>>
    BY ReaderPair, ProcFacts
  <1>5. r[1] = e /\ r[2] = attempt[e] + 1 /\ r \in Proc
    BY <1>2 DEF Proc
  <1> HIDE DEF r
  <1>6. Started'
    <2> SUFFICES ASSUME NEW q \in Reader
                 PROVE  phase'[q] = "Idle" <=> q[2] > attempt'[q[1]]
      BY DEF Started
    <2>1. phase[q] = "Idle" <=> q[2] > attempt[q[1]]
      BY DEF LifeInv, Started
    <2>2. CASE q = r
      BY <1>1, <1>2, <1>3, <1>5, <2>2
    <2>3. CASE q # r /\ q[1] = e
      <3>1. q[2] # attempt[e] + 1
        BY <1>4, <1>5, <1>2, <2>3
      <3> QED
        BY <1>1, <1>2, <1>3, <1>4, <2>1, <2>3, <3>1
    <2>4. CASE q # r /\ q[1] # e
      BY <1>1, <1>2, <1>3, <1>4, <2>1, <2>4
    <2> QED
      BY <2>2, <2>3, <2>4
  <1>7. OpensAtFirst'
    BY <1>1, <1>2, <1>3, <1>5 DEF LifeInv, OpensAtFirst, Proc
  <1>8. TakenUp'
    BY <1>1, <1>3 DEF LifeInv, TakenUp
  <1> QED
    BY <1>6, <1>7, <1>8 DEF LifeInv

LEMMA LifeInit == Init => LifeInv
  <1>1. \A r \in Reader : r[1] \in Entry /\ r[2] \in Nat /\ r[2] >= 1
    BY ProcFacts, EntriesAssumption DEF Reader
  <1> QED
    BY <1>1 DEF Init, LifeInv, Started, OpensAtFirst, TakenUp

\* The steps that move claims.
MoveStep ==
  \/ \E r \in Reader : ActivateReader(r) \/ ConsumeBlock(r) \/ DropReaderBlock(r) \/ DropClaim(r)
  \/ \E e \in Entry : StartBody(e) \/ RetainForReplay(e)

TaskOnlyStep ==
  \E e \in Entry : SpawnTask(e) \/ AttemptFails(e) \/ TaskSucceeds(e) \/ TaskFails(e)

LEMMA StepKinds == [Next]_vars => QuietStep \/ MoveStep \/ TaskOnlyStep
  BY DEF Next, QuietStep, MoveStep, TaskOnlyStep, ReaderStep, TaskStep, Terminated

LEMMA LifeNext == IInv /\ LifeInv /\ [Next]_vars => LifeInv'
  BY StepKinds, QuietKeeps, LifeKept, LifeReader, LifeTask, LifeRetain, LifeStart
     DEF MoveStep, TaskOnlyStep

-----------------------------------------------------------------------------
(* Claims are counted exactly *)

Claimants(b) == {r \in Reader : HoldsClaim(r, b)}
Users(b)     == {r \in Reader : HoldsLive(r, b)}
Savers(b)    == {e \in Entry : retained[e] /\ b \in Span(e)}

\* ClaimAccounting, block by block.
Counted(b) ==
  /\ remaining[b] = Cardinality(Claimants(b)) + Cardinality(Savers(b))
  /\ live[b] = Cardinality(Users(b))
  /\ status[b] = "Released" => remaining[b] = 0

LEMMA CountedByBlock == ClaimAccounting <=> (~failure => \A b \in Block : Counted(b))
  BY DEF ClaimAccounting, Counted, Claimants, Users, Savers

LEMMA FiniteReaders == IsFiniteSet(Reader) /\ IsFiniteSet(Entry)
  <1>1. IsFiniteSet(Entry)
    BY SizesAssumption, FS_Interval DEF Entry
  <1> DEFINE Attempts == [e \in Entry |-> {e} \X (1 .. MaxAttempts[e])]
             Sets == {Attempts[e] : e \in Entry}
  <1>2. Attempts \in Surjection(Entry, Sets)
    BY DEF Surjection
  <1>3. IsFiniteSet(Sets)
    <2> HIDE DEF Attempts, Sets
    <2> QED BY <1>1, <1>2, FS_Surjection
  <1>4. \A S \in Sets : IsFiniteSet(S)
    <2> SUFFICES ASSUME NEW e \in Entry PROVE IsFiniteSet({e} \X (1 .. MaxAttempts[e]))
      OBVIOUS
    <2>1. IsFiniteSet(1 .. MaxAttempts[e])
      BY EntriesAssumption, FS_Interval
    <2>2. IsFiniteSet({e})
      BY FS_Singleton
    <2> QED BY <2>1, <2>2, FS_Product
  <1>5. Reader = UNION Sets
    BY DEF Reader
  <1> HIDE DEF Sets
  <1> QED BY <1>1, <1>3, <1>4, <1>5, FS_UNION

LEMMA CountTypes ==
  ASSUME NEW b
  PROVE  /\ IsFiniteSet(Claimants(b)) /\ Cardinality(Claimants(b)) \in Nat
         /\ IsFiniteSet(Users(b)) /\ Cardinality(Users(b)) \in Nat
         /\ IsFiniteSet(Savers(b)) /\ Cardinality(Savers(b)) \in Nat
         /\ Users(b) \subseteq Claimants(b)
  <1>1. Claimants(b) \in SUBSET Reader /\ Users(b) \in SUBSET Reader /\ Savers(b) \in SUBSET Entry
    BY DEF Claimants, Users, Savers
  <1>2. Users(b) \subseteq Claimants(b)
    BY DEF Claimants, Users, HoldsLive, HoldsClaim
  <1>3. IsFiniteSet(Claimants(b)) /\ IsFiniteSet(Users(b)) /\ IsFiniteSet(Savers(b))
    BY <1>1, FiniteReaders, FS_Subset
  <1> QED
    BY <1>2, <1>3, FS_CardinalityType

\* A step that moves no claim on b.
LEMMA CountKept ==
  ASSUME NEW b \in Block, Counted(b),
         Claimants(b)' = Claimants(b), Users(b)' = Users(b), Savers(b)' = Savers(b),
         remaining'[b] = remaining[b], live'[b] = live[b],
         status'[b] = "Released" => status[b] = "Released" \/ remaining[b] = 0
  PROVE  Counted(b)'
  BY DEF Counted

\* What the counts say of one reader's claims.
LEMMA OwnClaim ==
  ASSUME NEW b \in Block, Counted(b), NEW r \in Claimants(b)
  PROVE  /\ remaining[b] \in Nat /\ remaining[b] >= 1
         /\ Cardinality(Claimants(b) \ {r}) = Cardinality(Claimants(b)) - 1
         /\ SaturatingSub(remaining[b], 1) = remaining[b] - 1
         /\ \A q \in Claimants(b) : q # r => remaining[b] >= 2
  <1>1. Cardinality(Claimants(b) \ {r}) = Cardinality(Claimants(b)) - 1
    BY CountTypes, FS_RemoveElement
  <1>2. Cardinality(Claimants(b) \ {r}) \in Nat
    BY CountTypes, FS_RemoveElement, FS_CardinalityType
  <1>3. remaining[b] \in Nat /\ remaining[b] >= Cardinality(Claimants(b) \ {r}) + 1
    BY <1>1, <1>2, CountTypes DEF Counted
  <1>4. ASSUME NEW q \in Claimants(b), q # r PROVE remaining[b] >= 2
    <2>1. IsFiniteSet(Claimants(b) \ {r}) /\ q \in Claimants(b) \ {r}
      BY <1>4, CountTypes, FS_RemoveElement
    <2>2. Cardinality(Claimants(b) \ {r}) # 0
      BY <2>1, FS_EmptySet
    <2> QED BY <1>2, <1>3, <2>2
  <1> QED BY <1>1, <1>2, <1>3, <1>4 DEF SaturatingSub

LEMMA OwnUse ==
  ASSUME NEW b \in Block, Counted(b), NEW r \in Users(b)
  PROVE  /\ live[b] \in Nat /\ live[b] >= 1
         /\ Cardinality(Users(b) \ {r}) = live[b] - 1
  <1>1. Cardinality(Users(b) \ {r}) = Cardinality(Users(b)) - 1
    BY CountTypes, FS_RemoveElement
  <1>2. Cardinality(Users(b) \ {r}) \in Nat
    BY CountTypes, FS_RemoveElement, FS_CardinalityType
  <1> QED BY <1>1, <1>2, CountTypes DEF Counted

\* Readers that stay, or start to give back, keep what they hold.
LEMMA HoldersKept ==
  ASSUME ReadersKeep, NEW b
  PROVE  Claimants(b)' = Claimants(b) /\ Users(b)' = Users(b)
  <1>1. ASSUME NEW r \in Reader
        PROVE  /\ HoldsClaim(r, b)' <=> HoldsClaim(r, b)
               /\ HoldsLive(r, b)' <=> HoldsLive(r, b)
    BY DEF ReadersKeep, HoldsClaim, HoldsLive, Active, DropPhase
  <1> QED BY <1>1 DEF Claimants, Users

\* What may happen to a block while no claim on it moves: it is released only
\* if nobody needs it, becomes ready only if somebody does, and stays ready.
StatusMoves(c) ==
  /\ status'[c] = "Released" => status[c] = "Released" \/ remaining[c] = 0
  /\ status[c] = "Ready" => status'[c] = "Ready"
  /\ status'[c] = "Ready" => status[c] = "Ready" \/ remaining[c] > 0 \/ live[c] > 0

LEMMA FinishStatus ==
  ASSUME TypeOK, NEW b \in Block, NEW ok \in BOOLEAN, NEW p, NEW to, FinishFetch(b, ok, p, to),
         NEW c \in Block
  PROVE  StatusMoves(c)
  <1> USE DEF StatusMoves
  <1>1. remaining[b] \in Nat /\ status \in [Block -> Status]
    BY DEF TypeOK
  <1>2. CASE failure \/ status[b] # "Fetching"
    BY <1>2 DEF FinishFetch
  <1>3. CASE ~(failure \/ status[b] # "Fetching") /\ ok /\ (remaining[b] > 0 \/ live[b] > 0)
    BY <1>1, <1>3 DEF FinishFetch
  <1>4. CASE ~(failure \/ status[b] # "Fetching") /\ ~(ok /\ (remaining[b] > 0 \/ live[b] > 0))
    <2>1. status' = [status EXCEPT ![b] = IF ok THEN "Released" ELSE "Failed"]
      BY <1>4 DEF FinishFetch
    <2> QED BY <1>1, <1>4, <2>1
  <1> QED BY <1>2, <1>3, <1>4

LEMMA RollbackStatus ==
  ASSUME TypeOK, NEW b \in Block, NEW p, NEW to, NEW q, RollbackFetch(b, p, to, q),
         NEW c \in Block
  PROVE  StatusMoves(c)
  BY DEF RollbackFetch, TypeOK, StatusMoves

LEMMA QuietStatus ==
  ASSUME IInv, QuietStep, ~failure', NEW c \in Block
  PROVE  StatusMoves(c)
  <1> USE DEF slotVars, sumVars, budgetVars, readerVars, schedVars, taskVars
  <1>0. /\ TypeOK /\ status \in [Block -> Status] /\ remaining \in [Block -> Nat]
        /\ \A p \in Proc : pos[p] \in Block
        /\ Reader \subseteq Proc /\ Scheduler \in Proc
    BY DEF IInv, TypeOK, Proc
  <1>1. ASSUME NEW p \in Proc, Reserve(p) PROVE StatusMoves(c)
    <2>1. CASE ReserveCommit(p)
      <3>1. status' = [status EXCEPT ![pos[p]] = "Reserving"] /\ status[pos[p]] = "Pending"
        BY <2>1 DEF ReserveCommit, Reservable
      <3> QED
        BY <1>0, <3>1 DEF StatusMoves
    <2>2. CASE PermitTaken(p)
      <3>1. status' = [status EXCEPT ![pos[p]] = "Fetching"] /\ status[pos[p]] = "Reserving"
        BY <2>2 DEF PermitTaken
      <3> QED
        BY <1>0, <3>1 DEF StatusMoves
    <2>3. CASE PermitUnneeded(p)
      BY <1>0, <2>3 DEF PermitUnneeded, StatusMoves
    <2>4. CASE ReserveFailed(p) \/ ReserveNone(p) \/ ReserveWait(p) \/ PermitCancelled(p)
      BY <2>4 DEF ReserveFailed, ReserveNone, ReserveWait, PermitCancelled,
         StatusMoves
    <2> QED BY <1>1, <2>1, <2>2, <2>3, <2>4 DEF Reserve
  <1>2. ASSUME NEW r \in Reader,
               \/ SliceReady(r) \/ SliceWait(r) \/ SliceDemand(r) \/ SliceError(r)
               \/ ActivateError(r) \/ DemandGet(r)
        PROVE StatusMoves(c)
    BY <1>2 DEF SliceReady, SliceWait, SliceDemand, SliceError, ActivateError, DemandGet,
       StatusMoves
  <1>3. ASSUME NEW r \in Reader, AbortReader(r) PROVE StatusMoves(c)
    <2>1. CASE at[r] \in {"Permit", "Fetch", "Get"}
      BY <1>0, <1>3, <2>1, RollbackStatus DEF AbortReader
    <2>2. CASE at[r] \notin {"Permit", "Fetch", "Get"}
      BY <1>3, <2>2 DEF AbortReader, StatusMoves
    <2> QED BY <2>1, <2>2
  <1>4. ASSUME NEW r \in Reader, NEW ok \in BOOLEAN, DemandDone(r, ok) PROVE StatusMoves(c)
    BY <1>0, <1>4, FinishStatus DEF DemandDone
  <1>5. CASE SchedulerStep
    <2>1. CASE AbortScheduler /\ at[Scheduler] = "Permit"
      BY <1>0, <2>1, RollbackStatus DEF AbortScheduler
    <2>2. CASE AbortScheduler /\ at[Scheduler] # "Permit"
      BY <2>2 DEF AbortScheduler, StatusMoves
    <2>3. CASE StartScheduler \/ PrefetchNext \/ PrefetchAwait
      BY <2>3 DEF StartScheduler, PrefetchNext, PrefetchAwait, StatusMoves
    <2> QED BY <1>5, <2>1, <2>2, <2>3 DEF SchedulerStep
  <1>6. ASSUME NEW b \in Block, PrefetchGet(b) \/ DropPrefetch(b) PROVE StatusMoves(c)
    BY <1>0, <1>6, RollbackStatus DEF PrefetchGet, DropPrefetch, StatusMoves
  <1>7. ASSUME NEW b \in Block, NEW ok \in BOOLEAN, PrefetchDone(b, ok) PROVE StatusMoves(c)
    BY <1>0, <1>7, FinishStatus DEF PrefetchDone
  <1>8. CASE Cancel \/ UNCHANGED vars
    BY <1>8 DEF Cancel, vars, StatusMoves
  <1> QED
    BY <1>1, <1>2, <1>3, <1>4, <1>5, <1>6, <1>7, <1>8 DEF QuietStep

LEMMA QuietFailure ==
  ASSUME QuietStep
  PROVE  (failure' = failure \/ Cancel) /\ (~failure' => ~failure)
  <1> USE DEF slotVars, sumVars, budgetVars, readerVars, schedVars, taskVars
  <1>1. ASSUME NEW p \in Proc, Reserve(p) PROVE failure' = failure
    BY <1>1 DEF Reserve, ReserveFailed, ReserveNone, ReserveCommit, ReserveWait, PermitTaken,
       PermitUnneeded, PermitCancelled
  <1>2. ASSUME NEW r \in Reader,
               \/ SliceReady(r) \/ SliceWait(r) \/ SliceDemand(r) \/ SliceError(r)
               \/ ActivateError(r) \/ DemandGet(r) \/ AbortReader(r)
        PROVE failure' = failure
    BY <1>2 DEF SliceReady, SliceWait, SliceDemand, SliceError, ActivateError, DemandGet,
       AbortReader
  <1>3. ASSUME NEW b, NEW ok, DemandDone(b, ok) \/ PrefetchDone(b, ok) PROVE failure' = failure
    BY <1>3 DEF DemandDone, PrefetchDone
  <1>4. ASSUME NEW b, PrefetchGet(b) \/ DropPrefetch(b) PROVE failure' = failure
    BY <1>4 DEF PrefetchGet, DropPrefetch
  <1>5. CASE SchedulerStep
    BY <1>5 DEF SchedulerStep, StartScheduler, PrefetchNext, PrefetchAwait, AbortScheduler
  <1>6. ASSUME UNCHANGED vars PROVE failure' = failure
    BY <1>6 DEF vars
  <1>7. failure' = failure \/ Cancel
    BY <1>1, <1>2, <1>3, <1>4, <1>5, <1>6 DEF QuietStep
  <1> QED BY <1>7 DEF Cancel

LEMMA ClaimsQuiet ==
  ASSUME IInv, ClaimAccounting, QuietStep
  PROVE  ClaimAccounting'
  <1>1. SUFFICES ASSUME ~failure', NEW b \in Block PROVE Counted(b)'
    BY DEF ClaimAccounting, Counted, Claimants, Users, Savers
  <1>2. Counted(b)
    BY <1>1, QuietFailure, CountedByBlock
  <1>3. ClaimsKeep
    BY QuietKeeps
  <1>4. Claimants(b)' = Claimants(b) /\ Users(b)' = Users(b)
    BY <1>3, HoldersKept DEF ClaimsKeep
  <1>5. Savers(b)' = Savers(b) /\ remaining'[b] = remaining[b] /\ live'[b] = live[b]
    BY <1>3 DEF ClaimsKeep, Savers
  <1>6. status'[b] = "Released" => status[b] = "Released" \/ remaining[b] = 0
    BY <1>1, QuietStatus DEF StatusMoves
  <1> QED BY <1>2, <1>4, <1>5, <1>6, CountKept

LEMMA ClaimsTask ==
  ASSUME IInv, ClaimAccounting, TaskOnlyStep
  PROVE  ClaimAccounting'
  <1>1. UNCHANGED <<remaining, live, status, failure, pos, phase, retained>>
    BY DEF TaskOnlyStep, SpawnTask, AttemptFails, TaskSucceeds, TaskFails, slotVars, sumVars,
       readerVars
  <1> QED
    BY <1>1 DEF ClaimAccounting, HoldsClaim, HoldsLive

\* One reader moves: it joins or leaves the holders of b.
LEMMA OneMoves ==
  ASSUME NEW r \in Reader, NEW b,
         \A q \in Reader \ {r} : phase'[q] = phase[q] /\ pos'[q] = pos[q]
  PROVE  /\ HoldsClaim(r, b)' => Claimants(b)' = Claimants(b) \cup {r}
         /\ ~HoldsClaim(r, b)' => Claimants(b)' = Claimants(b) \ {r}
         /\ HoldsLive(r, b)' => Users(b)' = Users(b) \cup {r}
         /\ ~HoldsLive(r, b)' => Users(b)' = Users(b) \ {r}
  <1>1. ASSUME NEW q \in Reader \ {r}
        PROVE  /\ HoldsClaim(q, b)' <=> HoldsClaim(q, b)
               /\ HoldsLive(q, b)' <=> HoldsLive(q, b)
    BY DEF HoldsClaim, HoldsLive
  <1> QED
    BY <1>1 DEF Claimants, Users

LEMMA CountActivate ==
  ASSUME IInv, LifeInv, NEW r \in Reader, ActivateReader(r), NEW b \in Block, Counted(b)
  PROVE  Counted(b)'
  <1> USE DEF slotVars, sumVars, budgetVars, readerVars, schedVars, taskVars
  <1>1. /\ phase \in [Reader -> Phase] /\ pos \in [Proc -> Block] /\ live \in [Block -> Nat]
        /\ r[1] \in Entry /\ r \in Proc /\ pos[r] = FirstBlock[r[1]]
    BY ProcFacts DEF IInv, TypeOK, LifeInv, OpensAtFirst, ActivateReader
  <1>2. /\ phase[r] = "Opening" /\ phase'[r] = "Reading" /\ pos' = pos
        /\ \A q \in Reader \ {r} : phase'[q] = phase[q] /\ pos'[q] = pos[q]
        /\ live'[b] = (IF b \in Span(r[1]) THEN live[b] + 1 ELSE live[b])
        /\ UNCHANGED <<remaining, status, retained>>
    BY <1>1 DEF ActivateReader
  <1>3. /\ HoldsClaim(r, b)' <=> b \in Span(r[1])
        /\ HoldsClaim(r, b) <=> b \in Span(r[1])
        /\ HoldsLive(r, b)' <=> b \in Span(r[1])
        /\ ~HoldsLive(r, b)
    BY <1>1, <1>2, EntriesAssumption DEF HoldsClaim, HoldsLive, Span
  <1>4. Claimants(b)' = Claimants(b) /\ Savers(b)' = Savers(b) /\ r \notin Users(b)
    <2>1. r \in Claimants(b) <=> b \in Span(r[1])
      BY <1>3 DEF Claimants
    <2>2. Claimants(b)' = Claimants(b)
      BY <1>2, <1>3, <2>1, OneMoves
    <2> QED
      BY <1>2, <1>3, <2>2 DEF Savers, Users
  <1>5. Users(b)' = IF b \in Span(r[1]) THEN Users(b) \cup {r} ELSE Users(b)
    <2>1. Users(b) \ {r} = Users(b)
      BY <1>4
    <2> QED
      BY <1>2, <1>3, <2>1, OneMoves
  <1>6. Cardinality(Users(b) \cup {r}) = Cardinality(Users(b)) + 1
    BY <1>4, CountTypes, FS_AddElement
  <1> QED
    BY <1>1, <1>2, <1>4, <1>5, <1>6 DEF Counted

\* A reader that passes its block gives back its claim and its use of it.
LEMMA PassHolds ==
  ASSUME IInv, NEW r \in Reader, ConsumeBlock(r) \/ DropReaderBlock(r)
  PROVE  /\ \A q \in Reader \ {r} : phase'[q] = phase[q] /\ pos'[q] = pos[q]
         /\ \A b \in Block :
              IF b = pos[r]
              THEN HoldsClaim(r, b) /\ ~HoldsClaim(r, b)' /\ HoldsLive(r, b) /\ ~HoldsLive(r, b)'
              ELSE /\ HoldsClaim(r, b)' <=> HoldsClaim(r, b)
                   /\ HoldsLive(r, b)' <=> HoldsLive(r, b)
  <1> DEFINE e == r[1]
  <1>1. /\ phase \in [Reader -> Phase] /\ pos \in [Proc -> Block] /\ r \in Proc
        /\ Reader \subseteq Proc
        /\ e \in Entry /\ pos[r] \in Span(e) /\ pos[r] \in Nat
        /\ LastBlock[e] \in Nat /\ FirstBlock[e] \in Nat
    <2>1. /\ phase \in [Reader -> Phase] /\ pos \in [Proc -> Block] /\ r \in Proc
          /\ Reader \subseteq Proc /\ e \in Entry
      BY ProcFacts DEF IInv, TypeOK
    <2>2. pos[r] \in Span(e)
      BY DEF IInv, ReaderPlaced, ConsumeBlock, DropReaderBlock
    <2>3. \A b \in Block : b \in Nat
      BY SizesAssumption DEF Block
    <2> QED
      BY <2>1, <2>2, <2>3, EntriesAssumption
  <1>2. /\ phase[r] \in {"Reading", "DroppingReader"}
        /\ \E o : NextBlockOr(r, o, phase[r])
    BY DEF ConsumeBlock, DropReaderBlock
  <1>3. CASE pos[r] = LastBlock[e]
    <2>1. phase' = [phase EXCEPT ![r] = "Closed"] /\ pos' = pos
      BY <1>2, <1>3 DEF NextBlockOr
    <2>2. phase'[r] = "Closed" /\ \A q \in Reader \ {r} : phase'[q] = phase[q]
      BY <1>1, <2>1
    <2>3. \A b \in Block : b # pos[r] => ~(b \in Span(e) /\ pos[r] <= b)
      BY <1>1, <1>3 DEF Span
    <2> QED
      BY <1>1, <1>2, <2>1, <2>2, <2>3 DEF HoldsClaim, HoldsLive
  <1>4. CASE pos[r] # LastBlock[e]
    <2>1. pos' = [pos EXCEPT ![r] = pos[r] + 1] /\ phase' = [phase EXCEPT ![r] = phase[r]]
      BY <1>2, <1>4 DEF NextBlockOr
    <2>2. /\ phase' = phase /\ pos'[r] = pos[r] + 1
          /\ \A q \in Reader \ {r} : pos'[q] = pos[q]
      BY <1>1, <2>1
    <2>3. \A b \in Block : b \in Nat /\ (b # pos[r] => (pos[r] + 1 <= b <=> pos[r] <= b))
      BY <1>1, SizesAssumption DEF Block
    <2>4. ~(pos[r] + 1 <= pos[r]) /\ pos[r] <= pos[r]
      BY <1>1
    <2>5. \A b \in Block :
            /\ HoldsClaim(r, b) <=> b \in Span(e) /\ pos[r] <= b
            /\ HoldsLive(r, b) <=> b \in Span(e) /\ pos[r] <= b
            /\ HoldsClaim(r, b)' <=> b \in Span(e) /\ pos[r] + 1 <= b
            /\ HoldsLive(r, b)' <=> b \in Span(e) /\ pos[r] + 1 <= b
      BY <1>2, <2>2 DEF HoldsClaim, HoldsLive
    <2> QED
      BY <1>1, <2>2, <2>3, <2>4, <2>5
  <1> QED
    BY <1>3, <1>4

LEMMA CountPass ==
  ASSUME IInv, NEW r \in Reader, ConsumeBlock(r) \/ DropReaderBlock(r),
         Counted(pos[r]), NEW b \in Block, Counted(b)
  PROVE  Counted(b)'
  <1> USE DEF slotVars, sumVars, budgetVars, readerVars, schedVars, taskVars
  <1> DEFINE c == pos[r]
             left == SaturatingSub(remaining[c], 1)
  <1>1. /\ live \in [Block -> Nat] /\ remaining \in [Block -> Nat] /\ status \in [Block -> Status]
        /\ c \in Block
    BY ProcFacts DEF IInv, TypeOK
  <1>2. r \in Claimants(c) /\ r \in Users(c)
    BY <1>1, PassHolds DEF Claimants, Users
  <1>3. /\ remaining[c] \in Nat /\ remaining[c] >= 1 /\ left = remaining[c] - 1
        /\ Cardinality(Claimants(c) \ {r}) = Cardinality(Claimants(c)) - 1
        /\ live[c] >= 1 /\ Cardinality(Users(c) \ {r}) = live[c] - 1
    BY <1>1, <1>2, OwnClaim, OwnUse
  <1>4. UNCHANGED retained /\ \E to : ReleaseBlockReader(c, r, to)
    BY DEF ConsumeBlock, DropReaderBlock
  <1>5. Savers(b)' = Savers(b)
    BY <1>4 DEF Savers
  <1>6. /\ live' = [live EXCEPT ![c] = live[c] - 1]
        /\ remaining' = [remaining EXCEPT ![c] = left]
        /\ \/ status' = status
           \/ left = 0 /\ status' = [d \in Block |-> IF d \in {c} THEN "Released" ELSE status[d]]
    BY <1>1, <1>3, <1>4 DEF ReleaseBlockReader, ReleaseReady, LastClaim
  <1> HIDE DEF left
  <1>7. CASE b = c
    <2>1. Claimants(b)' = Claimants(b) \ {r} /\ Users(b)' = Users(b) \ {r}
      BY <1>7, PassHolds, OneMoves
    <2>2. remaining'[b] = remaining[b] - 1 /\ live'[b] = live[b] - 1
      BY <1>1, <1>3, <1>6, <1>7
    <2>3. status'[b] = "Released" => remaining'[b] = 0
      BY <1>1, <1>3, <1>6, <1>7, <2>2 DEF Counted
    <2>4. Cardinality(Claimants(b)) \in Nat /\ Cardinality(Savers(b)) \in Nat
      BY CountTypes
    <2> QED
      BY <1>3, <1>5, <1>7, <2>1, <2>2, <2>3, <2>4 DEF Counted
  <1>8. CASE b # c
    <2>1. Claimants(b)' = Claimants(b) /\ Users(b)' = Users(b)
      BY <1>8, PassHolds, OneMoves DEF Claimants, Users
    <2>2. remaining'[b] = remaining[b] /\ live'[b] = live[b] /\ status'[b] = status[b]
      BY <1>1, <1>6, <1>8
    <2> QED
      BY <1>5, <2>1, <2>2, CountKept
  <1> QED
    BY <1>7, <1>8

LEMMA CountDropClaim ==
  ASSUME IInv, NEW r \in Reader, DropClaim(r), NEW b \in Block, Counted(b)
  PROVE  Counted(b)'
  <1> USE DEF slotVars, sumVars, budgetVars, readerVars, schedVars, taskVars
  <1> DEFINE span  == Span(r[1])
             ended == {c \in span : remaining[c] = 1 /\ live[c] = 0}
             freed == {c \in ended : status[c] = "Ready"}
  <1>1. /\ phase \in [Reader -> Phase] /\ pos \in [Proc -> Block] /\ r \in Proc
        /\ Reader \subseteq Proc /\ remaining[b] \in Nat
    BY ProcFacts DEF IInv, TypeOK
  <1>2. /\ phase[r] = "DroppingClaim"
        /\ remaining' = [c \in Block |-> IF c \in span THEN SaturatingSub(remaining[c], 1)
                                         ELSE remaining[c]]
        /\ ReleaseReady(freed)
        /\ phase' = [phase EXCEPT ![r] = "Closed"]
        /\ pos' = [pos EXCEPT ![r] = LastBlock[r[1]]]
        /\ UNCHANGED <<live, retained>>
    BY DEF DropClaim
  <1>3. /\ phase'[r] = "Closed"
        /\ \A q \in Reader \ {r} : phase'[q] = phase[q] /\ pos'[q] = pos[q]
    BY <1>1, <1>2
  <1>4. status'[b] = IF b \in freed THEN "Released" ELSE status[b]
    BY <1>2 DEF ReleaseReady
  <1>5. /\ ~HoldsClaim(r, b)' /\ ~HoldsLive(r, b)' /\ ~HoldsLive(r, b)
        /\ HoldsClaim(r, b) <=> b \in span
    BY <1>2, <1>3 DEF HoldsClaim, HoldsLive
  <1>6. Claimants(b)' = Claimants(b) \ {r} /\ Users(b)' = Users(b) /\ Savers(b)' = Savers(b)
    <2>1. Users(b) \ {r} = Users(b)
      BY <1>5 DEF Users
    <2>2. Claimants(b)' = Claimants(b) \ {r} /\ Users(b)' = Users(b) \ {r}
      BY <1>3, <1>5, OneMoves
    <2> QED
      BY <1>2, <2>1, <2>2 DEF Savers
  <1>7. CASE b \in span
    <2>1. r \in Claimants(b)
      BY <1>5, <1>7 DEF Claimants
    <2>2. /\ remaining[b] >= 1 /\ SaturatingSub(remaining[b], 1) = remaining[b] - 1
          /\ Cardinality(Claimants(b) \ {r}) = Cardinality(Claimants(b)) - 1
      BY <2>1, OwnClaim
    <2>3. remaining'[b] = remaining[b] - 1 /\ live'[b] = live[b]
      BY <1>2, <1>7, <2>2
    <2>4. status'[b] = "Released" => remaining'[b] = 0
      BY <1>1, <1>4, <2>2, <2>3 DEF Counted
    <2>5. Cardinality(Claimants(b)) \in Nat /\ Cardinality(Savers(b)) \in Nat
      BY CountTypes
    <2> QED
      BY <1>6, <2>2, <2>3, <2>4, <2>5 DEF Counted
  <1>8. CASE b \notin span
    <2>1. Claimants(b) \ {r} = Claimants(b)
      BY <1>5, <1>8 DEF Claimants
    <2>2. remaining'[b] = remaining[b] /\ live'[b] = live[b] /\ status'[b] = status[b]
      BY <1>2, <1>4, <1>8
    <2> QED
      BY <1>6, <2>1, <2>2, CountKept
  <1> QED
    BY <1>7, <1>8

\* A body starts: its reader holds the retained claims, or adds its own.
LEMMA CountStart ==
  ASSUME IInv, LifeInv, NEW e \in Entry, StartBody(e), ~failure, NEW b \in Block, Counted(b)
  PROVE  Counted(b)'
  <1>1. /\ attempt \in [Entry -> Nat] /\ phase \in [Reader -> Phase] /\ pos \in [Proc -> Block]
        /\ retained \in [Entry -> BOOLEAN] /\ remaining \in [Block -> Nat]
    BY DEF IInv, TypeOK
  <1>2. PICK r \in Reader : r = <<e, attempt[e] + 1>>
    <2>1. MaxAttempts[e] \in Nat /\ attempt[e] \in Nat /\ attempt[e] < MaxAttempts[e]
      BY <1>1, EntriesAssumption DEF StartBody
    <2>2. attempt[e] + 1 \in Nat /\ 1 <= attempt[e] + 1 /\ attempt[e] + 1 <= MaxAttempts[e]
      BY <2>1
    <2> QED
      BY <2>2, ProcFacts
  <1>3. /\ retained' = [retained EXCEPT ![e] = FALSE]
        /\ phase' = [phase EXCEPT ![r] = "Opening"]
        /\ pos' = [pos EXCEPT ![r] = FirstBlock[e]]
        /\ UNCHANGED live
        /\ IF retained[e] THEN UNCHANGED <<remaining, status>> ELSE AddReplayClaims(e)
    BY <1>2 DEF StartBody
  <1>4. r[1] = e /\ r[2] = attempt[e] + 1 /\ r \in Proc /\ r[2] > attempt[r[1]]
    BY <1>1, <1>2, ProcFacts
  <1>5. /\ phase[r] = "Idle" /\ phase'[r] = "Opening"
        /\ \A q \in Reader \ {r} : phase'[q] = phase[q] /\ pos'[q] = pos[q]
    BY <1>1, <1>2, <1>3, <1>4, ProcFacts DEF LifeInv, Started
  <1>6. /\ ~HoldsClaim(r, b) /\ ~HoldsLive(r, b) /\ ~HoldsLive(r, b)'
        /\ HoldsClaim(r, b)' <=> b \in Span(e)
    BY <1>4, <1>5 DEF HoldsClaim, HoldsLive
  <1>7. /\ r \notin Claimants(b) /\ Users(b)' = Users(b)
        /\ Claimants(b)' = IF b \in Span(e) THEN Claimants(b) \cup {r} ELSE Claimants(b)
    <2>1. r \notin Claimants(b) /\ r \notin Users(b)
      BY <1>6 DEF Claimants, Users
    <2>2. Claimants(b) \ {r} = Claimants(b) /\ Users(b) \ {r} = Users(b)
      BY <2>1
    <2> QED
      BY <1>2, <1>5, <1>6, <2>1, <2>2, OneMoves
  <1>8. Cardinality(Claimants(b) \cup {r}) = Cardinality(Claimants(b)) + 1
    BY <1>7, CountTypes, FS_AddElement
  <1>9. CASE retained[e]
    <2>1. remaining' = remaining /\ status' = status
      BY <1>3, <1>9
    <2>2. Savers(b)' = Savers(b) \ {e} /\ (e \in Savers(b) <=> b \in Span(e))
      BY <1>1, <1>3, <1>9 DEF Savers
    <2>3. CASE b \in Span(e)
      <3>1. Cardinality(Savers(b) \ {e}) = Cardinality(Savers(b)) - 1
        BY <2>2, <2>3, CountTypes, FS_RemoveElement
      <3>2. Cardinality(Savers(b)) \in Nat /\ Cardinality(Claimants(b)) \in Nat
        BY CountTypes
      <3> QED
        BY <1>3, <1>7, <1>8, <2>1, <2>2, <2>3, <3>1, <3>2 DEF Counted
    <2>4. CASE b \notin Span(e)
      <3>1. Savers(b)' = Savers(b)
        BY <2>2, <2>4
      <3> QED
        BY <1>3, <1>7, <2>1, <2>4, <3>1, CountKept
    <2> QED
      BY <2>3, <2>4
  <1>10. CASE ~retained[e]
    <2>1. /\ remaining'[b] = IF b \in Span(e) THEN remaining[b] + 1 ELSE remaining[b]
          /\ status'[b] = IF b \in Span(e) /\ status[b] \in {"Released", "Failed"}
                          THEN "Pending" ELSE status[b]
      BY <1>3, <1>10 DEF AddReplayClaims
    <2>2. retained' = retained
      BY <1>1, <1>3, <1>10
    <2>3. Savers(b)' = Savers(b)
      BY <2>2 DEF Savers
    <2>4. CASE b \in Span(e)
      <3>1. Cardinality(Savers(b)) \in Nat /\ Cardinality(Claimants(b)) \in Nat
        BY CountTypes
      <3> QED
        BY <1>3, <1>7, <1>8, <2>1, <2>3, <2>4, <3>1 DEF Counted
    <2>5. CASE b \notin Span(e)
      BY <1>3, <1>7, <2>1, <2>3, <2>5, CountKept
    <2> QED
      BY <2>4, <2>5
  <1> QED
    BY <1>9, <1>10

\* The comparison pass has ended: the entry's claims wait for the PUT body.
LEMMA CountRetain ==
  ASSUME IInv, LifeInv, NEW e \in Entry, RetainForReplay(e), ~failure, NEW b \in Block, Counted(b)
  PROVE  Counted(b)'
  <1>1. /\ retained \in [Entry -> BOOLEAN] /\ remaining \in [Block -> Nat] /\ ~retained[e]
    BY DEF IInv, TypeOK, LifeInv, TakenUp, RetainForReplay
  <1>2. /\ retained' = [retained EXCEPT ![e] = TRUE]
        /\ UNCHANGED <<live, phase, pos>> /\ AddReplayClaims(e)
    BY DEF RetainForReplay, readerVars
  <1>3. /\ remaining'[b] = IF b \in Span(e) THEN remaining[b] + 1 ELSE remaining[b]
        /\ status'[b] = IF b \in Span(e) /\ status[b] \in {"Released", "Failed"}
                        THEN "Pending" ELSE status[b]
    BY <1>2 DEF AddReplayClaims
  <1>4. Claimants(b)' = Claimants(b) /\ Users(b)' = Users(b)
    BY <1>2 DEF Claimants, Users, HoldsClaim, HoldsLive
  <1>5. /\ e \notin Savers(b)
        /\ Savers(b)' = IF b \in Span(e) THEN Savers(b) \cup {e} ELSE Savers(b)
    BY <1>1, <1>2 DEF Savers
  <1>6. CASE b \in Span(e)
    <2>1. Cardinality(Savers(b) \cup {e}) = Cardinality(Savers(b)) + 1
      BY <1>5, CountTypes, FS_AddElement
    <2>2. Cardinality(Savers(b)) \in Nat /\ Cardinality(Claimants(b)) \in Nat
      BY CountTypes
    <2> QED
      BY <1>2, <1>3, <1>4, <1>5, <1>6, <2>1, <2>2 DEF Counted
  <1>7. CASE b \notin Span(e)
    BY <1>2, <1>3, <1>4, <1>5, <1>7, CountKept
  <1> QED
    BY <1>6, <1>7

LEMMA ClaimsMove ==
  ASSUME IInv, LifeInv, ClaimAccounting, MoveStep
  PROVE  ClaimAccounting'
  <1>1. failure' = failure
    BY DEF MoveStep, ActivateReader, ConsumeBlock, DropReaderBlock, DropClaim, StartBody,
       RetainForReplay, sumVars
  <1>2. SUFFICES ASSUME ~failure, NEW b \in Block PROVE Counted(b)'
    BY <1>1 DEF ClaimAccounting, Counted, Claimants, Users, Savers
  <1>3. \A c \in Block : Counted(c)
    BY <1>2, CountedByBlock
  <1>4. \A r \in Reader : pos[r] \in Block
    BY ProcFacts DEF IInv, TypeOK
  <1> QED
    BY <1>2, <1>3, <1>4, CountActivate, CountPass, CountDropClaim, CountStart, CountRetain
       DEF MoveStep

LEMMA ClaimsInit == Init => ClaimAccounting
  <1> SUFFICES ASSUME Init, NEW b \in Block PROVE Counted(b)
    BY CountedByBlock
  <1>1. Claimants(b) = {} /\ Users(b) = {} /\ Savers(b) = {e \in Entry : b \in Span(e)}
    BY DEF Init, Claimants, Users, Savers, HoldsClaim, HoldsLive
  <1>2. Cardinality({}) = 0 /\ Cardinality(Savers(b)) \in Nat
    BY FS_EmptySet, CountTypes
  <1>3. remaining[b] = Cardinality(Savers(b)) /\ live[b] = 0 /\ status[b] = "Pending"
    BY <1>1 DEF Init
  <1> QED
    BY <1>1, <1>2, <1>3 DEF Counted

ClaimsInv == IInv /\ LifeInv /\ ClaimAccounting

LEMMA ClaimsNext == ClaimsInv /\ [Next]_vars => ClaimsInv'
  <1> SUFFICES ASSUME ClaimsInv, [Next]_vars PROVE ClaimsInv'
    OBVIOUS
  <1>1. IInv' /\ LifeInv'
    BY NextIInv, LifeNext DEF ClaimsInv
  <1>2. ClaimAccounting'
    BY StepKinds, ClaimsQuiet, ClaimsMove, ClaimsTask DEF ClaimsInv
  <1> QED
    BY <1>1, <1>2 DEF ClaimsInv

LEMMA ClaimsInductive == Spec => []ClaimsInv
  <1>1. Init => ClaimsInv
    BY InitIInv, LifeInit, ClaimsInit DEF ClaimsInv
  <1> QED
    BY <1>1, ClaimsNext, PTL DEF Spec

\* remaining_claims is exactly the number of attempts that still need the
\* block plus the entries whose claims wait for a reader, live_claims the
\* number of admitted readers that have not passed it, and only a block without
\* claims is Released: through replays that add claims while an aborted
\* producer still holds its own, no attempt releases another's claim.
THEOREM ClaimsAreCounted == Spec => []ClaimAccounting
  <1>1. ClaimsInv => ClaimAccounting
    BY DEF ClaimsInv
  <1> QED
    BY <1>1, ClaimsInductive, PTL

-----------------------------------------------------------------------------
(* A ready block is needed, and a block being read stays ready *)

HaveReady == ~failure => \A r \in Reader : at[r] = "Have" => status[pos[r]] = "Ready"

\* What the counts say of the last claim on a block.
LEMMA LastUse ==
  ASSUME NEW b \in Block, Counted(b), remaining[b] = 1, NEW r \in Claimants(b)
  PROVE  live[b] = IF r \in Users(b) THEN 1 ELSE 0
  <1>1. Claimants(b) = {r}
    <2>1. ASSUME NEW q \in Claimants(b), q # r PROVE remaining[b] >= 2
      BY <2>1, OwnClaim
    <2> QED
      BY <2>1
  <1>2. Users(b) \subseteq {r}
    BY <1>1, CountTypes
  <1>3. Users(b) = IF r \in Users(b) THEN {r} ELSE {}
    BY <1>2
  <1> QED
    BY <1>3, FS_Singleton, FS_EmptySet DEF Counted

\* A live reader has a claim.
LEMMA UsedIsNeeded ==
  ASSUME NEW b \in Block, Counted(b), live[b] > 0
  PROVE  remaining[b] > 0
  <1>1. Users(b) # {}
    BY FS_EmptySet DEF Counted
  <1>2. PICK r \in Users(b) : TRUE
    BY <1>1
  <1>3. r \in Claimants(b)
    BY CountTypes
  <1>4. remaining[b] \in Nat /\ remaining[b] >= 1
    BY <1>3, OwnClaim
  <1> QED
    BY <1>4

\* A process that runs the reservation or reading code holds a claim on its block.
LEMMA AtHolds ==
  ASSUME IInv, NEW r \in Reader, at[r] # "None"
  PROVE  r \in Claimants(pos[r]) /\ pos[r] \in Block
  <1>1. pos[r] \in Block /\ Active(r) /\ pos[r] \in Span(r[1]) /\ pos[r] \in Nat
    BY ProcFacts, SizesAssumption DEF IInv, TypeOK, ReaderPlaced, Active, Block
  <1> QED
    BY <1>1 DEF Claimants, HoldsClaim, Active

\* Who takes a ready block away: the reader with its only claim.
LEMMA ReadyLost ==
  ASSUME IInv, MoveStep, ~failure, \A b \in Block : Counted(b),
         NEW c \in Block, status[c] = "Ready", status'[c] # "Ready"
  PROVE  /\ remaining[c] = 1
         /\ \E r \in Claimants(c) : at'[r] # "Have"
  <1> USE DEF slotVars, sumVars, budgetVars, readerVars, schedVars, taskVars
  <1>0. /\ at \in [Proc -> Place] /\ Reader \subseteq Proc /\ remaining \in [Block -> Nat]
        /\ \A r \in Reader : pos[r] \in Block
    BY ProcFacts DEF IInv, TypeOK
  <1>1. ASSUME NEW r \in Reader, ConsumeBlock(r) \/ DropReaderBlock(r)
        PROVE  /\ remaining[c] = 1
               /\ r \in Claimants(c) /\ at'[r] # "Have"
    <2> DEFINE b == pos[r]
               left == SaturatingSub(remaining[b], 1)
    <2>1. b \in Block /\ r \in Claimants(b) /\ remaining[b] >= 1 /\ left = remaining[b] - 1
          /\ remaining[b] \in Nat
      <3>1. b \in Block /\ r \in Claimants(b)
        BY <1>0, <1>1, PassHolds DEF Claimants
      <3> QED
        BY <3>1, OwnClaim
    <2>2. PICK to \in {"None", "Check"} : ReleaseBlockReader(b, r, to)
      BY <1>1 DEF ConsumeBlock, DropReaderBlock
    <2>3. /\ left = 0
          /\ status' = [d \in Block |-> IF d \in {b} THEN "Released" ELSE status[d]]
          /\ at' = [Woken({"capacity"}) EXCEPT ![r] = to]
      BY <2>2 DEF ReleaseBlockReader, ReleaseReady, LastClaim
    <2>4. c = b /\ remaining[c] = 1
      BY <2>1, <2>3
    <2>5. at'[r] = to
      BY <1>0, <2>3, WokenType
    <2> QED
      BY <2>1, <2>2, <2>4, <2>5
  <1>2. ASSUME NEW r \in Reader, DropClaim(r)
        PROVE  /\ remaining[c] = 1
               /\ r \in Claimants(c) /\ at'[r] # "Have"
    <2>1. c \in Span(r[1]) /\ remaining[c] = 1 /\ phase[r] = "DroppingClaim"
      BY <1>2 DEF DropClaim, ReleaseReady
    <2>2. r \in Claimants(c)
      BY <2>1 DEF Claimants, HoldsClaim
    <2>3. at[r] = "None"
      BY <2>1 DEF IInv, ReaderPlaced, Active
    <2>4. at'[r] = "None"
      BY <1>0, <1>2, <2>3 DEF DropClaim, Woken
    <2> QED
      BY <2>1, <2>2, <2>3, <2>4
  <1>3. ASSUME NEW r \in Reader, ActivateReader(r) PROVE FALSE
    BY <1>3 DEF ActivateReader
  <1>4. ASSUME NEW e \in Entry, StartBody(e) \/ RetainForReplay(e) PROVE FALSE
    <2>1. \/ status' = status
          \/ status'[c] = IF c \in Span(e) /\ status[c] \in {"Released", "Failed"}
                          THEN "Pending" ELSE status[c]
      BY <1>4 DEF StartBody, RetainForReplay, AddReplayClaims
    <2> QED
      BY <2>1
  <1>5. \A r : r \in Claimants(c) => r \in Reader
    BY DEF Claimants
  <1> QED
    BY <1>1, <1>2, <1>3, <1>4, <1>5 DEF MoveStep

\* A step that moves claims makes no block ready, and a block that stays ready
\* through it is still needed.
LEMMA OnlyLost ==
  ASSUME IInv, MoveStep, NEW c \in Block, status'[c] = "Ready"
  PROVE  status[c] = "Ready"
  <1>1. ASSUME NEW r \in Reader, NEW b, NEW to, ReleaseBlockReader(b, r, to)
        PROVE  status[c] = "Ready"
    BY <1>1 DEF ReleaseBlockReader, ReleaseReady
  <1>2. ASSUME NEW r \in Reader, ConsumeBlock(r) \/ DropReaderBlock(r) PROVE status[c] = "Ready"
    BY <1>1, <1>2 DEF ConsumeBlock, DropReaderBlock
  <1>3. ASSUME NEW r \in Reader, DropClaim(r) \/ ActivateReader(r) PROVE status[c] = "Ready"
    BY <1>3 DEF DropClaim, ActivateReader, ReleaseReady
  <1>4. ASSUME NEW e \in Entry, StartBody(e) \/ RetainForReplay(e) PROVE status[c] = "Ready"
    BY <1>4 DEF StartBody, RetainForReplay, AddReplayClaims
  <1> QED
    BY <1>2, <1>3, <1>4 DEF MoveStep

LEMMA ReadyMoves ==
  ASSUME IInv, MoveStep, ~failure, \A b \in Block : Counted(b),
         NEW c \in Block, status[c] = "Ready", status'[c] = "Ready", remaining[c] > 0
  PROVE  remaining'[c] > 0
  <1>0. remaining \in [Block -> Nat] /\ live \in [Block -> Nat] /\ Counted(c)
    BY DEF IInv, TypeOK
  <1>1. ASSUME NEW r \in Reader, ConsumeBlock(r) \/ DropReaderBlock(r)
        PROVE  remaining'[c] > 0
    <2> DEFINE b == pos[r]
               left == SaturatingSub(remaining[b], 1)
    <2>1. b \in Block /\ r \in Claimants(b) /\ r \in Users(b)
      <3>1. b \in Block
        BY ProcFacts DEF IInv, TypeOK
      <3> QED
        BY <1>1, <3>1, PassHolds DEF Claimants, Users
    <2>2. remaining[b] >= 1 /\ left = remaining[b] - 1 /\ remaining[b] \in Nat /\ live[b] >= 1
      BY <2>1, OwnClaim, OwnUse
    <2>3. PICK to : ReleaseBlockReader(b, r, to)
      BY <1>1 DEF ConsumeBlock, DropReaderBlock
    <2>4. remaining' = [remaining EXCEPT ![b] = left]
      BY <2>2, <2>3 DEF ReleaseBlockReader
    <2>5. CASE b = c /\ remaining[c] = 1
      <3>1. live[b] = 1
        BY <2>1, <2>5, LastUse
      <3>2. status' = [d \in Block |-> IF d \in {b} THEN "Released" ELSE status[d]]
        BY <2>2, <2>3, <2>5, <3>1 DEF ReleaseBlockReader, ReleaseReady, LastClaim
      <3> QED
        BY <2>5, <3>2
    <2>6. CASE ~(b = c /\ remaining[c] = 1)
      <3> HIDE DEF left
      <3> QED
        BY <1>0, <2>1, <2>2, <2>4, <2>6
    <2> QED
      BY <2>5, <2>6
  <1>2. ASSUME NEW r \in Reader, DropClaim(r) PROVE remaining'[c] > 0
    <2>1. phase[r] = "DroppingClaim"
          /\ remaining'[c] = IF c \in Span(r[1]) THEN SaturatingSub(remaining[c], 1)
                             ELSE remaining[c]
      BY <1>2 DEF DropClaim
    <2>2. CASE c \in Span(r[1])
      <3>1. r \in Claimants(c) /\ r \notin Users(c)
        BY <2>1, <2>2 DEF Claimants, Users, HoldsClaim, HoldsLive
      <3>2. remaining[c] # 1
        <4>1. remaining[c] = 1 => live[c] = 0
          BY <1>0, <3>1, LastUse
        <4> QED
          BY <1>2, <2>2, <4>1 DEF DropClaim, ReleaseReady
      <3> QED
        BY <1>0, <2>1, <2>2, <3>2 DEF SaturatingSub
    <2> QED
      BY <2>1, <2>2
  <1>3. ASSUME NEW r \in Reader, ActivateReader(r) PROVE remaining'[c] > 0
    BY <1>3 DEF ActivateReader
  <1>4. ASSUME NEW e \in Entry, StartBody(e) \/ RetainForReplay(e) PROVE remaining'[c] > 0
    <2>1. remaining'[c] = remaining[c] \/ remaining'[c] = remaining[c] + 1
      BY <1>4 DEF StartBody, RetainForReplay, AddReplayClaims
    <2> QED
      BY <1>0, <2>1
  <1> QED
    BY <1>1, <1>2, <1>3, <1>4 DEF MoveStep

\* A quiet step hands a slice out only under the lock that saw the block ready.
LEMMA QuietHave ==
  ASSUME IInv, QuietStep, NEW r \in Reader, at'[r] = "Have"
  PROVE  at[r] = "Have" \/ status[pos[r]] = "Ready"
  <1> USE DEF slotVars, sumVars, budgetVars, readerVars, schedVars, taskVars
  <1> DEFINE Goal == at[r] = "Have" \/ status[pos[r]] = "Ready"
  <1>0. at \in [Proc -> Place] /\ r \in Proc /\ Reader \subseteq Proc /\ Scheduler \in Proc
    BY ProcFacts DEF IInv, TypeOK
  <1>1. ASSUME NEW p \in Proc, NEW to, to # "Have",
               \/ at' = [at EXCEPT ![p] = to]
               \/ \E s : at' = [Woken(s) EXCEPT ![p] = to]
        PROVE  Goal
    <2>1. CASE at' = [at EXCEPT ![p] = to]
      BY <1>0, <1>1, <2>1
    <2>2. ASSUME NEW s, at' = [Woken(s) EXCEPT ![p] = to] PROVE Goal
      <3>1. Woken(s)[r] = "Have" => at[r] = "Have"
        BY <1>0 DEF Woken
      <3>2. at'[r] = IF r = p THEN to ELSE Woken(s)[r]
        BY <1>0, <2>2, WokenType
      <3> QED
        BY <1>1, <3>1, <3>2
    <2> QED
      BY <1>1, <2>1, <2>2
  <1> HIDE DEF Goal
  <1>2. ASSUME NEW p \in Proc, Reserve(p) PROVE Goal
    <2>1. CASE ReserveFailed(p) \/ PermitCancelled(p)
      <3>1. \E to \in {"None", "Stopped"} : \/ at' = [at EXCEPT ![p] = to]
                                          \/ \E w : at' = [Woken(w) EXCEPT ![p] = to]
        BY <2>1 DEF ReserveFailed, PermitCancelled, ReturnErr
      <3> QED BY <1>1, <3>1
    <2>2. CASE ReserveNone(p) \/ ReserveCommit(p) \/ ReserveWait(p)
      <3>1. \E to \in {"Next", "Check", "Permit", "Capacity"} : at' = [at EXCEPT ![p] = to]
        BY <2>2 DEF ReserveNone, ReserveCommit, ReserveWait, Resume
      <3> QED BY <1>1, <3>1
    <2>3. CASE PermitTaken(p) \/ PermitUnneeded(p)
      <3>1. \E to \in {"Next", "Check", "Fetch"} : \E s : at' = [Woken(s) EXCEPT ![p] = to]
        BY <2>3 DEF PermitTaken, PermitUnneeded, Resume
      <3> QED BY <1>1, <3>1
    <2> QED BY <1>2, <2>1, <2>2, <2>3 DEF Reserve
  <1>3. ASSUME NEW q \in Reader, SliceReady(q) PROVE Goal
    BY <1>0, <1>3 DEF SliceReady, Goal
  <1>4. ASSUME NEW q \in Reader, SliceWait(q) \/ SliceDemand(q) \/ DemandGet(q) PROVE Goal
    <2>1. \E to \in {"Notify", "Reserve", "Get"} : at' = [at EXCEPT ![q] = to]
      BY <1>4 DEF SliceWait, SliceDemand, DemandGet
    <2> QED BY <1>0, <1>1, <2>1
  <1>5. ASSUME NEW q \in Reader, SliceError(q) \/ ActivateError(q) PROVE Goal
    <2>1. at' = [at EXCEPT ![q] = "None"]
      BY <1>5, ReaderPair DEF SliceError, ActivateError, ReturnErr
    <2> QED BY <1>0, <1>1, <2>1
  <1>6. ASSUME NEW q \in Reader, AbortReader(q) PROVE Goal
    <2>1. \/ at' = [at EXCEPT ![q] = "None"]
          \/ \E s : at' = [Woken(s) EXCEPT ![q] = "None"]
      BY <1>6 DEF AbortReader, RollbackFetch
    <2> QED BY <1>0, <1>1, <2>1
  <1>7. ASSUME NEW b, NEW ok, NEW p \in Proc, NEW to, to # "Have", FinishFetch(b, ok, p, to)
        PROVE  Goal
    BY <1>1, <1>7 DEF FinishFetch
  <1>8. ASSUME NEW q \in Reader, NEW ok \in BOOLEAN, DemandDone(q, ok) PROVE Goal
    BY <1>0, <1>7, <1>8 DEF DemandDone
  <1>9. CASE SchedulerStep
    <2>1. PICK to \in {"Next", "Reserve", "Poll", "Stopped"} :
            \/ at' = [at EXCEPT ![Scheduler] = to]
            \/ \E s : at' = [Woken(s) EXCEPT ![Scheduler] = to]
      BY <1>9 DEF SchedulerStep, StartScheduler, PrefetchNext, PrefetchAwait, AbortScheduler,
         RollbackFetch
    <2> QED BY <1>0, <1>1, <2>1 DEF Goal
  <1>10. ASSUME NEW b \in Block, PrefetchGet(b) \/ DropPrefetch(b) PROVE Goal
    <2>1. CASE PrefetchGet(b)
      BY <2>1 DEF PrefetchGet, Goal
    <2>2. CASE DropPrefetch(b)
      <3>1. \/ at' = [at EXCEPT ![Scheduler] = "Stopped"]
            \/ \E s : at' = [Woken(s) EXCEPT ![Scheduler] = "Stopped"]
        BY <2>2 DEF DropPrefetch, RollbackFetch
      <3> QED BY <1>0, <1>1, <3>1
    <2> QED BY <1>10, <2>1, <2>2
  <1>11. ASSUME NEW b \in Block, NEW ok \in BOOLEAN, PrefetchDone(b, ok) PROVE Goal
    BY <1>0, <1>7, <1>11 DEF PrefetchDone
  <1>12. CASE Cancel \/ UNCHANGED vars
    <2>1. at' = at \/ \E s : at' = Woken(s)
      BY <1>12 DEF Cancel, vars
    <2> QED BY <1>0, <2>1 DEF Woken, Goal
  <1> QED
    BY <1>2, <1>3, <1>4, <1>5, <1>6, <1>8, <1>9, <1>10, <1>11, <1>12 DEF QuietStep, Goal

\* A reader that holds a slice through a step that moves claims has not moved.
LEMMA MoveHave ==
  ASSUME IInv, MoveStep, NEW r \in Reader, at'[r] = "Have"
  PROVE  at[r] = "Have" /\ pos'[r] = pos[r]
  <1> DEFINE Goal == at[r] = "Have" /\ pos'[r] = pos[r]
  <1>0. /\ at \in [Proc -> Place] /\ pos \in [Proc -> Block] /\ r \in Proc
        /\ Reader \subseteq Proc
    BY ProcFacts DEF IInv, TypeOK
  <1>1. ASSUME NEW s PROVE Woken(s)[r] = "Have" => at[r] = "Have"
    BY <1>0 DEF Woken
  <1>2. ASSUME NEW q \in Reader, ConsumeBlock(q) \/ DropReaderBlock(q) PROVE Goal
    <2>1. \E to \in {"None", "Check"} : \/ at' = [at EXCEPT ![q] = to]
                                        \/ at' = [Woken({"capacity"}) EXCEPT ![q] = to]
      BY <1>2 DEF ConsumeBlock, DropReaderBlock, ReleaseBlockReader
    <2>2. PICK to \in {"None", "Check"} : \/ at' = [at EXCEPT ![q] = to]
                                          \/ at' = [Woken({"capacity"}) EXCEPT ![q] = to]
      BY <2>1
    <2>3. r # q /\ at[r] = "Have"
      BY <1>0, <1>1, <2>2, WokenType
    <2>4. pos'[r] = pos[r]
      BY <1>2, <2>3, PassHolds
    <2> QED BY <2>3, <2>4
  <1>3. ASSUME NEW q \in Reader, ActivateReader(q) PROVE Goal
    BY <1>0, <1>3 DEF ActivateReader, readerVars
  <1>4. ASSUME NEW q \in Reader, DropClaim(q) PROVE Goal
    <2>1. at[r] = "Have"
      BY <1>0, <1>1, <1>4 DEF DropClaim
    <2>2. r # q
      BY <1>4, <2>1 DEF DropClaim, IInv, ReaderPlaced, Active
    <2>3. pos' = [pos EXCEPT ![q] = LastBlock[q[1]]]
      BY <1>4 DEF DropClaim
    <2> QED BY <1>0, <2>1, <2>2, <2>3
  <1>5. ASSUME NEW e \in Entry, RetainForReplay(e) PROVE Goal
    BY <1>0, <1>1, <1>5 DEF RetainForReplay, readerVars
  <1>6. ASSUME NEW e \in Entry, StartBody(e) PROVE Goal
    <2> DEFINE q == <<e, attempt[e] + 1>>
    <2>1. \/ at' = [at EXCEPT ![q] = "Check"]
          \/ \E s : at' = [Woken(s) EXCEPT ![q] = "Check"]
      BY <1>6 DEF StartBody
    <2>2. pos' = [pos EXCEPT ![q] = FirstBlock[e]]
      BY <1>6 DEF StartBody
    <2> HIDE DEF q
    <2>3. r # q /\ at[r] = "Have"
      BY <1>0, <1>1, <2>1, WokenType
    <2> QED BY <1>0, <2>2, <2>3
  <1> QED
    BY <1>2, <1>3, <1>4, <1>5, <1>6 DEF MoveStep

LEMMA ReadyInit == Init => ReadyNeeded /\ HaveReady
  BY ProcFacts DEF Init, ReadyNeeded, HaveReady

LEMMA ReadyNeededNext ==
  ASSUME ClaimsInv, ReadyNeeded, [Next]_vars
  PROVE  ReadyNeeded'
  <1>1. SUFFICES ASSUME ~failure', NEW b \in Block, status'[b] = "Ready"
                 PROVE  remaining'[b] > 0
    BY DEF ReadyNeeded
  <1>2. IInv /\ LifeInv /\ ClaimAccounting /\ ClaimAccounting'
    BY ClaimsNext DEF ClaimsInv
  <1>3. Counted(b)'
    BY <1>1, <1>2 DEF ClaimAccounting, Counted, Claimants, Users, Savers
  <1>4. CASE QuietStep
    <2>1. ~failure /\ StatusMoves(b) /\ Counted(b) /\ remaining'[b] = remaining[b]
      BY <1>1, <1>2, <1>4, QuietFailure, QuietStatus, QuietKeeps, CountedByBlock DEF ClaimsKeep
    <2> QED
      BY <1>1, <2>1, UsedIsNeeded DEF StatusMoves, ReadyNeeded
  <1>5. CASE TaskOnlyStep
    <2>1. UNCHANGED <<remaining, status, failure>>
      BY <1>5 DEF TaskOnlyStep, SpawnTask, AttemptFails, TaskSucceeds, TaskFails, slotVars, sumVars
    <2> QED
      BY <1>1, <2>1 DEF ReadyNeeded
  <1>6. CASE MoveStep
    <2>1. ~failure /\ Counted(b) /\ \A c \in Block : Counted(c)
      <3>1. failure' = failure
        BY <1>6 DEF MoveStep, ActivateReader, ConsumeBlock, DropReaderBlock, DropClaim, StartBody,
           RetainForReplay, sumVars
      <3> QED
        BY <1>1, <1>2, <3>1, CountedByBlock
    <2>2. status[b] = "Ready" /\ remaining[b] > 0 /\ remaining[b] \in Nat
      <3>1. status[b] = "Ready"
        BY <1>1, <1>2, <1>6, OnlyLost
      <3> QED
        BY <2>1, <3>1, CountTypes DEF ReadyNeeded, Counted
    <2> QED
      BY <1>1, <1>2, <1>6, <2>1, <2>2, ReadyMoves
  <1> QED
    BY <1>4, <1>5, <1>6, StepKinds

LEMMA HaveReadyNext ==
  ASSUME ClaimsInv, HaveReady, [Next]_vars
  PROVE  HaveReady'
  <1> USE DEF slotVars, sumVars, budgetVars, readerVars, schedVars, taskVars
  <1>1. SUFFICES ASSUME ~failure', NEW r \in Reader, at'[r] = "Have"
                 PROVE  status'[pos'[r]] = "Ready"
    BY DEF HaveReady
  <1>2. IInv /\ LifeInv /\ ClaimAccounting
    BY DEF ClaimsInv
  <1>3. pos[r] \in Block /\ r \in Proc /\ at \in [Proc -> Place] /\ Reader \subseteq Proc
    BY <1>2, ProcFacts DEF IInv, TypeOK
  <1>4. CASE QuietStep
    <2>1. ~failure /\ StatusMoves(pos[r]) /\ pos'[r] = pos[r]
      BY <1>1, <1>2, <1>3, <1>4, QuietFailure, QuietStatus, QuietKeeps DEF ClaimsKeep, ReadersKeep
    <2>2. at[r] = "Have" \/ status[pos[r]] = "Ready"
      BY <1>1, <1>2, <1>4, QuietHave
    <2> QED
      BY <2>1, <2>2 DEF HaveReady, StatusMoves
  <1>5. CASE TaskOnlyStep
    <2>1. UNCHANGED <<pos, at, status, failure>>
      BY <1>5 DEF TaskOnlyStep, SpawnTask, AttemptFails, TaskSucceeds, TaskFails
    <2> QED
      BY <1>1, <2>1 DEF HaveReady
  <1>6. CASE MoveStep
    <2>1. ~failure /\ \A c \in Block : Counted(c)
      <3>1. failure' = failure
        BY <1>6 DEF MoveStep, ActivateReader, ConsumeBlock, DropReaderBlock, DropClaim, StartBody,
           RetainForReplay
      <3> QED
        BY <1>1, <1>2, <3>1, CountedByBlock
    <2>2. at[r] = "Have" /\ pos'[r] = pos[r]
      BY <1>1, <1>2, <1>3, <1>6, MoveHave
    <2>3. status[pos[r]] = "Ready"
      BY <2>1, <2>2 DEF HaveReady
    <2>4. r \in Claimants(pos[r])
      BY <1>2, <2>2, AtHolds
    <2>5. status'[pos[r]] = "Ready"
      <3>1. SUFFICES ASSUME status'[pos[r]] # "Ready" PROVE FALSE
        OBVIOUS
      <3>2. remaining[pos[r]] = 1 /\ \E q \in Claimants(pos[r]) : at'[q] # "Have"
        BY <1>2, <1>3, <1>6, <2>1, <2>3, <3>1, ReadyLost
      <3>3. PICK q \in Claimants(pos[r]) : at'[q] # "Have"
        BY <3>2
      <3>4. q # r
        BY <1>1, <3>3
      <3>5. remaining[pos[r]] >= 2
        BY <1>3, <2>1, <2>4, <3>4, OwnClaim
      <3> QED
        BY <3>2, <3>5
    <2> QED
      BY <2>2, <2>5
  <1> QED
    BY <1>4, <1>5, <1>6, StepKinds

ReadyInv == ClaimsInv /\ ReadyNeeded /\ HaveReady

LEMMA ReadyInductive == Spec => []ReadyInv
  <1>1. Init => ReadyInv
    BY InitIInv, LifeInit, ClaimsInit, ReadyInit DEF ReadyInv, ClaimsInv
  <1>2. ReadyInv /\ [Next]_vars => ReadyInv'
    BY ClaimsNext, ReadyNeededNext, HaveReadyNext DEF ReadyInv
  <1> QED
    BY <1>1, <1>2, PTL DEF Spec

\* The bytes a reader copies from stay resident under a permit, from the lock
\* that handed the slice out until the reader itself passes the block: another
\* attempt's release, a rollback or a retry never takes them away.
THEOREM SlicesAreBacked == Spec => []SliceBacked
  <1>1. ReadyInv => SliceBacked
    <2>1. ASSUME ReadyInv, ~failure, NEW r \in Reader, at[r] = "Have"
          PROVE  status[pos[r]] = "Ready" /\ permit[pos[r]]
      <3>1. status[pos[r]] = "Ready" /\ pos[r] \in Block /\ Held = Resident
        BY <2>1, ProcFacts
           DEF ReadyInv, HaveReady, ClaimsInv, IInv, TypeOK, MemoryAccounting
      <3>2. pos[r] \in Resident
        BY <3>1 DEF Resident
      <3> QED
        BY <3>1, <3>2 DEF Held
    <2> QED
      BY <2>1 DEF SliceBacked
  <1> QED
    BY <1>1, ReadyInductive, PTL

-----------------------------------------------------------------------------
(* A block that is reserved or fetched has one owner *)

\* Only cancel() fails the store, and it stays failed.
LEMMA FailureRises == [Next]_vars => failure' = failure \/ Cancel
  <1>1. ASSUME MoveStep \/ TaskOnlyStep PROVE failure' = failure
    BY <1>1 DEF MoveStep, TaskOnlyStep, ActivateReader, ConsumeBlock, DropReaderBlock, DropClaim,
       StartBody, RetainForReplay, SpawnTask, AttemptFails, TaskSucceeds, TaskFails, sumVars
  <1> QED
    BY <1>1, StepKinds, QuietFailure

LEMMA FailureStays == [Next]_vars /\ ~failure' => ~failure
  BY FailureRises DEF Cancel

\* A notification moves q on.
Woke(q) == \/ at[q] = "Notify" /\ at'[q] = "Check"
           \/ at[q] = "Capacity" /\ at'[q] = "Reserve"

\* Apart from p, every process stays or is woken.
Apart(p) ==
  /\ \A q \in Proc \ {p} : pos'[q] = pos[q] /\ (at'[q] = at[q] \/ Woke(q))
  /\ prefetch' = prefetch \/ p = Scheduler

Holding(p) == at[p] = "Permit" \/ (p # Scheduler /\ at[p] \in {"Fetch", "Get"})
Busy       == {"Reserving", "Fetching"}

\* What a step of p does to block b: nothing to its owner, or p reserves it,
\* turns its reservation into a fetch, or gives it up.
Keeps(p, b)   == /\ ReservedBy(p, b)' <=> ReservedBy(p, b)
                 /\ FetchedBy(p, b)' <=> FetchedBy(p, b)
                 /\ status'[b] = status[b] \/ (status[b] \notin Busy /\ status'[b] \notin Busy)
Takes(p, b)   == /\ status[b] \notin Busy /\ status'[b] = "Reserving"
                 /\ ReservedBy(p, b)' /\ ~FetchedBy(p, b)'
Fetches(p, b) == /\ ReservedBy(p, b) /\ status'[b] = "Fetching"
                 /\ ~ReservedBy(p, b)' /\ FetchedBy(p, b)'
GivesUp(p, b) == /\ ReservedBy(p, b) \/ FetchedBy(p, b)
                 /\ status'[b] \notin Busy /\ ~ReservedBy(p, b)' /\ ~FetchedBy(p, b)'

OwnerMove(p, b) == Keeps(p, b) \/ Takes(p, b) \/ Fetches(p, b) \/ GivesUp(p, b)

OwnersMove == \E p \in Proc : Apart(p) /\ \A b \in Block : OwnerMove(p, b)

LEMMA OthersOwn ==
  ASSUME NEW p, Apart(p), NEW q \in Proc \ {p}, NEW b
  PROVE  /\ ReservedBy(q, b)' <=> ReservedBy(q, b)
         /\ FetchedBy(q, b)' <=> FetchedBy(q, b)
  BY DEF Apart, Woke, ReservedBy, FetchedBy

LEMMA OwnedStep ==
  ASSUME NEW p \in Proc, Apart(p), NEW b \in Block, Owned(b), OwnerMove(p, b)
  PROVE  Owned(b)'
  <1>1. \A q \in Proc \ {p} : /\ ReservedBy(q, b)' <=> ReservedBy(q, b)
                              /\ FetchedBy(q, b)' <=> FetchedBy(q, b)
    BY OthersOwn
  <1> SUFFICES /\ status'[b] = "Reserving" <=> \E q \in Proc : ReservedBy(q, b)'
               /\ status'[b] = "Fetching" <=> \E q \in Proc : FetchedBy(q, b)'
               /\ \A q, o \in Proc : ReservedBy(q, b)' /\ ReservedBy(o, b)' => q = o
               /\ \A q, o \in Proc : FetchedBy(q, b)' /\ FetchedBy(o, b)' => q = o
    BY DEF Owned
  <1>2. CASE Keeps(p, b)
    BY <1>1, <1>2 DEF Keeps, Owned, Busy
  <1>3. CASE Takes(p, b)
    BY <1>1, <1>3 DEF Takes, Owned, Busy
  <1>4. CASE Fetches(p, b)
    BY <1>1, <1>4 DEF Fetches, Owned, Busy
  <1>5. CASE GivesUp(p, b)
    BY <1>1, <1>5 DEF GivesUp, Owned, Busy
  <1> QED
    BY <1>2, <1>3, <1>4, <1>5 DEF OwnerMove

\* One process moves to another place, others may be woken.
LEMMA MoveOne ==
  ASSUME IInv, NEW p \in Proc, NEW to,
         \/ at' = [at EXCEPT ![p] = to]
         \/ \E s : at' = [Woken(s) EXCEPT ![p] = to],
         \A q \in Proc \ {p} : pos'[q] = pos[q], prefetch' = prefetch \/ p = Scheduler
  PROVE  Apart(p) /\ at'[p] = to
  <1>1. at \in [Proc -> Place]
    BY DEF IInv, TypeOK
  <1>2. CASE at' = [at EXCEPT ![p] = to]
    BY <1>1, <1>2 DEF Apart
  <1>3. ASSUME NEW s, at' = [Woken(s) EXCEPT ![p] = to] PROVE Apart(p) /\ at'[p] = to
    <2>1. at'[p] = to /\ \A q \in Proc \ {p} : at'[q] = Woken(s)[q]
      BY <1>1, <1>3, WokenType
    <2>2. ASSUME NEW q \in Proc \ {p} PROVE at'[q] = at[q] \/ Woke(q)
      BY <2>1 DEF Woken, Woke
    <2> QED
      BY <2>1, <2>2 DEF Apart
  <1> QED
    BY <1>2, <1>3

\* A process that holds no reservation or fetch moves.
LEMMA IdleMove ==
  ASSUME NEW p \in Proc, Apart(p), ~Holding(p), ~Holding(p)', prefetch' = prefetch,
         \A b \in Block : status'[b] = status[b] \/ (status[b] \notin Busy /\ status'[b] \notin Busy)
  PROVE  OwnersMove
  <1>1. ASSUME NEW b \in Block PROVE Keeps(p, b)
    BY DEF Keeps, ReservedBy, FetchedBy, Holding
  <1> QED
    BY <1>1 DEF OwnerMove, OwnersMove

\* Nobody moves, except those that are woken.
LEMMA NobodyMoves ==
  ASSUME \A q \in Proc : pos'[q] = pos[q] /\ (at'[q] = at[q] \/ Woke(q)),
         \A b \in Block : prefetch'[b] = "None" <=> prefetch[b] = "None",
         \A b \in Block : status'[b] = status[b] \/ (status[b] \notin Busy /\ status'[b] \notin Busy)
  PROVE  OwnersMove
  <1>1. Apart(Scheduler) /\ Scheduler \in Proc
    BY ProcFacts DEF Apart
  <1>2. ASSUME NEW b \in Block PROVE Keeps(Scheduler, b)
    BY <1>1 DEF Keeps, ReservedBy, FetchedBy, Woke
  <1> QED
    BY <1>1, <1>2 DEF OwnerMove, OwnersMove

LEMMA OwnersReserve ==
  ASSUME IInv, Owners, NEW p \in Proc, Reserve(p), ~failure
  PROVE  OwnersMove
  <1> USE DEF slotVars, sumVars, budgetVars, readerVars, schedVars, taskVars
  <1> DEFINE c == pos[p]
  <1>0. /\ at \in [Proc -> Place] /\ pos \in [Proc -> Block] /\ status \in [Block -> Status]
        /\ prefetch \in [Block -> {"None", "Pushed", "Getting"}] /\ c \in Block
        /\ \A b \in Block : Owned(b)
    BY DEF IInv, TypeOK, Owners
  <1>1. CASE ReserveNone(p) \/ ReserveWait(p)
    <2>1. PICK to \in {"Next", "Check", "Capacity"} : at' = [at EXCEPT ![p] = to]
      BY <1>1 DEF ReserveNone, ReserveWait, Resume
    <2>2. at[p] = "Reserve" /\ UNCHANGED <<pos, prefetch, status>>
      BY <1>1 DEF ReserveNone, ReserveWait
    <2>3. Apart(p) /\ at'[p] = to
      BY <2>1, <2>2, MoveOne
    <2>4. ~Holding(p) /\ ~Holding(p)'
      BY <2>2, <2>3 DEF Holding
    <2> QED
      BY <2>2, <2>3, <2>4, IdleMove
  <1>2. CASE ReserveCommit(p)
    <2>1. /\ at[p] = "Reserve" /\ at' = [at EXCEPT ![p] = "Permit"] /\ status[c] = "Pending"
          /\ status' = [status EXCEPT ![c] = "Reserving"] /\ UNCHANGED <<pos, prefetch>>
      BY <1>2 DEF ReserveCommit, Reservable
    <2>2. Apart(p) /\ at'[p] = "Permit"
      BY <2>1, MoveOne
    <2>3. ASSUME NEW b \in Block PROVE OwnerMove(p, b)
      <3>1. CASE b = c
        <4>1. ~FetchedBy(p, b)
          BY <1>0, <2>1, <3>1 DEF Owned
        <4>2. ~FetchedBy(p, b)' /\ ReservedBy(p, b)'
          BY <2>1, <2>2, <3>1, <4>1 DEF FetchedBy, ReservedBy
        <4> QED
          BY <1>0, <2>1, <3>1, <4>2 DEF OwnerMove, Takes, Busy
      <3>2. CASE b # c
        BY <1>0, <2>1, <2>2, <3>2 DEF OwnerMove, Keeps, FetchedBy, ReservedBy
      <3> QED BY <3>1, <3>2
    <2> QED
      BY <2>2, <2>3 DEF OwnersMove
  <1>3. CASE PermitTaken(p)
    <2>1. /\ at[p] = "Permit" /\ status[c] = "Reserving"
          /\ status' = [status EXCEPT ![c] = "Fetching"] /\ UNCHANGED pos
          /\ IF p = Scheduler
             THEN /\ at' = [Woken({"notify"}) EXCEPT ![p] = "Next"]
                  /\ prefetch' = [prefetch EXCEPT ![c] = "Pushed"]
             ELSE /\ at' = [Woken({"notify"}) EXCEPT ![p] = "Fetch"]
                  /\ UNCHANGED prefetch
      BY <1>3 DEF PermitTaken, PermitReady
    <2>2. Apart(p) /\ at'[p] = IF p = Scheduler THEN "Next" ELSE "Fetch"
      BY <2>1, MoveOne
    <2>3. ASSUME NEW b \in Block PROVE OwnerMove(p, b)
      <3>1. CASE b = c
        <4>1. ReservedBy(p, b) /\ ~ReservedBy(p, b)' /\ FetchedBy(p, b)'
          BY <1>0, <2>1, <2>2, <3>1 DEF FetchedBy, ReservedBy
        <4> QED
          BY <1>0, <2>1, <3>1, <4>1 DEF OwnerMove, Fetches
      <3>2. CASE b # c
        BY <1>0, <2>1, <2>2, <3>2 DEF OwnerMove, Keeps, FetchedBy, ReservedBy
      <3> QED BY <3>1, <3>2
    <2> QED
      BY <2>2, <2>3 DEF OwnersMove
  <1>4. CASE PermitUnneeded(p)
    <2>1. /\ at[p] = "Permit" /\ UNCHANGED <<pos, prefetch>>
          /\ at' = [Woken({"capacity"}) EXCEPT ![p] = Resume(p)]
      BY <1>4 DEF PermitUnneeded, PermitReady
    <2>2. status[c] = "Reserving"
      BY <1>0, <2>1 DEF Owned, ReservedBy
    <2>3. status' = [status EXCEPT ![c] = "Released"]
      BY <1>4, <2>2 DEF PermitUnneeded
    <2>4. Apart(p) /\ at'[p] = Resume(p) /\ Resume(p) \in {"Next", "Check"}
      BY <2>1, MoveOne DEF Resume
    <2>5. ASSUME NEW b \in Block PROVE OwnerMove(p, b)
      <3>1. CASE b = c
        <4>1. ReservedBy(p, b) /\ ~ReservedBy(p, b)'
          BY <2>1, <2>4, <3>1 DEF ReservedBy
        <4>2. ~FetchedBy(p, b)
          BY <1>0, <2>2, <3>1 DEF Owned
        <4>3. ~FetchedBy(p, b)'
          BY <2>1, <2>4, <3>1, <4>2 DEF FetchedBy
        <4> QED
          BY <1>0, <2>3, <3>1, <4>1, <4>3 DEF OwnerMove, GivesUp, Busy
      <3>2. CASE b # c
        BY <1>0, <2>1, <2>3, <2>4, <3>2 DEF OwnerMove, Keeps, FetchedBy, ReservedBy
      <3> QED BY <3>1, <3>2
    <2> QED
      BY <2>4, <2>5 DEF OwnersMove
  <1>5. CASE ReserveFailed(p) \/ PermitCancelled(p)
    BY <1>5 DEF ReserveFailed, PermitCancelled
  <1> QED
    BY <1>1, <1>2, <1>3, <1>4, <1>5 DEF Reserve

\* The owner of a reservation or fetch on c ends it: c is no longer busy.
LEMMA OwnerEnds ==
  ASSUME IInv, NEW p \in Proc, NEW c \in Block, NEW to, NEW new, new \notin Busy,
         Owned(c), ReservedBy(p, c) \/ FetchedBy(p, c),
         status' = [status EXCEPT ![c] = new],
         at' = [at EXCEPT ![p] = to] \/ \E s : at' = [Woken(s) EXCEPT ![p] = to],
         \A q \in Proc : pos'[q] = pos[q],
         IF p = Scheduler
         THEN /\ prefetch'[c] = "None" /\ to # "Permit"
              /\ at[Scheduler] = "Permit" => pos[Scheduler] = c
              /\ \A b \in Block : b # c => prefetch'[b] = prefetch[b]
         ELSE to \notin {"Permit", "Fetch", "Get"} /\ prefetch' = prefetch
  PROVE  OwnersMove
  <1>1. Apart(p) /\ at'[p] = to
    BY MoveOne
  <1>2. status \in [Block -> Status]
    BY DEF IInv, TypeOK
  <1>3. ASSUME NEW b \in Block PROVE OwnerMove(p, b)
    <2>1. CASE b = c
      <3>1. ~ReservedBy(p, b)' /\ ~FetchedBy(p, b)'
        BY <1>1, <2>1 DEF ReservedBy, FetchedBy
      <3> QED
        BY <1>2, <2>1, <3>1 DEF OwnerMove, GivesUp
    <2>2. CASE b # c
      <3>1. status'[b] = status[b]
        BY <1>2, <2>2
      <3>2. CASE p = Scheduler
        BY <1>1, <2>2, <3>1, <3>2 DEF OwnerMove, Keeps, ReservedBy, FetchedBy
      <3>3. CASE p # Scheduler
        <4>1. pos[p] = c
          BY <3>3 DEF ReservedBy, FetchedBy
        <4> QED
          BY <1>1, <2>2, <3>1, <3>3, <4>1 DEF OwnerMove, Keeps, ReservedBy, FetchedBy
      <3> QED BY <3>2, <3>3
    <2> QED BY <2>1, <2>2
  <1> QED
    BY <1>1, <1>3 DEF OwnersMove

LEMMA FinishMoves ==
  ASSUME NEW b \in Block, NEW ok, NEW p, NEW to, FinishFetch(b, ok, p, to), ~failure,
         status[b] = "Fetching"
  PROVE  /\ \E new \in {"Ready", "Released", "Failed"} : status' = [status EXCEPT ![b] = new]
         /\ \E s : at' = [Woken(s) EXCEPT ![p] = to]
  <1>1. CASE ok /\ (remaining[b] > 0 \/ live[b] > 0)
    BY <1>1 DEF FinishFetch
  <1>2. CASE ~(ok /\ (remaining[b] > 0 \/ live[b] > 0))
    <2>1. status' = [status EXCEPT ![b] = IF ok THEN "Released" ELSE "Failed"]
      BY <1>2 DEF FinishFetch
    <2>2. at' = [Woken({"notify", "capacity"}) EXCEPT ![p] = to]
      BY <1>2 DEF FinishFetch
    <2> QED BY <2>1, <2>2
  <1> QED BY <1>1, <1>2

LEMMA RollbackMoves ==
  ASSUME NEW b \in Block, NEW p, NEW to, NEW q, RollbackFetch(b, p, to, q), status[b] \in Busy
  PROVE  /\ status' = [status EXCEPT ![b] = "Pending"]
         /\ \E s : at' = [Woken(s) EXCEPT ![p] = to]
  BY DEF RollbackFetch, Busy

LEMMA OwnersFinish ==
  ASSUME IInv, Owners, ~failure,
         \/ \E r \in Reader, ok \in BOOLEAN : DemandDone(r, ok)
         \/ \E b \in Block, ok \in BOOLEAN : PrefetchDone(b, ok)
  PROVE  OwnersMove
  <1> USE DEF slotVars, sumVars, budgetVars, readerVars, schedVars, taskVars
  <1>0. /\ prefetch \in [Block -> {"None", "Pushed", "Getting"}]
        /\ Scheduler \in Proc /\ Reader \subseteq Proc /\ Scheduler \notin Reader
        /\ \A p \in Proc : pos[p] \in Block
        /\ \A b \in Block : Owned(b)
    BY ProcFacts DEF IInv, TypeOK, Owners
  <1>1. ASSUME NEW r \in Reader, NEW ok \in BOOLEAN, DemandDone(r, ok) PROVE OwnersMove
    <2> DEFINE c == pos[r]
    <2>1. at[r] = "Get" /\ FinishFetch(c, ok, r, "Check") /\ UNCHANGED <<pos, prefetch>>
          /\ c \in Block /\ r # Scheduler
      BY <1>0, <1>1 DEF DemandDone
    <2>2. FetchedBy(r, c)
      BY <2>1 DEF FetchedBy
    <2>3. status[c] = "Fetching"
      BY <1>0, <2>1, <2>2 DEF Owned
    <2>4. /\ \E new \in {"Ready", "Released", "Failed"} : status' = [status EXCEPT ![c] = new]
          /\ \E s : at' = [Woken(s) EXCEPT ![r] = "Check"]
      BY <2>1, <2>3, FinishMoves
    <2>5. PICK new \in {"Ready", "Released", "Failed"} : status' = [status EXCEPT ![c] = new]
      BY <2>4
    <2>6. new \notin Busy
      BY <2>5 DEF Busy
    <2> HIDE DEF c
    <2> QED
      BY <1>0, <2>1, <2>2, <2>4, <2>5, <2>6, OwnerEnds
  <1>2. ASSUME NEW c \in Block, NEW ok \in BOOLEAN, PrefetchDone(c, ok) PROVE OwnersMove
    <2>1. /\ at[Scheduler] = "Poll" /\ prefetch[c] = "Getting"
          /\ FinishFetch(c, ok, Scheduler, "Next")
          /\ prefetch' = [prefetch EXCEPT ![c] = "None"] /\ UNCHANGED pos
      BY <1>2 DEF PrefetchDone
    <2>2. FetchedBy(Scheduler, c)
      BY <2>1 DEF FetchedBy
    <2>3. status[c] = "Fetching"
      BY <1>0, <2>2 DEF Owned
    <2>4. /\ \E new \in {"Ready", "Released", "Failed"} : status' = [status EXCEPT ![c] = new]
          /\ \E s : at' = [Woken(s) EXCEPT ![Scheduler] = "Next"]
      BY <2>1, <2>3, FinishMoves
    <2>5. PICK new \in {"Ready", "Released", "Failed"} : status' = [status EXCEPT ![c] = new]
      BY <2>4
    <2>6. new \notin Busy
      BY <2>5 DEF Busy
    <2>7. prefetch'[c] = "None" /\ \A b \in Block : b # c => prefetch'[b] = prefetch[b]
      BY <1>0, <2>1
    <2> QED
      BY <1>0, <2>1, <2>2, <2>4, <2>5, <2>6, <2>7, OwnerEnds
  <1> QED
    BY <1>1, <1>2

LEMMA OwnersAbort ==
  ASSUME IInv, Owners, ~failure,
         \/ \E r \in Reader : AbortReader(r)
         \/ AbortScheduler
         \/ \E b \in Block : DropPrefetch(b)
  PROVE  OwnersMove
  <1> USE DEF slotVars, sumVars, budgetVars, readerVars, schedVars, taskVars
  <1>0. /\ prefetch \in [Block -> {"None", "Pushed", "Getting"}]
        /\ Scheduler \in Proc /\ Reader \subseteq Proc /\ Scheduler \notin Reader
        /\ \A p \in Proc : pos[p] \in Block
        /\ \A b \in Block : Owned(b)
    BY ProcFacts DEF IInv, TypeOK, Owners
  <1>1. ASSUME NEW r \in Reader, AbortReader(r) PROVE OwnersMove
    <2> DEFINE c == pos[r]
    <2>1. UNCHANGED <<pos, prefetch>> /\ c \in Block /\ r # Scheduler /\ r \in Proc
      BY <1>0, <1>1 DEF AbortReader
    <2>2. CASE at[r] \in {"Permit", "Fetch", "Get"}
      <3>1. RollbackFetch(c, r, "None", Leave(queue, r))
        BY <1>1, <2>2 DEF AbortReader
      <3>2. ReservedBy(r, c) \/ FetchedBy(r, c)
        BY <2>1, <2>2 DEF ReservedBy, FetchedBy
      <3>3. status[c] \in Busy
        BY <1>0, <2>1, <3>2 DEF Owned, Busy
      <3>4. /\ status' = [status EXCEPT ![c] = "Pending"]
            /\ \E s : at' = [Woken(s) EXCEPT ![r] = "None"]
        BY <2>1, <3>1, <3>3, RollbackMoves
      <3>5. "Pending" \notin Busy
        BY DEF Busy
      <3> HIDE DEF c
      <3> QED
        BY <1>0, <2>1, <3>2, <3>4, <3>5, OwnerEnds
    <2>3. CASE at[r] \notin {"Permit", "Fetch", "Get"}
      <3>1. at' = [at EXCEPT ![r] = "None"] /\ UNCHANGED status
        BY <1>1, <2>3 DEF AbortReader
      <3>2. Apart(r) /\ at'[r] = "None"
        BY <2>1, <3>1, MoveOne
      <3>3. ~Holding(r) /\ ~Holding(r)'
        BY <2>3, <3>2 DEF Holding
      <3> QED
        BY <2>1, <3>1, <3>2, <3>3, IdleMove
    <2> QED BY <2>2, <2>3
  <1>2. CASE AbortScheduler
    <2> DEFINE c == pos[Scheduler]
    <2>1. UNCHANGED <<pos, prefetch>> /\ c \in Block
      BY <1>0, <1>2 DEF AbortScheduler
    <2>2. CASE at[Scheduler] = "Permit"
      <3>1. RollbackFetch(c, Scheduler, "Stopped", Leave(queue, Scheduler))
        BY <1>2, <2>2 DEF AbortScheduler
      <3>2. ReservedBy(Scheduler, c)
        BY <2>2 DEF ReservedBy
      <3>3. status[c] = "Reserving"
        BY <1>0, <2>1, <3>2 DEF Owned
      <3>4. prefetch[c] = "None"
        BY <1>0, <2>1, <3>3 DEF Owned, FetchedBy
      <3>5. status[c] \in Busy /\ "Pending" \notin Busy
        BY <3>3 DEF Busy
      <3>6. /\ status' = [status EXCEPT ![c] = "Pending"]
            /\ \E s : at' = [Woken(s) EXCEPT ![Scheduler] = "Stopped"]
        BY <2>1, <3>1, <3>5, RollbackMoves
      <3>7. at[Scheduler] = "Permit" => pos[Scheduler] = c
        OBVIOUS
      <3> HIDE DEF c
      <3> QED
        BY <1>0, <2>1, <3>2, <3>4, <3>5, <3>6, <3>7, OwnerEnds
    <2>3. CASE at[Scheduler] # "Permit"
      <3>1. at' = [at EXCEPT ![Scheduler] = "Stopped"] /\ UNCHANGED status
        BY <1>2, <2>3 DEF AbortScheduler
      <3>2. Apart(Scheduler) /\ at'[Scheduler] = "Stopped"
        BY <1>0, <2>1, <3>1, MoveOne
      <3>3. ~Holding(Scheduler) /\ ~Holding(Scheduler)'
        BY <2>3, <3>2 DEF Holding
      <3> QED
        BY <1>0, <2>1, <3>1, <3>2, <3>3, IdleMove
    <2> QED BY <2>2, <2>3
  <1>3. ASSUME NEW c \in Block, DropPrefetch(c) PROVE OwnersMove
    <2>1. /\ at[Scheduler] = "Stopped" /\ prefetch[c] # "None"
          /\ RollbackFetch(c, Scheduler, "Stopped", queue)
          /\ prefetch' = [prefetch EXCEPT ![c] = "None"] /\ UNCHANGED pos
      BY <1>3 DEF DropPrefetch
    <2>2. FetchedBy(Scheduler, c)
      BY <2>1 DEF FetchedBy
    <2>3. status[c] = "Fetching"
      BY <1>0, <2>2 DEF Owned
    <2>4. status[c] \in Busy /\ "Pending" \notin Busy
      BY <2>3 DEF Busy
    <2>5. /\ status' = [status EXCEPT ![c] = "Pending"]
          /\ \E s : at' = [Woken(s) EXCEPT ![Scheduler] = "Stopped"]
      BY <2>1, <2>4, RollbackMoves
    <2>6. prefetch'[c] = "None" /\ \A b \in Block : b # c => prefetch'[b] = prefetch[b]
      BY <1>0, <2>1
    <2> QED
      BY <1>0, <2>1, <2>2, <2>4, <2>5, <2>6, OwnerEnds
  <1> QED
    BY <1>1, <1>2, <1>3

\* The other steps of the fetching code and of the scheduler.
LEMMA OwnersQuiet ==
  ASSUME IInv, ~failure',
         \/ \E r \in Reader : \/ SliceReady(r) \/ SliceWait(r) \/ SliceDemand(r) \/ SliceError(r)
                              \/ ActivateError(r) \/ DemandGet(r)
         \/ StartScheduler \/ PrefetchNext \/ PrefetchAwait
         \/ \E b \in Block : PrefetchGet(b)
         \/ Cancel \/ UNCHANGED vars
  PROVE  OwnersMove
  <1> USE DEF slotVars, sumVars, budgetVars, readerVars, schedVars, taskVars
  <1>0. /\ prefetch \in [Block -> {"None", "Pushed", "Getting"}] /\ at \in [Proc -> Place]
        /\ Scheduler \in Proc /\ Reader \subseteq Proc /\ Scheduler \notin Reader
        /\ pos \in [Proc -> Block]
    BY ProcFacts DEF IInv, TypeOK
  <1>1. ASSUME NEW r \in Reader,
               SliceReady(r) \/ SliceWait(r) \/ SliceDemand(r) \/ SliceError(r) \/ ActivateError(r)
        PROVE  OwnersMove
    <2>1. /\ at[r] \in {"Check", "Have"} /\ UNCHANGED <<pos, prefetch, status>>
          /\ \E to \in {"Have", "Notify", "Reserve", "None"} : at' = [at EXCEPT ![r] = to]
      BY <1>0, <1>1 DEF SliceReady, SliceWait, SliceDemand, SliceError, ActivateError, ReturnErr
    <2>2. PICK to \in {"Have", "Notify", "Reserve", "None"} : at' = [at EXCEPT ![r] = to]
      BY <2>1
    <2>3. Apart(r) /\ at'[r] = to
      BY <1>0, <2>1, <2>2, MoveOne
    <2>4. ~Holding(r) /\ ~Holding(r)'
      BY <2>1, <2>2, <2>3 DEF Holding
    <2> QED
      BY <1>0, <2>1, <2>3, <2>4, IdleMove
  <1>2. ASSUME NEW r \in Reader, DemandGet(r) PROVE OwnersMove
    <2>1. at[r] = "Fetch" /\ at' = [at EXCEPT ![r] = "Get"] /\ UNCHANGED <<pos, prefetch, status>>
      BY <1>2 DEF DemandGet
    <2>2. Apart(r) /\ at'[r] = "Get" /\ r \in Proc /\ r # Scheduler
      BY <1>0, <2>1, MoveOne
    <2>3. ASSUME NEW b \in Block PROVE OwnerMove(r, b)
      BY <2>1, <2>2 DEF OwnerMove, Keeps, ReservedBy, FetchedBy
    <2> QED
      BY <2>2, <2>3 DEF OwnersMove
  <1>3. CASE StartScheduler \/ PrefetchNext \/ PrefetchAwait
    <2>1. /\ at[Scheduler] \in {"None", "Next"} /\ UNCHANGED <<prefetch, status>>
          /\ \E to \in {"Next", "Reserve", "Poll", "Stopped"} : at' = [at EXCEPT ![Scheduler] = to]
          /\ \A q \in Proc \ {Scheduler} : pos'[q] = pos[q]
      BY <1>0, <1>3 DEF StartScheduler, PrefetchNext, PrefetchAwait
    <2>2. PICK to \in {"Next", "Reserve", "Poll", "Stopped"} : at' = [at EXCEPT ![Scheduler] = to]
      BY <2>1
    <2>3. Apart(Scheduler) /\ at'[Scheduler] = to
      BY <1>0, <2>1, <2>2, MoveOne
    <2>4. ~Holding(Scheduler) /\ ~Holding(Scheduler)'
      BY <2>1, <2>2, <2>3 DEF Holding
    <2> QED
      BY <1>0, <2>1, <2>3, <2>4, IdleMove
  <1>4. ASSUME NEW b \in Block, PrefetchGet(b) PROVE OwnersMove
    BY <1>0, <1>4, NobodyMoves DEF PrefetchGet
  <1>5. CASE Cancel \/ UNCHANGED vars
    BY <1>5, NobodyMoves DEF Cancel, vars
  <1> QED
    BY <1>1, <1>2, <1>3, <1>4, <1>5

\* Moving claims owns and disowns nothing.
LEMMA OwnersClaims ==
  ASSUME IInv, LifeInv, MoveStep \/ TaskOnlyStep
  PROVE  OwnersMove
  <1> USE DEF slotVars, sumVars, budgetVars, readerVars, schedVars, taskVars
  <1>0. /\ at \in [Proc -> Place] /\ pos \in [Proc -> Block] /\ status \in [Block -> Status]
        /\ Reader \subseteq Proc /\ Scheduler \notin Reader /\ \A r \in Reader : pos[r] \in Block
    BY ProcFacts DEF IInv, TypeOK
  <1>1. ASSUME NEW r \in Reader, ConsumeBlock(r) \/ DropReaderBlock(r) PROVE OwnersMove
    <2> DEFINE c == pos[r]
    <2>1. PICK to \in {"None", "Check"} : ReleaseBlockReader(c, r, to)
      BY <1>1 DEF ConsumeBlock, DropReaderBlock
    <2>2. at' = [at EXCEPT ![r] = to] \/ \E s : at' = [Woken(s) EXCEPT ![r] = to]
      BY <2>1 DEF ReleaseBlockReader
    <2>3. \A b \in Block : status'[b] = status[b] \/ (status[b] \notin Busy /\ status'[b] \notin Busy)
      BY <2>1 DEF ReleaseBlockReader, ReleaseReady, Busy
    <2>4. at[r] \in {"Have", "None"} /\ UNCHANGED prefetch
      BY <1>1 DEF ConsumeBlock, DropReaderBlock, IInv, ReaderPlaced, Active
    <2>5. \A q \in Proc \ {r} : pos'[q] = pos[q]
      <3>1. pos' = pos \/ \E x : pos' = [pos EXCEPT ![r] = x]
        BY <1>1 DEF ConsumeBlock, DropReaderBlock, NextBlockOr
      <3> QED BY <1>0, <3>1
    <2>6. Apart(r) /\ at'[r] = to
      BY <1>0, <2>2, <2>4, <2>5, MoveOne
    <2>7. ~Holding(r) /\ ~Holding(r)'
      BY <2>1, <2>4, <2>6 DEF Holding
    <2> QED
      BY <1>0, <2>3, <2>4, <2>6, <2>7, IdleMove
  <1>2. ASSUME NEW r \in Reader, ActivateReader(r) PROVE OwnersMove
    <2>1. /\ at[r] = "Have" /\ at' = [at EXCEPT ![r] = "Check"]
          /\ UNCHANGED <<pos, prefetch, status>>
      BY <1>2 DEF ActivateReader
    <2>2. Apart(r) /\ at'[r] = "Check" /\ r \in Proc
      BY <1>0, <2>1, MoveOne
    <2>3. ~Holding(r) /\ ~Holding(r)'
      BY <2>1, <2>2 DEF Holding
    <2> QED
      BY <2>1, <2>2, <2>3, IdleMove
  <1>3. ASSUME NEW r \in Reader, DropClaim(r) PROVE OwnersMove
    <2>1. at[r] = "None" /\ r \in Proc
      BY <1>0, <1>3 DEF DropClaim, IInv, ReaderPlaced, Active
    <2>2. /\ at' = at \/ at' = Woken({"capacity"})
          /\ pos' = [pos EXCEPT ![r] = LastBlock[r[1]]] /\ UNCHANGED prefetch
          /\ \A b \in Block : status'[b] = status[b] \/ (status[b] \notin Busy /\ status'[b] \notin Busy)
      BY <1>3 DEF DropClaim, ReleaseReady, Busy
    <2>3. \A q \in Proc : at'[q] = at[q] \/ Woke(q)
      BY <2>2 DEF Woken, Woke
    <2>4. Apart(r)
      BY <1>0, <2>2, <2>3 DEF Apart
    <2>5. ~Holding(r) /\ ~Holding(r)'
      BY <2>1, <2>3 DEF Holding, Woke
    <2> QED
      BY <2>1, <2>2, <2>4, <2>5, IdleMove
  <1>4. ASSUME NEW e \in Entry, AddReplayClaims(e) \/ UNCHANGED status, NEW b \in Block
        PROVE  status'[b] = status[b] \/ (status[b] \notin Busy /\ status'[b] \notin Busy)
    BY <1>4 DEF AddReplayClaims, Busy
  <1>5. ASSUME NEW e \in Entry, RetainForReplay(e) PROVE OwnersMove
    <2>1. \A q \in Proc : at'[q] = at[q] \/ Woke(q)
      BY <1>5 DEF RetainForReplay, Woken, Woke
    <2>2. UNCHANGED <<pos, prefetch>> /\ AddReplayClaims(e)
      BY <1>5 DEF RetainForReplay
    <2> QED
      BY <1>4, <2>1, <2>2, NobodyMoves
  <1>6. ASSUME NEW e \in Entry, StartBody(e) PROVE OwnersMove
    <2>1. PICK r \in Reader : r = <<e, attempt[e] + 1>> /\ phase[r] = "Idle"
      <3> DEFINE r == <<e, attempt[e] + 1>>
      <3>1. MaxAttempts[e] \in Nat /\ attempt[e] \in Nat /\ attempt[e] < MaxAttempts[e]
        BY <1>6, EntriesAssumption DEF StartBody, IInv, TypeOK
      <3>2. attempt[e] + 1 \in Nat /\ 1 <= attempt[e] + 1 /\ attempt[e] + 1 <= MaxAttempts[e]
        BY <3>1
      <3>3. r \in Reader
        BY <3>2, ProcFacts
      <3>4. r[1] = e /\ r[2] = attempt[e] + 1 /\ r[2] > attempt[e]
        BY <3>1
      <3>5. phase[r] = "Idle"
        BY <3>3, <3>4 DEF LifeInv, Started
      <3> QED BY <3>3, <3>5
    <2>2. at[r] = "None" /\ r \in Proc
      BY <1>0, <2>1 DEF IInv, ReaderPlaced, Active
    <2>3. /\ at' = [at EXCEPT ![r] = "Check"] \/ \E s : at' = [Woken(s) EXCEPT ![r] = "Check"]
          /\ pos' = [pos EXCEPT ![r] = FirstBlock[e]] /\ UNCHANGED prefetch
          /\ AddReplayClaims(e) \/ UNCHANGED status
      BY <1>6, <2>1 DEF StartBody
    <2>4. \A q \in Proc \ {r} : pos'[q] = pos[q]
      BY <1>0, <2>3
    <2>5. Apart(r) /\ at'[r] = "Check"
      BY <2>2, <2>3, <2>4, MoveOne
    <2>6. ~Holding(r) /\ ~Holding(r)'
      BY <2>2, <2>5 DEF Holding
    <2> QED
      BY <1>4, <2>2, <2>3, <2>5, <2>6, IdleMove
  <1>7. CASE TaskOnlyStep
    <2>1. UNCHANGED <<pos, at, prefetch, status>>
      BY <1>7 DEF TaskOnlyStep, SpawnTask, AttemptFails, TaskSucceeds, TaskFails
    <2> QED
      BY <2>1, NobodyMoves
  <1> QED
    BY <1>1, <1>2, <1>3, <1>5, <1>6, <1>7 DEF MoveStep

LEMMA OwnersStep ==
  ASSUME IInv, LifeInv, Owners, [Next]_vars, ~failure'
  PROVE  ~failure /\ OwnersMove
  <1>1. ~failure
    BY FailureStays
  <1>2. CASE QuietStep
    BY <1>1, <1>2, OwnersReserve, OwnersFinish, OwnersAbort, OwnersQuiet
       DEF QuietStep, SchedulerStep
  <1> QED
    BY <1>1, <1>2, StepKinds, OwnersClaims

LEMMA OwnersNext ==
  ASSUME IInv, LifeInv, Owners, [Next]_vars
  PROVE  Owners'
  <1> SUFFICES ASSUME ~failure', NEW b \in Block PROVE Owned(b)'
    BY DEF Owners, Owned, ReservedBy, FetchedBy
  <1>1. ~failure /\ OwnersMove
    BY OwnersStep
  <1>2. PICK p \in Proc : Apart(p) /\ OwnerMove(p, b)
    BY <1>1 DEF OwnersMove
  <1> QED
    BY <1>1, <1>2, OwnedStep DEF Owners

LEMMA OwnersInit == Init => Owners
  <1> SUFFICES ASSUME Init, NEW b \in Block PROVE Owned(b)
    BY DEF Owners
  <1>1. \A p \in Proc : ~ReservedBy(p, b) /\ ~FetchedBy(p, b)
    BY DEF Init, ReservedBy, FetchedBy
  <1> QED
    BY <1>1 DEF Init, Owned

OwnersInv == ClaimsInv /\ Owners

LEMMA OwnersInductive == Spec => []OwnersInv
  <1>1. Init => OwnersInv
    BY InitIInv, LifeInit, ClaimsInit, OwnersInit DEF OwnersInv, ClaimsInv
  <1>2. OwnersInv /\ [Next]_vars => OwnersInv'
    BY ClaimsNext, OwnersNext DEF OwnersInv, ClaimsInv
  <1> QED
    BY <1>1, <1>2, PTL DEF Spec

\* A set with at most one member.
LEMMA OneOrNone ==
  ASSUME NEW S, \A x, y \in S : x = y
  PROVE  Cardinality(S) = IF S = {} THEN 0 ELSE 1
  <1>1. CASE S = {}
    BY <1>1, FS_EmptySet
  <1>2. CASE S # {}
    <2>1. PICK x \in S : TRUE
      BY <1>2
    <2>2. S = {x}
      BY <2>1
    <2> QED
      BY <2>2, FS_Singleton
  <1> QED
    BY <1>1, <1>2

\* A block is reserved or fetched by exactly one future, from the lock that
\* marks the slot to the one that finishes it or rolls it back, whatever the
\* order of prefetching, demand fetches, retries and aborts: no block is fetched
\* twice at a time, and no slot is left behind that nobody will finish.
THEOREM FetchesAreOwned == Spec => []OneFetcher
  <1>1. OwnersInv => OneFetcher
    <2>1. ASSUME OwnersInv, ~failure, NEW b \in Block
          PROVE  /\ Cardinality(Reservations(b)) = (IF status[b] = "Reserving" THEN 1 ELSE 0)
                 /\ Cardinality(Fetchers(b)) = (IF status[b] = "Fetching" THEN 1 ELSE 0)
      <3>1. Owned(b)
        BY <2>1 DEF OwnersInv, Owners
      <3>2. Reservations(b) = {p \in Proc : ReservedBy(p, b)}
        BY DEF Reservations, ReservedBy
      <3>3. Fetchers(b) = {p \in Proc : FetchedBy(p, b)}
        BY ProcFacts DEF Fetchers, FetchedBy, Proc
      <3>4. /\ \A x, y \in Reservations(b) : x = y
            /\ Reservations(b) = {} <=> status[b] # "Reserving"
        BY <3>1, <3>2 DEF Owned
      <3>5. /\ \A x, y \in Fetchers(b) : x = y
            /\ Fetchers(b) = {} <=> status[b] # "Fetching"
        BY <3>1, <3>3 DEF Owned
      <3>6. Cardinality(Reservations(b)) = IF Reservations(b) = {} THEN 0 ELSE 1
        BY <3>4, OneOrNone
      <3>7. Cardinality(Fetchers(b)) = IF Fetchers(b) = {} THEN 0 ELSE 1
        BY <3>5, OneOrNone
      <3> QED
        BY <3>4, <3>5, <3>6, <3>7
    <2> QED
      BY <2>1 DEF OneFetcher
  <1> QED
    BY <1>1, OwnersInductive, PTL

-----------------------------------------------------------------------------
(* No wake-up is lost *)

\* Nobody falls asleep in the step, and who is notified by `s` wakes up.
Wakes(s) ==
  \A q \in Proc :
    /\ at'[q] = "Notify" => at[q] = "Notify" /\ pos'[q] = pos[q] /\ "notify" \notin s
    /\ at'[q] = "Capacity" => at[q] = "Capacity" /\ pos'[q] = pos[q] /\ "capacity" \notin s

\* A step that ends what a reader waits for, or that frees window bytes, notifies.
Tells(s) ==
  /\ \/ "notify" \in s
     \/ \A r \in Reader : at[r] = "Notify" /\ status[pos[r]] \in Busy => status'[pos[r]] \in Busy
  /\ "capacity" \in s \/ committed <= committed'

LEMMA WakeupKept ==
  ASSUME IInv, IInv', NoLostWakeup, NEW s, Wakes(s), Tells(s),
         failure' => failure \/ {"notify", "capacity"} \subseteq s
  PROVE  NoLostWakeup'
  <1>1. ASSUME NEW r \in Reader, at'[r] = "Notify"
        PROVE  ~failure' /\ status'[pos'[r]] \in {"Reserving", "Fetching"}
    <2>1. at[r] = "Notify" /\ pos'[r] = pos[r] /\ "notify" \notin s
      BY <1>1, ProcFacts DEF Wakes
    <2>2. ~failure /\ status[pos[r]] \in Busy
      BY <2>1 DEF NoLostWakeup, Busy
    <2> QED
      BY <2>1, <2>2 DEF Tells, Busy
  <1>2. ASSUME NEW p \in Proc, at'[p] = "Capacity"
        PROVE  ~failure' /\ ~FitsWindow(pos[p])'
    <2>1. at[p] = "Capacity" /\ pos'[p] = pos[p] /\ "capacity" \notin s
      BY <1>2 DEF Wakes
    <2>2. ~failure /\ ~FitsWindow(pos[p]) /\ committed <= committed'
      BY <2>1 DEF NoLostWakeup, Tells
    <2>3. committed \in Nat /\ committed' \in Nat /\ Len1(pos[p]) \in Nat /\ WindowBytes \in Nat
      <3>1. committed \in Nat /\ committed' \in Nat /\ pos[p] \in Block
        BY DEF IInv, TypeOK
      <3> QED
        BY <3>1, BlockBytes, SizesAssumption
    <2>4. PICK b : b = pos[p]
      OBVIOUS
    <2>5. ~FitsWindow(b)'
      BY <2>2, <2>3, <2>4 DEF FitsWindow
    <2> QED
      BY <2>1, <2>2, <2>4, <2>5
  <1> QED
    BY <1>1, <1>2 DEF NoLostWakeup

LEMMA WakesOne ==
  ASSUME IInv, NEW p \in Proc, NEW to, to \notin {"Notify", "Capacity"}, NEW s,
         at' = [Woken(s) EXCEPT ![p] = to],
         \A q \in Proc \ {p} : pos'[q] = pos[q]
  PROVE  Wakes(s)
  <1>1. at \in [Proc -> Place] /\ Woken(s) \in [Proc -> Place]
    BY WokenType DEF IInv, TypeOK
  <1>2. at'[p] = to /\ \A q \in Proc \ {p} : at'[q] = Woken(s)[q]
    BY <1>1
  <1>3. ASSUME NEW q \in Proc
        PROVE  /\ Woken(s)[q] = "Notify" => at[q] = "Notify" /\ "notify" \notin s
               /\ Woken(s)[q] = "Capacity" => at[q] = "Capacity" /\ "capacity" \notin s
    BY DEF Woken
  <1> QED
    BY <1>2, <1>3 DEF Wakes

LEMMA WokenNone == IInv => Woken({}) = at
  BY DEF IInv, TypeOK, Woken

\* The steps of the fetching code: what they end or free, they announce.
LEMMA FinishTells ==
  ASSUME IInv, NEW b, NEW ok, NEW p, NEW to, FinishFetch(b, ok, p, to)
  PROVE  \E s : Tells(s) /\ at' = [Woken(s) EXCEPT ![p] = to]
  <1>1. committed \in Nat
    BY DEF IInv, TypeOK
  <1>2. CASE failure \/ status[b] # "Fetching"
    BY <1>1, <1>2, WokenNone DEF FinishFetch, Tells
  <1>3. CASE ~(failure \/ status[b] # "Fetching") /\ ok /\ (remaining[b] > 0 \/ live[b] > 0)
    BY <1>1, <1>3 DEF FinishFetch, Tells
  <1>4. CASE ~(failure \/ status[b] # "Fetching") /\ ~(ok /\ (remaining[b] > 0 \/ live[b] > 0))
    <2>1. at' = [Woken({"notify", "capacity"}) EXCEPT ![p] = to]
      BY <1>4 DEF FinishFetch
    <2> QED BY <2>1 DEF Tells
  <1> QED BY <1>2, <1>3, <1>4

LEMMA RollbackTells ==
  ASSUME IInv, NEW b, NEW p, NEW to, NEW q, RollbackFetch(b, p, to, q)
  PROVE  \E s : Tells(s) /\ at' = [Woken(s) EXCEPT ![p] = to]
  <1>1. committed \in Nat
    BY DEF IInv, TypeOK
  <1>2. CASE status[b] \notin {"Reserving", "Fetching"}
    BY <1>1, <1>2, WokenNone DEF RollbackFetch, Tells
  <1>3. CASE status[b] \in {"Reserving", "Fetching"}
    <2>1. at' = [Woken({"notify", "capacity"}) EXCEPT ![p] = to]
      BY <1>3 DEF RollbackFetch
    <2> QED BY <2>1 DEF Tells
  <1> QED BY <1>2, <1>3

LEMMA ReleaseTells ==
  ASSUME IInv, NEW b, NEW r, NEW to, ReleaseBlockReader(b, r, to)
  PROVE  \E s : Tells(s) /\ at' = [Woken(s) EXCEPT ![r] = to]
  <1>1. committed \in Nat /\ status \in [Block -> Status] /\ \A q \in Reader : pos[q] \in Block
    BY ProcFacts DEF IInv, TypeOK
  <1>2. CASE at' = [at EXCEPT ![r] = to] /\ UNCHANGED <<status, committed>>
    <2>1. Tells({})
      BY <1>1, <1>2 DEF Tells
    <2> QED BY <1>2, <2>1, WokenNone
  <1>3. CASE ReleaseReady({b}) /\ status[b] = "Ready" /\ at' = [Woken({"capacity"}) EXCEPT ![r] = to]
    <2>1. ASSUME NEW q \in Reader, status[pos[q]] \in Busy PROVE status'[pos[q]] \in Busy
      BY <1>1, <1>3, <2>1 DEF ReleaseReady, Busy
    <2> QED BY <1>3, <2>1 DEF Tells
  <1> QED BY <1>2, <1>3 DEF ReleaseBlockReader

\* A step that moves p, and announces what it ends or frees.
LEMMA TellingStep ==
  ASSUME IInv, IInv', NoLostWakeup, failure' = failure, NEW p \in Proc,
         NEW to, to \notin {"Notify", "Capacity"},
         \E s : Tells(s) /\ at' = [Woken(s) EXCEPT ![p] = to],
         \A q \in Proc \ {p} : pos'[q] = pos[q]
  PROVE  NoLostWakeup'
  <1>1. PICK s : Tells(s) /\ at' = [Woken(s) EXCEPT ![p] = to]
    OBVIOUS
  <1>2. Wakes(s)
    BY <1>1, WakesOne
  <1> QED
    BY <1>1, <1>2, WakeupKept

\* A step that moves p, ends nothing anybody waits for and frees nothing.
LEMMA SilentStep ==
  ASSUME IInv, IInv', NoLostWakeup, failure' = failure, NEW p \in Proc,
         NEW to, to \notin {"Notify", "Capacity"}, at' = [at EXCEPT ![p] = to],
         \A q \in Proc \ {p} : pos'[q] = pos[q],
         committed <= committed',
         \A b \in Block : status[b] \in Busy => status'[b] \in Busy
  PROVE  NoLostWakeup'
  <1>1. \A r \in Reader : pos[r] \in Block
    BY ProcFacts DEF IInv, TypeOK
  <1>2. Tells({})
    BY <1>1 DEF Tells
  <1> QED
    BY <1>2, WokenNone, TellingStep

LEMMA StillStep ==
  ASSUME IInv, IInv', NoLostWakeup, UNCHANGED <<failure, committed, status>>, NEW p \in Proc,
         NEW to, to \notin {"Notify", "Capacity"}, at' = [at EXCEPT ![p] = to],
         \A q \in Proc \ {p} : pos'[q] = pos[q]
  PROVE  NoLostWakeup'
  <1>1. committed <= committed' /\ \A b \in Block : status[b] \in Busy => status'[b] \in Busy
    BY DEF IInv, TypeOK
  <1> QED
    BY <1>1, SilentStep

LEMMA WakeupReserve ==
  ASSUME OwnersInv, IInv', NoLostWakeup, NEW p \in Proc, Reserve(p)
  PROVE  NoLostWakeup'
  <1> USE DEF slotVars, sumVars, budgetVars, readerVars, schedVars, taskVars
  <1> DEFINE c == pos[p]
  <1>0. /\ IInv /\ at \in [Proc -> Place] /\ status \in [Block -> Status] /\ c \in Block
        /\ committed \in Nat /\ Len1(c) \in Nat /\ Reader \subseteq Proc
        /\ \A r \in Reader : pos[r] \in Block
    <2>1. IInv /\ at \in [Proc -> Place] /\ status \in [Block -> Status] /\ c \in Block
          /\ committed \in Nat /\ \A q \in Proc : pos[q] \in Block
      BY DEF OwnersInv, ClaimsInv, IInv, TypeOK
    <2> QED BY <2>1, BlockBytes, ProcFacts
  <1>1. CASE ReserveFailed(p) \/ PermitCancelled(p)
    <2>1. failure /\ failure' = failure
      BY <1>1 DEF ReserveFailed, PermitCancelled
    <2>2. \A q \in Proc : at[q] # "Capacity" /\ (q \in Reader => at[q] # "Notify")
      BY <2>1, ProcFacts DEF NoLostWakeup
    <2>3. PICK w \in {at, Woken({"notify", "capacity"})} : ReturnErr(p, w)
      BY <1>1 DEF ReserveFailed, PermitCancelled
    <2>4. \A q \in Proc : w[q] = "Notify" \/ w[q] = "Capacity" => w[q] = at[q]
      BY <2>3 DEF Woken
    <2>5. \A q \in Proc : at'[q] \in {"Notify", "Capacity"} => at'[q] = at[q]
      BY <1>0, <2>3, <2>4, WokenType DEF ReturnErr
    <2> QED
      BY <2>2, <2>5, ProcFacts DEF NoLostWakeup
  <1>2. CASE ReserveNone(p)
    <2>1. Resume(p) \notin {"Notify", "Capacity"}
      BY DEF Resume
    <2>2. at' = [at EXCEPT ![p] = Resume(p)] /\ UNCHANGED <<failure, committed, status, pos>>
      BY <1>2 DEF ReserveNone
    <2> QED
      BY <1>0, <1>2, <2>1, <2>2, StillStep
  <1>3. CASE ReserveCommit(p)
    <2>1. /\ at' = [at EXCEPT ![p] = "Permit"] /\ committed' = committed + Len1(c)
          /\ status' = [status EXCEPT ![c] = "Reserving"]
          /\ UNCHANGED <<pos, failure>>
      BY <1>3 DEF ReserveCommit
    <2>2. committed <= committed' /\ \A b \in Block : status[b] \in Busy => status'[b] \in Busy
      BY <1>0, <2>1 DEF Busy
    <2> QED
      BY <1>0, <2>1, <2>2, SilentStep
  <1>4. CASE ReserveWait(p)
    <2>1. /\ ~failure /\ ~FitsWindow(c) /\ at' = [at EXCEPT ![p] = "Capacity"]
          /\ UNCHANGED <<failure, committed, status, pos>>
      BY <1>4 DEF ReserveWait, MayCommit
    <2>2. at'[p] = "Capacity" /\ \A q \in Proc \ {p} : at'[q] = at[q]
      BY <1>0, <2>1
    <2> QED
      BY <1>0, <2>1, <2>2 DEF NoLostWakeup, FitsWindow
  <1>5. CASE PermitTaken(p)
    <2>1. Tells({"notify"})
      BY <1>0, <1>5 DEF PermitTaken, Tells
    <2>2. \E to \in {"Next", "Fetch"} : at' = [Woken({"notify"}) EXCEPT ![p] = to]
      BY <1>5 DEF PermitTaken
    <2>3. PICK to \in {"Next", "Fetch"} : at' = [Woken({"notify"}) EXCEPT ![p] = to]
      BY <2>2
    <2>4. to \notin {"Notify", "Capacity"} /\ UNCHANGED <<pos, failure>>
      BY <1>5, <2>3 DEF PermitTaken
    <2> QED
      BY <1>0, <2>1, <2>3, <2>4, TellingStep
  <1>6. CASE PermitUnneeded(p)
    <2>1. /\ at[p] = "Permit" /\ ~failure /\ UNCHANGED <<pos, failure>>
          /\ at' = [Woken({"capacity"}) EXCEPT ![p] = Resume(p)]
          /\ remaining[c] = 0 \/ status[c] # "Reserving"
      BY <1>6 DEF PermitUnneeded, PermitReady
    <2>2. Owned(c) /\ Counted(c)
      BY <1>0, <2>1, CountedByBlock DEF OwnersInv, Owners, ClaimsInv
    <2>3. status[c] = "Reserving" /\ remaining[c] = 0
      BY <2>1, <2>2 DEF Owned, ReservedBy
    <2>4. ASSUME NEW r \in Reader, at[r] = "Notify" PROVE pos[r] # c
      <3>1. SUFFICES ASSUME pos[r] = c PROVE FALSE
        OBVIOUS
      <3>2. r \in Claimants(c)
        BY <1>0, <2>4, <3>1, AtHolds
      <3>3. remaining[c] >= 1
        BY <1>0, <2>2, <3>2, OwnClaim
      <3> QED
        BY <2>3, <3>3
    <2>5. status' = [status EXCEPT ![c] = "Released"]
      BY <1>6, <2>3 DEF PermitUnneeded
    <2>6. Tells({"capacity"})
      BY <1>0, <2>4, <2>5 DEF Tells
    <2>7. Resume(p) \notin {"Notify", "Capacity"}
      BY DEF Resume
    <2> QED
      BY <1>0, <2>1, <2>6, <2>7, TellingStep
  <1> QED
    BY <1>1, <1>2, <1>3, <1>4, <1>5, <1>6 DEF Reserve

\* The other steps of the fetching code, the scheduler and cancellation.
LEMMA WakeupQuiet ==
  ASSUME IInv, IInv', NoLostWakeup, QuietStep, ~ \E p \in Proc : Reserve(p)
  PROVE  NoLostWakeup'
  <1> USE DEF slotVars, sumVars, budgetVars, readerVars, schedVars, taskVars
  <1>0. /\ at \in [Proc -> Place] /\ Reader \subseteq Proc /\ committed \in Nat
        /\ Scheduler \in Proc /\ Scheduler \notin Reader /\ pos \in [Proc -> Block]
    BY ProcFacts DEF IInv, TypeOK
  <1>1. ASSUME NEW r \in Reader, SliceWait(r) PROVE NoLostWakeup'
    <2>1. /\ ~failure /\ status[pos[r]] \in Busy /\ at' = [at EXCEPT ![r] = "Notify"]
          /\ UNCHANGED <<failure, committed, status, pos>>
      BY <1>1 DEF SliceWait, Busy
    <2>2. at'[r] = "Notify" /\ \A q \in Proc \ {r} : at'[q] = at[q]
      BY <1>0, <2>1
    <2> QED
      BY <1>0, <2>1, <2>2 DEF NoLostWakeup, FitsWindow, Busy
  <1>2. ASSUME NEW r \in Reader,
               \/ SliceReady(r) \/ SliceDemand(r) \/ SliceError(r) \/ ActivateError(r) \/ DemandGet(r)
        PROVE  NoLostWakeup'
    <2>1. /\ UNCHANGED <<pos, committed, status, failure>>
          /\ \E to \in {"Have", "Reserve", "None", "Get"} : at' = [at EXCEPT ![r] = to]
      BY <1>0, <1>2 DEF SliceReady, SliceDemand, SliceError, ActivateError, DemandGet, ReturnErr
    <2>2. PICK to \in {"Have", "Reserve", "None", "Get"} : at' = [at EXCEPT ![r] = to]
      BY <2>1
    <2>3. to \notin {"Notify", "Capacity"} /\ r \in Proc
      BY <1>0, <2>2
    <2> QED
      BY <1>0, <2>1, <2>2, <2>3, StillStep
  <1>3. ASSUME NEW r \in Reader, AbortReader(r) PROVE NoLostWakeup'
    <2>1. UNCHANGED <<pos, failure>> /\ r \in Proc
      BY <1>0, <1>3 DEF AbortReader
    <2>2. CASE at[r] \in {"Permit", "Fetch", "Get"}
      <3>1. RollbackFetch(pos[r], r, "None", Leave(queue, r))
        BY <1>3, <2>2 DEF AbortReader
      <3>2. \E s : Tells(s) /\ at' = [Woken(s) EXCEPT ![r] = "None"]
        BY <3>1, RollbackTells
      <3> QED BY <2>1, <3>2, TellingStep
    <2>3. CASE at[r] \notin {"Permit", "Fetch", "Get"}
      <3>1. at' = [at EXCEPT ![r] = "None"] /\ UNCHANGED <<status, committed>>
        BY <1>3, <2>3 DEF AbortReader
      <3> QED BY <1>0, <2>1, <3>1, StillStep
    <2> QED BY <2>2, <2>3
  <1>4. ASSUME NEW r \in Reader, NEW ok \in BOOLEAN, DemandDone(r, ok) PROVE NoLostWakeup'
    <2>1. UNCHANGED <<pos, failure>> /\ FinishFetch(pos[r], ok, r, "Check") /\ r \in Proc
      BY <1>0, <1>4 DEF DemandDone
    <2>2. \E s : Tells(s) /\ at' = [Woken(s) EXCEPT ![r] = "Check"]
      BY <2>1, FinishTells
    <2> QED BY <2>1, <2>2, TellingStep
  <1>5. CASE StartScheduler \/ PrefetchNext \/ PrefetchAwait
    <2>1. /\ UNCHANGED <<committed, status, failure>>
          /\ \E to \in {"Next", "Reserve", "Poll", "Stopped"} : at' = [at EXCEPT ![Scheduler] = to]
          /\ \A q \in Proc \ {Scheduler} : pos'[q] = pos[q]
      BY <1>0, <1>5 DEF StartScheduler, PrefetchNext, PrefetchAwait
    <2>2. PICK to \in {"Next", "Reserve", "Poll", "Stopped"} : at' = [at EXCEPT ![Scheduler] = to]
      BY <2>1
    <2>3. to \notin {"Notify", "Capacity"}
      BY <2>2
    <2> QED
      BY <1>0, <2>1, <2>2, <2>3, StillStep
  <1>6. CASE AbortScheduler
    <2>1. UNCHANGED <<pos, failure>>
      BY <1>6 DEF AbortScheduler
    <2>2. CASE at[Scheduler] = "Permit"
      <3>1. RollbackFetch(pos[Scheduler], Scheduler, "Stopped", Leave(queue, Scheduler))
        BY <1>6, <2>2 DEF AbortScheduler
      <3>2. \E s : Tells(s) /\ at' = [Woken(s) EXCEPT ![Scheduler] = "Stopped"]
        BY <3>1, RollbackTells
      <3> QED BY <1>0, <2>1, <3>2, TellingStep
    <2>3. CASE at[Scheduler] # "Permit"
      <3>1. at' = [at EXCEPT ![Scheduler] = "Stopped"] /\ UNCHANGED <<status, committed>>
        BY <1>6, <2>3 DEF AbortScheduler
      <3> QED BY <1>0, <2>1, <3>1, StillStep
    <2> QED BY <2>2, <2>3
  <1>7. ASSUME NEW b \in Block, PrefetchGet(b) PROVE NoLostWakeup'
    <2>1. UNCHANGED <<pos, at, committed, status, failure>>
      BY <1>7 DEF PrefetchGet
    <2> QED BY <2>1 DEF NoLostWakeup, FitsWindow
  <1>8. ASSUME NEW b \in Block, DropPrefetch(b) PROVE NoLostWakeup'
    <2>1. UNCHANGED <<pos, failure>> /\ RollbackFetch(b, Scheduler, "Stopped", queue)
      BY <1>8 DEF DropPrefetch
    <2>2. \E s : Tells(s) /\ at' = [Woken(s) EXCEPT ![Scheduler] = "Stopped"]
      BY <2>1, RollbackTells
    <2> QED BY <1>0, <2>1, <2>2, TellingStep
  <1>9. ASSUME NEW b \in Block, NEW ok \in BOOLEAN, PrefetchDone(b, ok) PROVE NoLostWakeup'
    <2>1. UNCHANGED <<pos, failure>> /\ FinishFetch(b, ok, Scheduler, "Next")
      BY <1>9 DEF PrefetchDone
    <2>2. \E s : Tells(s) /\ at' = [Woken(s) EXCEPT ![Scheduler] = "Next"]
      BY <2>1, FinishTells
    <2> QED BY <1>0, <2>1, <2>2, TellingStep
  <1>10. CASE Cancel
    <2>1. \A q \in Proc : at'[q] \notin {"Notify", "Capacity"}
      BY <1>10 DEF Cancel, Woken
    <2> QED BY <1>0, <2>1 DEF NoLostWakeup
  <1>11. CASE UNCHANGED vars
    BY <1>11 DEF vars, NoLostWakeup, FitsWindow
  <1> QED
    BY <1>1, <1>2, <1>3, <1>4, <1>5, <1>6, <1>7, <1>8, <1>9, <1>10, <1>11
       DEF QuietStep, SchedulerStep

LEMMA WakeupMove ==
  ASSUME IInv, IInv', NoLostWakeup, MoveStep
  PROVE  NoLostWakeup'
  <1> USE DEF slotVars, sumVars, budgetVars, readerVars, schedVars, taskVars
  <1>0. /\ at \in [Proc -> Place] /\ Reader \subseteq Proc /\ committed \in Nat
        /\ pos \in [Proc -> Block] /\ \A r \in Reader : pos[r] \in Block
        /\ Woken({}) = at
    BY ProcFacts, WokenNone DEF IInv, TypeOK
  <1>1. ASSUME NEW r \in Reader, ConsumeBlock(r) \/ DropReaderBlock(r) PROVE NoLostWakeup'
    <2>1. PICK to \in {"None", "Check"} : ReleaseBlockReader(pos[r], r, to)
      BY <1>1 DEF ConsumeBlock, DropReaderBlock
    <2>2. \E s : Tells(s) /\ at' = [Woken(s) EXCEPT ![r] = to]
      BY <2>1, ReleaseTells
    <2>3. \A q \in Proc \ {r} : pos'[q] = pos[q]
      <3>1. pos' = pos \/ \E x : pos' = [pos EXCEPT ![r] = x]
        BY <1>1 DEF ConsumeBlock, DropReaderBlock, NextBlockOr
      <3> QED BY <1>0, <3>1
    <2>4. failure' = failure /\ to \notin {"Notify", "Capacity"} /\ r \in Proc
      BY <1>0, <1>1, <2>1 DEF ConsumeBlock, DropReaderBlock
    <2> QED
      BY <2>2, <2>3, <2>4, TellingStep
  <1>2. ASSUME NEW r \in Reader, ActivateReader(r) PROVE NoLostWakeup'
    <2>1. at' = [at EXCEPT ![r] = "Check"] /\ UNCHANGED <<failure, committed, status, pos>>
      BY <1>2 DEF ActivateReader
    <2> QED
      BY <1>0, <2>1, StillStep
  <1>3. ASSUME NEW r \in Reader, DropClaim(r) PROVE NoLostWakeup'
    <2> DEFINE freed == {b \in {c \in Span(r[1]) : remaining[c] = 1 /\ live[c] = 0} :
                           status[b] = "Ready"}
    <2>1. /\ ReleaseReady(freed) /\ at' = IF freed = {} THEN at ELSE Woken({"capacity"})
          /\ pos' = [pos EXCEPT ![r] = LastBlock[r[1]]] /\ failure' = failure
          /\ at[r] = "None"
      BY <1>3 DEF DropClaim, IInv, ReaderPlaced, Active
    <2>2. \A b \in Block : status[b] \in Busy => status'[b] \in Busy
      BY <2>1 DEF ReleaseReady, Busy
    <2>3. freed = {} => committed' = committed
      <3>1. committed' = SaturatingSub(committed, Weight(freed))
        BY <2>1 DEF ReleaseReady
      <3> HIDE DEF freed
      <3> QED
        BY <1>0, <3>1, WeightSingle, SaturatingSubType
    <2> HIDE DEF freed
    <2>4. PICK s \in {{}, {"capacity"}} : at' = Woken(s) /\ (freed # {} => s = {"capacity"})
      BY <1>0, <2>1
    <2>5. Tells(s)
      BY <1>0, <2>2, <2>3, <2>4 DEF Tells
    <2>6. Wakes(s)
      <3>1. ASSUME NEW q \in Proc, at'[q] \in {"Notify", "Capacity"}
            PROVE  /\ at[q] = at'[q] /\ q # r
                   /\ at'[q] = "Notify" => "notify" \notin s
                   /\ at'[q] = "Capacity" => "capacity" \notin s
        BY <2>1, <2>4, <3>1 DEF Woken
      <3> QED
        BY <1>0, <2>1, <3>1 DEF Wakes
    <2> QED
      BY <2>1, <2>5, <2>6, WakeupKept
  <1>4. ASSUME NEW e \in Entry, AddReplayClaims(e) \/ UNCHANGED status, UNCHANGED committed, NEW s
        PROVE  Tells(s)
    <2>1. \A b \in Block : status[b] \in Busy => status'[b] \in Busy
      BY <1>4 DEF AddReplayClaims, Busy
    <2> QED
      BY <1>0, <1>4, <2>1 DEF Tells
  <1>5. ASSUME NEW e \in Entry, RetainForReplay(e) PROVE NoLostWakeup'
    <2>1. /\ AddReplayClaims(e) /\ UNCHANGED <<pos, failure, committed>>
          /\ \E s : at' = Woken(s)
      BY <1>5 DEF RetainForReplay
    <2>2. PICK s : at' = Woken(s)
      BY <2>1
    <2>3. Wakes(s)
      BY <2>1, <2>2 DEF Wakes, Woken
    <2> QED
      BY <1>4, <2>1, <2>3, WakeupKept
  <1>6. ASSUME NEW e \in Entry, StartBody(e) PROVE NoLostWakeup'
    <2>1. PICK r \in Reader : r = <<e, attempt[e] + 1>>
      <3>1. MaxAttempts[e] \in Nat /\ attempt[e] \in Nat /\ attempt[e] < MaxAttempts[e]
        BY <1>6, EntriesAssumption DEF StartBody, IInv, TypeOK
      <3>2. attempt[e] + 1 \in Nat /\ 1 <= attempt[e] + 1 /\ attempt[e] + 1 <= MaxAttempts[e]
        BY <3>1
      <3> QED BY <3>2, ProcFacts
    <2>2. /\ pos' = [pos EXCEPT ![r] = FirstBlock[e]] /\ UNCHANGED <<failure, committed>>
          /\ AddReplayClaims(e) \/ UNCHANGED status
          /\ \/ at' = [at EXCEPT ![r] = "Check"]
             \/ \E s : at' = [Woken(s) EXCEPT ![r] = "Check"]
      BY <1>6, <2>1 DEF StartBody
    <2>3. \E s : at' = [Woken(s) EXCEPT ![r] = "Check"]
      <3>1. at' = [at EXCEPT ![r] = "Check"] => at' = [Woken({}) EXCEPT ![r] = "Check"]
        BY <1>0
      <3> QED BY <2>2, <3>1
    <2>4. \E s : Tells(s) /\ at' = [Woken(s) EXCEPT ![r] = "Check"]
      BY <1>4, <2>2, <2>3
    <2>5. r \in Proc /\ failure' = failure /\ \A q \in Proc \ {r} : pos'[q] = pos[q]
      BY <1>0, <2>2
    <2>6. "Check" \notin {"Notify", "Capacity"}
      OBVIOUS
    <2> QED
      BY <2>4, <2>5, <2>6, TellingStep
  <1> QED
    BY <1>1, <1>2, <1>3, <1>5, <1>6 DEF MoveStep

LEMMA WakeupNext == OwnersInv /\ NoLostWakeup /\ [Next]_vars => NoLostWakeup'
  <1> SUFFICES ASSUME OwnersInv, NoLostWakeup, [Next]_vars PROVE NoLostWakeup'
    OBVIOUS
  <1>1. IInv /\ IInv'
    BY NextIInv DEF OwnersInv, ClaimsInv
  <1>2. CASE QuietStep
    BY <1>1, <1>2, WakeupReserve, WakeupQuiet
  <1>3. CASE MoveStep
    BY <1>1, <1>3, WakeupMove
  <1>4. CASE TaskOnlyStep
    <2>1. UNCHANGED <<pos, at, committed, status, failure>>
      BY <1>4 DEF TaskOnlyStep, SpawnTask, AttemptFails, TaskSucceeds, TaskFails, slotVars,
         sumVars, readerVars
    <2> QED
      BY <2>1 DEF NoLostWakeup, FitsWindow
  <1> QED
    BY <1>2, <1>3, <1>4, StepKinds

WakeupInv == OwnersInv /\ NoLostWakeup

LEMMA WakeupInductive == Spec => []WakeupInv
  <1>1. Init => WakeupInv
    <2>1. Init => NoLostWakeup
      BY ProcFacts DEF Init, NoLostWakeup
    <2> QED
      BY <2>1, InitIInv, LifeInit, ClaimsInit, OwnersInit DEF WakeupInv, OwnersInv, ClaimsInv
  <1>2. WakeupInv /\ [Next]_vars => WakeupInv'
    BY ClaimsNext, OwnersNext, WakeupNext DEF WakeupInv, OwnersInv, ClaimsInv
  <1> QED
    BY <1>1, <1>2, PTL DEF Spec

\* A reader asleep on notify sleeps on a slot that is still being reserved or
\* fetched, and a process asleep on capacity_notify finds the window full: the
\* end of a fetch, a rollback, a release and a cancellation each wake whom they
\* concern, and the one path that wakes only capacity waiters (permits granted
\* for a block nobody needs any more) leaves no reader behind, because a
\* sleeping reader holds a claim.
THEOREM NoWakeupIsLost == Spec => []NoLostWakeup
  <1>1. WakeupInv => NoLostWakeup
    BY DEF WakeupInv
  <1> QED
    BY <1>1, WakeupInductive, PTL

-----------------------------------------------------------------------------
(* The budget is whole again in the end *)

\* The queue loses p, gains p, or is left alone; only p comes or goes.
LEMMA QueueTail ==
  ASSUME NEW q \in Seq(Proc), q # <<>>, \A i, j \in DOMAIN q : q[i] = q[j] => i = j
  PROVE  /\ \A i, j \in DOMAIN Tail(q) : Tail(q)[i] = Tail(q)[j] => i = j
         /\ \A p : (\E i \in DOMAIN Tail(q) : Tail(q)[i] = p)
                   <=> p # Head(q) /\ \E i \in DOMAIN q : q[i] = p
  <1>1. /\ Len(q) \in Nat /\ Len(q) > 0 /\ DOMAIN q = 1 .. Len(q) /\ Head(q) = q[1]
        /\ DOMAIN Tail(q) = 1 .. Len(q) - 1
        /\ \A i \in 1 .. Len(q) - 1 : Tail(q)[i] = q[i + 1]
    OBVIOUS
  <1>2. ASSUME NEW i \in DOMAIN Tail(q), NEW j \in DOMAIN Tail(q), Tail(q)[i] = Tail(q)[j]
        PROVE  i = j
    <2>1. i + 1 \in DOMAIN q /\ j + 1 \in DOMAIN q /\ q[i + 1] = q[j + 1]
      BY <1>1, <1>2
    <2>2. i + 1 = j + 1
      BY <2>1
    <2> QED BY <1>1, <2>2
  <1>3. ASSUME NEW i \in DOMAIN Tail(q)
        PROVE  Tail(q)[i] # Head(q) /\ i + 1 \in DOMAIN q /\ q[i + 1] = Tail(q)[i]
    <2>1. i + 1 \in DOMAIN q /\ 1 \in DOMAIN q /\ i + 1 # 1
      BY <1>1
    <2>2. q[i + 1] # q[1]
      BY <2>1
    <2> QED BY <1>1, <2>1, <2>2
  <1>4. ASSUME NEW i \in DOMAIN q, q[i] # Head(q)
        PROVE  i - 1 \in DOMAIN Tail(q) /\ Tail(q)[i - 1] = q[i]
    <2>1. i # 1
      BY <1>1, <1>4
    <2>2. i - 1 \in 1 .. Len(q) - 1 /\ (i - 1) + 1 = i
      BY <1>1, <2>1
    <2> QED BY <1>1, <2>2
  <1> QED BY <1>2, <1>3, <1>4

LEMMA QueueAppend ==
  ASSUME NEW q \in Seq(Proc), NEW p \in Proc, \A i, j \in DOMAIN q : q[i] = q[j] => i = j,
         \A i \in DOMAIN q : q[i] # p
  PROVE  /\ \A i, j \in DOMAIN Append(q, p) : Append(q, p)[i] = Append(q, p)[j] => i = j
         /\ \A x : (\E i \in DOMAIN Append(q, p) : Append(q, p)[i] = x)
                   <=> x = p \/ \E i \in DOMAIN q : q[i] = x
  <1>1. /\ Len(q) \in Nat /\ DOMAIN q = 1 .. Len(q)
        /\ DOMAIN Append(q, p) = 1 .. Len(q) + 1
        /\ Append(q, p)[Len(q) + 1] = p
        /\ \A i \in 1 .. Len(q) : Append(q, p)[i] = q[i]
    OBVIOUS
  <1>2. \A i \in 1 .. Len(q) + 1 : i = Len(q) + 1 \/ i \in 1 .. Len(q)
    BY <1>1
  <1>3. Len(q) + 1 \in 1 .. Len(q) + 1 /\ 1 .. Len(q) \subseteq 1 .. Len(q) + 1
    BY <1>1
  <1>4. ASSUME NEW i \in DOMAIN Append(q, p), NEW j \in DOMAIN Append(q, p),
               Append(q, p)[i] = Append(q, p)[j]
        PROVE  i = j
    BY <1>1, <1>2, <1>4
  <1>5. ASSUME NEW x
        PROVE  (\E i \in DOMAIN Append(q, p) : Append(q, p)[i] = x)
               <=> x = p \/ \E i \in DOMAIN q : q[i] = x
    BY <1>1, <1>2, <1>3
  <1> QED BY <1>4, <1>5

LEMMA QueueLeave ==
  ASSUME NEW q \in Seq(Proc), NEW p, \A i, j \in DOMAIN q : q[i] = q[j] => i = j
  PROVE  /\ \A i, j \in DOMAIN Leave(q, p) : Leave(q, p)[i] = Leave(q, p)[j] => i = j
         /\ \A x : (\E i \in DOMAIN Leave(q, p) : Leave(q, p)[i] = x)
                   <=> x # p /\ \E i \in DOMAIN q : q[i] = x
  <1>1. CASE ~ \E i \in DOMAIN q : q[i] = p
    BY <1>1 DEF Leave
  <1>2. CASE \E i \in DOMAIN q : q[i] = p
    <2> DEFINE c == CHOOSE i \in DOMAIN q : q[i] = p
    <2>1. c \in DOMAIN q /\ q[c] = p
      BY <1>2
    <2>2. Leave(q, p) = SubSeq(q, 1, c - 1) \o SubSeq(q, c + 1, Len(q))
      BY <1>2 DEF Leave
    <2> HIDE DEF c
    <2>3. Len(q) \in Nat /\ DOMAIN q = 1 .. Len(q) /\ c \in 1 .. Len(q)
      BY <2>1
    <2> DEFINE l == SubSeq(q, 1, c - 1)
               r == SubSeq(q, c + 1, Len(q))
    <2>4. /\ l \in Seq(Proc) /\ Len(l) = c - 1 /\ \A k \in 1 .. c - 1 : l[k] = q[k]
      <3>1. \A k \in 1 .. c - 1 : q[k] \in Proc
        BY <2>3
      <3> QED BY <2>3, <3>1, SubSeqProperties
    <2>5. /\ r \in Seq(Proc) /\ Len(r) = Len(q) - c
          /\ \A k \in 1 .. Len(q) - c : r[k] = q[c + k]
      <3>1. \A k \in c + 1 .. Len(q) : q[k] \in Proc
        BY <2>3
      <3>2. /\ r \in Seq(Proc)
            /\ Len(r) = IF c + 1 <= Len(q) THEN Len(q) - (c + 1) + 1 ELSE 0
            /\ \A k \in 1 .. (Len(q) - (c + 1) + 1) : r[k] = q[(c + 1) + k - 1]
        BY <2>3, <3>1, SubSeqProperties
      <3>3. Len(r) = Len(q) - c /\ Len(q) - (c + 1) + 1 = Len(q) - c
        <4>1. ASSUME NEW m \in Nat, NEW k \in 1 .. m
              PROVE  /\ (IF k + 1 <= m THEN m - (k + 1) + 1 ELSE 0) = m - k
                     /\ m - (k + 1) + 1 = m - k
          OBVIOUS
        <4>2. (IF c + 1 <= Len(q) THEN Len(q) - (c + 1) + 1 ELSE 0) = Len(q) - c
              /\ Len(q) - (c + 1) + 1 = Len(q) - c
          BY <2>3, <4>1
        <4> QED BY <3>2, <4>2
      <3>4. \A k \in 1 .. Len(q) - c : (c + 1) + k - 1 = c + k
        BY <2>3
      <3> QED BY <3>2, <3>3, <3>4
    <2> HIDE DEF l, r
    <2> DEFINE n == l \o r
    <2>6. /\ DOMAIN n = 1 .. Len(q) - 1
          /\ \A k \in 1 .. Len(q) - 1 : n[k] = IF k < c THEN q[k] ELSE q[k + 1]
      <3>1. /\ Len(n) = Len(q) - 1 /\ DOMAIN n = 1 .. Len(n)
            /\ \A k \in 1 .. Len(n) : n[k] = IF k <= c - 1 THEN l[k] ELSE r[k - (c - 1)]
        <4>1. ASSUME NEW m \in Nat, NEW k \in 1 .. m PROVE (k - 1) + (m - k) = m - 1
          OBVIOUS
        <4>2. Len(l) + Len(r) = Len(q) - 1
          BY <2>3, <2>4, <2>5, <4>1
        <4>3. Len(n) = Len(l) + Len(r) /\ DOMAIN n = 1 .. Len(n)
              /\ \A k \in 1 .. Len(n) : n[k] = IF k <= Len(l) THEN l[k] ELSE r[k - Len(l)]
          <5>1. /\ n \in Seq(Proc) /\ Len(n) = Len(l) + Len(r)
                /\ \A k \in 1 .. Len(l) + Len(r) : n[k] = IF k <= Len(l) THEN l[k]
                                                         ELSE r[k - Len(l)]
            <6>1. l \in Seq(Proc) /\ r \in Seq(Proc)
              BY <2>4, <2>5
            <6> QED BY <6>1, ConcatProperties
          <5> HIDE DEF n
          <5> QED BY <5>1
        <4> QED BY <2>4, <4>2, <4>3
      <3>2. ASSUME NEW k \in 1 .. Len(q) - 1, k < c PROVE n[k] = q[k]
        <4>1. k \in 1 .. c - 1 /\ k <= c - 1
          BY <2>3, <3>2
        <4>2. k \in 1 .. Len(n)
          BY <3>1
        <4> QED BY <2>4, <3>1, <4>1, <4>2
      <3>3. ASSUME NEW k \in 1 .. Len(q) - 1, ~(k < c) PROVE n[k] = q[k + 1]
        <4>1. k - (c - 1) \in 1 .. Len(q) - c /\ c + (k - (c - 1)) = k + 1 /\ ~(k <= c - 1)
          BY <2>3, <3>3
        <4> QED BY <2>5, <3>1, <4>1
      <3> QED BY <3>1, <3>2, <3>3
    <2>7. Leave(q, p) = n
      BY <2>2 DEF l, r
    <2> HIDE DEF n
    <2> DEFINE at0(k) == IF k < c THEN k ELSE k + 1
    <2>8. \A k \in 1 .. Len(q) - 1 : at0(k) \in DOMAIN q /\ at0(k) # c /\ n[k] = q[at0(k)]
      BY <2>3, <2>6
    <2>9. \A j, k \in 1 .. Len(q) - 1 : at0(j) = at0(k) => j = k
      BY <2>3
    <2>10. \A j \in DOMAIN q : j # c => \E k \in 1 .. Len(q) - 1 : at0(k) = j
      <3> SUFFICES ASSUME NEW j \in DOMAIN q, j # c
                   PROVE  \E k \in 1 .. Len(q) - 1 : at0(k) = j
        OBVIOUS
      <3>1. CASE j < c
        BY <2>3, <3>1
      <3>2. CASE ~(j < c)
        <4>1. j - 1 \in 1 .. Len(q) - 1 /\ at0(j - 1) = j
          BY <2>3, <3>2
        <4> QED BY <4>1
      <3> QED BY <3>1, <3>2
    <2> HIDE DEF at0
    <2>11. \A i, j \in DOMAIN n : n[i] = n[j] => i = j
      BY <2>6, <2>8, <2>9
    <2>12. ASSUME NEW x
           PROVE  (\E i \in DOMAIN n : n[i] = x) <=> x # p /\ \E i \in DOMAIN q : q[i] = x
      <3>1. ASSUME NEW i \in DOMAIN n, n[i] = x PROVE x # p /\ \E k \in DOMAIN q : q[k] = x
        <4>1. at0(i) \in DOMAIN q /\ at0(i) # c /\ x = q[at0(i)]
          BY <2>6, <2>8, <3>1
        <4> QED BY <2>1, <4>1
      <3>2. ASSUME x # p, NEW j \in DOMAIN q, q[j] = x PROVE \E i \in DOMAIN n : n[i] = x
        <4>1. j # c
          BY <2>1, <3>2
        <4>2. PICK k \in 1 .. Len(q) - 1 : at0(k) = j
          BY <2>10, <4>1
        <4> QED BY <2>6, <2>8, <3>2, <4>2
      <3> QED BY <3>1, <3>2
    <2> QED BY <2>7, <2>11, <2>12
  <1> QED BY <1>1, <1>2

LEMMA OthersPermit ==
  ASSUME IInv, NEW p \in Proc, NEW to,
         at' = [at EXCEPT ![p] = to] \/ \E s : at' = [Woken(s) EXCEPT ![p] = to]
  PROVE  at'[p] = to /\ \A q \in Proc \ {p} : at'[q] = "Permit" <=> at[q] = "Permit"
  <1>1. at \in [Proc -> Place] /\ \A s : Woken(s) \in [Proc -> Place]
    BY WokenType DEF IInv, TypeOK
  <1>2. ASSUME NEW s, NEW q \in Proc PROVE Woken(s)[q] = "Permit" <=> at[q] = "Permit"
    BY DEF Woken
  <1> QED
    BY <1>1, <1>2

\* A process that is not in the queue moves, and does not join it.
LEMMA QueueSame ==
  ASSUME IInv, Queued, NEW p \in Proc, NEW to, to # "Permit", at[p] # "Permit", queue' = queue,
         at' = [at EXCEPT ![p] = to] \/ \E s : at' = [Woken(s) EXCEPT ![p] = to]
  PROVE  Queued'
  <1>1. \A q \in Proc : at'[q] = "Permit" <=> at[q] = "Permit"
    BY OthersPermit
  <1> QED
    BY <1>1 DEF Queued

\* A process leaves the queue.
LEMMA QueueLost ==
  ASSUME IInv, Queued, NEW p \in Proc, NEW to, to # "Permit",
         at' = [at EXCEPT ![p] = to] \/ \E s : at' = [Woken(s) EXCEPT ![p] = to],
         queue' = Leave(queue, p) \/ (queue # <<>> /\ Head(queue) = p /\ queue' = Tail(queue))
  PROVE  Queued'
  <1>1. at'[p] = to /\ \A q \in Proc \ {p} : at'[q] = "Permit" <=> at[q] = "Permit"
    BY OthersPermit
  <1>2. queue \in Seq(Proc) /\ \A i, j \in DOMAIN queue : queue[i] = queue[j] => i = j
    BY DEF IInv, TypeOK, Queued
  <1>3. /\ \A i, j \in DOMAIN queue' : queue'[i] = queue'[j] => i = j
        /\ \A x : (\E i \in DOMAIN queue' : queue'[i] = x)
                  <=> x # p /\ \E i \in DOMAIN queue : queue[i] = x
    <2>1. CASE queue' = Leave(queue, p)
      BY <1>2, <2>1, QueueLeave
    <2>2. CASE queue # <<>> /\ Head(queue) = p /\ queue' = Tail(queue)
      <3>1. /\ \A i, j \in DOMAIN Tail(queue) : Tail(queue)[i] = Tail(queue)[j] => i = j
            /\ \A x : (\E i \in DOMAIN Tail(queue) : Tail(queue)[i] = x)
                      <=> x # Head(queue) /\ \E i \in DOMAIN queue : queue[i] = x
        BY <1>2, <2>2, QueueTail
      <3> QED BY <2>2, <3>1
    <2> QED BY <2>1, <2>2
  <1> QED
    BY <1>1, <1>3 DEF Queued

LEMMA QueueStays ==
  ASSUME Queued, queue' = queue, \A q \in Proc : at'[q] = "Permit" <=> at[q] = "Permit"
  PROVE  Queued'
  BY DEF Queued

LEMMA QueuedReserve ==
  ASSUME IInv, Queued, NEW p \in Proc, Reserve(p)
  PROVE  Queued'
  <1> USE DEF slotVars, sumVars, budgetVars, readerVars, schedVars, taskVars
  <1>0. at \in [Proc -> Place] /\ queue \in Seq(Proc)
    BY DEF IInv, TypeOK
  <1>1. CASE ReserveFailed(p) \/ ReserveNone(p) \/ ReserveWait(p)
    <2>1. /\ at[p] = "Reserve" /\ queue' = queue
          /\ \E to \in {"Stopped", "None", "Next", "Check", "Capacity"} : at' = [at EXCEPT ![p] = to]
      BY <1>1 DEF ReserveFailed, ReserveNone, ReserveWait, Resume, ReturnErr
    <2>2. PICK to \in {"Stopped", "None", "Next", "Check", "Capacity"} : at' = [at EXCEPT ![p] = to]
      BY <2>1
    <2>3. to # "Permit"
      BY <2>2
    <2> QED BY <2>1, <2>2, <2>3, QueueSame
  <1>2. CASE ReserveCommit(p)
    <2>1. at[p] = "Reserve" /\ at' = [at EXCEPT ![p] = "Permit"] /\ queue' = Append(queue, p)
      BY <1>2 DEF ReserveCommit
    <2>2. at'[p] = "Permit" /\ \A q \in Proc \ {p} : at'[q] = at[q]
      BY <1>0, <2>1
    <2>3. \A i \in DOMAIN queue : queue[i] # p
      BY <2>1 DEF Queued
    <2>4. /\ \A i, j \in DOMAIN queue' : queue'[i] = queue'[j] => i = j
          /\ \A x : (\E i \in DOMAIN queue' : queue'[i] = x)
                    <=> x = p \/ \E i \in DOMAIN queue : queue[i] = x
      <3>1. \A i, j \in DOMAIN queue : queue[i] = queue[j] => i = j
        BY DEF Queued
      <3> DEFINE q == Append(queue, p)
      <3>2. /\ \A i, j \in DOMAIN q : q[i] = q[j] => i = j
            /\ \A x : (\E i \in DOMAIN q : q[i] = x) <=> x = p \/ \E i \in DOMAIN queue : queue[i] = x
        BY <1>0, <2>3, <3>1, QueueAppend
      <3>3. queue' = q
        BY <2>1
      <3> HIDE DEF q
      <3> QED BY <3>2, <3>3
    <2> QED BY <2>2, <2>4 DEF Queued
  <1>3. CASE PermitTaken(p) \/ PermitUnneeded(p)
    <2>1. /\ queue # <<>> /\ Head(queue) = p /\ queue' = Tail(queue)
          /\ \E to \in {"Next", "Fetch", "Check"} : \E s : at' = [Woken(s) EXCEPT ![p] = to]
      BY <1>3 DEF PermitTaken, PermitUnneeded, PermitReady, Resume
    <2>2. PICK to \in {"Next", "Fetch", "Check"} : \E s : at' = [Woken(s) EXCEPT ![p] = to]
      BY <2>1
    <2>3. to # "Permit"
      BY <2>2
    <2> QED BY <2>1, <2>2, <2>3, QueueLost
  <1>4. CASE PermitCancelled(p)
    <2>1. /\ queue' = Leave(queue, p)
          /\ \E to \in {"Stopped", "None"} : \E s : at' = [Woken(s) EXCEPT ![p] = to]
      BY <1>4 DEF PermitCancelled, ReturnErr
    <2>2. PICK to \in {"Stopped", "None"} : \E s : at' = [Woken(s) EXCEPT ![p] = to]
      BY <2>1
    <2>3. to # "Permit"
      BY <2>2
    <2> QED BY <2>1, <2>2, <2>3, QueueLost
  <1> QED BY <1>1, <1>2, <1>3, <1>4 DEF Reserve

LEMMA QueuedQuiet ==
  ASSUME IInv, Queued, QuietStep
  PROVE  Queued'
  <1> USE DEF slotVars, sumVars, budgetVars, readerVars, schedVars, taskVars
  <1>0. Reader \subseteq Proc /\ Scheduler \in Proc /\ Scheduler \notin Reader
    BY ProcFacts
  <1>1. ASSUME NEW r \in Reader,
               \/ SliceReady(r) \/ SliceWait(r) \/ SliceDemand(r) \/ SliceError(r)
               \/ ActivateError(r) \/ DemandGet(r)
        PROVE  Queued'
    <2>1. /\ at[r] \in {"Check", "Have", "Fetch"} /\ queue' = queue
          /\ \E to \in {"Have", "Notify", "Reserve", "None", "Get"} : at' = [at EXCEPT ![r] = to]
      BY <1>0, <1>1 DEF SliceReady, SliceWait, SliceDemand, SliceError, ActivateError, DemandGet,
         ReturnErr
    <2>2. PICK to \in {"Have", "Notify", "Reserve", "None", "Get"} : at' = [at EXCEPT ![r] = to]
      BY <2>1
    <2>3. to # "Permit" /\ at[r] # "Permit" /\ r \in Proc
      BY <1>0, <2>1, <2>2
    <2> QED BY <2>1, <2>2, <2>3, QueueSame
  <1>2. ASSUME NEW r \in Reader, AbortReader(r) PROVE Queued'
    <2>1. CASE at[r] \in {"Permit", "Fetch", "Get"}
      <3>1. RollbackFetch(pos[r], r, "None", Leave(queue, r))
        BY <1>2, <2>1 DEF AbortReader
      <3>2. \E s : at' = [Woken(s) EXCEPT ![r] = "None"]
        BY <3>1, RollbackTells
      <3>3. queue' = Leave(queue, r)
        BY <3>1 DEF RollbackFetch
      <3> QED BY <1>0, <3>2, <3>3, QueueLost
    <2>2. CASE at[r] \notin {"Permit", "Fetch", "Get"}
      BY <1>0, <1>2, <2>2, QueueSame DEF AbortReader
    <2> QED BY <2>1, <2>2
  <1>3. ASSUME NEW r \in Reader, NEW ok \in BOOLEAN, DemandDone(r, ok) PROVE Queued'
    <2>1. at[r] \in {"Get", "Fetch"} /\ queue' = queue /\ FinishFetch(pos[r], ok, r, "Check")
      BY <1>3 DEF DemandDone
    <2>2. \E s : at' = [Woken(s) EXCEPT ![r] = "Check"]
      BY <2>1, FinishTells
    <2> QED BY <1>0, <2>1, <2>2, QueueSame
  <1>4. CASE StartScheduler \/ PrefetchNext \/ PrefetchAwait
    <2>1. /\ at[Scheduler] \in {"None", "Next"} /\ queue' = queue
          /\ \E to \in {"Next", "Reserve", "Poll", "Stopped"} : at' = [at EXCEPT ![Scheduler] = to]
      BY <1>4 DEF StartScheduler, PrefetchNext, PrefetchAwait
    <2>2. PICK to \in {"Next", "Reserve", "Poll", "Stopped"} : at' = [at EXCEPT ![Scheduler] = to]
      BY <2>1
    <2>3. to # "Permit" /\ at[Scheduler] # "Permit"
      BY <2>1, <2>2
    <2> QED BY <1>0, <2>1, <2>2, <2>3, QueueSame
  <1>5. CASE AbortScheduler
    <2>1. CASE at[Scheduler] = "Permit"
      <3>1. RollbackFetch(pos[Scheduler], Scheduler, "Stopped", Leave(queue, Scheduler))
        BY <1>5, <2>1 DEF AbortScheduler
      <3>2. \E s : at' = [Woken(s) EXCEPT ![Scheduler] = "Stopped"]
        BY <3>1, RollbackTells
      <3>3. queue' = Leave(queue, Scheduler)
        BY <3>1 DEF RollbackFetch
      <3> QED BY <1>0, <3>2, <3>3, QueueLost
    <2>2. CASE at[Scheduler] # "Permit"
      BY <1>0, <1>5, <2>2, QueueSame DEF AbortScheduler
    <2> QED BY <2>1, <2>2
  <1>6. ASSUME NEW b \in Block, PrefetchGet(b) PROVE Queued'
    BY <1>6 DEF PrefetchGet, Queued
  <1>7. ASSUME NEW b \in Block, DropPrefetch(b) PROVE Queued'
    <2>1. at[Scheduler] = "Stopped" /\ RollbackFetch(b, Scheduler, "Stopped", queue)
      BY <1>7 DEF DropPrefetch
    <2>2. \E s : at' = [Woken(s) EXCEPT ![Scheduler] = "Stopped"]
      BY <2>1, RollbackTells
    <2>3. queue' = queue
      BY <2>1 DEF RollbackFetch
    <2> QED BY <1>0, <2>1, <2>2, <2>3, QueueSame
  <1>8. ASSUME NEW b \in Block, NEW ok \in BOOLEAN, PrefetchDone(b, ok) PROVE Queued'
    <2>1. at[Scheduler] = "Poll" /\ queue' = queue /\ FinishFetch(b, ok, Scheduler, "Next")
      BY <1>8 DEF PrefetchDone
    <2>2. \E s : at' = [Woken(s) EXCEPT ![Scheduler] = "Next"]
      BY <2>1, FinishTells
    <2> QED BY <1>0, <2>1, <2>2, QueueSame
  <1>9. CASE Cancel
    <2>1. \A q \in Proc : at'[q] = "Permit" <=> at[q] = "Permit"
      BY <1>9 DEF Cancel, Woken
    <2> QED BY <1>9, <2>1, QueueStays DEF Cancel
  <1>10. CASE UNCHANGED vars
    BY <1>10 DEF vars, Queued
  <1> QED
    BY <1>1, <1>2, <1>3, <1>4, <1>5, <1>6, <1>7, <1>8, <1>9, <1>10, QueuedReserve
       DEF QuietStep, SchedulerStep

\* The readers' claims, the retries and the scheduler's futures do not touch
\* the queue.
LEMMA QueuedMove ==
  ASSUME IInv, LifeInv, Queued, MoveStep
  PROVE  Queued'
  <1> USE DEF slotVars, sumVars, budgetVars, readerVars, schedVars, taskVars
  <1>0. /\ Reader \subseteq Proc /\ at \in [Proc -> Place]
        /\ \A r \in Reader : r \in Proc
    BY ProcFacts DEF IInv, TypeOK
  <1>1. ASSUME NEW s PROVE \A q \in Proc : Woken(s)[q] = "Permit" <=> at[q] = "Permit"
    BY <1>0 DEF Woken
  <1>2. ASSUME NEW r \in Reader, ActivateReader(r) PROVE Queued'
    <2>1. at[r] = "Have" /\ at' = [at EXCEPT ![r] = "Check"] /\ queue' = queue
      BY <1>2 DEF ActivateReader
    <2> QED BY <1>0, <2>1, QueueSame
  <1>3. ASSUME NEW r \in Reader, ConsumeBlock(r) \/ DropReaderBlock(r) PROVE Queued'
    <2>1. at[r] # "Permit" /\ queue' = queue
      BY <1>3 DEF ConsumeBlock, DropReaderBlock, IInv, ReaderPlaced, Active
    <2>2. PICK to \in {"None", "Check"} : ReleaseBlockReader(pos[r], r, to)
      BY <1>3 DEF ConsumeBlock, DropReaderBlock
    <2>3. \E s : at' = [Woken(s) EXCEPT ![r] = to]
      BY <1>0, <2>2, ReleaseTells
    <2>4. to # "Permit"
      BY <2>2
    <2> QED BY <1>0, <2>1, <2>3, <2>4, QueueSame
  <1>4. ASSUME NEW r \in Reader, DropClaim(r) PROVE Queued'
    <2>1. queue' = queue /\ (at' = at \/ at' = Woken({"capacity"}))
      BY <1>4 DEF DropClaim
    <2>2. \A q \in Proc : at'[q] = "Permit" <=> at[q] = "Permit"
      BY <1>1, <2>1
    <2> QED BY <2>1, <2>2, QueueStays
  <1>5. ASSUME NEW e \in Entry, RetainForReplay(e) PROVE Queued'
    <2>1. queue' = queue /\ \E s : at' = Woken(s)
      BY <1>5 DEF RetainForReplay
    <2>2. \A q \in Proc : at'[q] = "Permit" <=> at[q] = "Permit"
      BY <1>1, <2>1
    <2> QED BY <2>1, <2>2, QueueStays
  <1>6. ASSUME NEW e \in Entry, StartBody(e) PROVE Queued'
    <2> DEFINE r == <<e, attempt[e] + 1>>
    <2>1. r \in Reader /\ at[r] # "Permit"
      <3>1. MaxAttempts[e] \in Nat /\ attempt[e] \in Nat /\ attempt[e] < MaxAttempts[e]
        BY <1>6, EntriesAssumption DEF StartBody, IInv, TypeOK
      <3>2. r \in Reader
        <4>1. attempt[e] + 1 \in Nat /\ 1 <= attempt[e] + 1 /\ attempt[e] + 1 <= MaxAttempts[e]
          BY <3>1
        <4> QED BY <4>1, ProcFacts
      <3>3. phase[r] = "Idle"
        <4>1. r[1] = e /\ r[2] = attempt[e] + 1 /\ ~(attempt[e] + 1 <= attempt[e])
          BY <3>1
        <4>2. (phase[r] = "Idle" <=> r[2] > attempt[r[1]])
          BY <3>2 DEF LifeInv, Started
        <4> QED BY <3>1, <4>1, <4>2
      <3> QED BY <3>2, <3>3 DEF IInv, ReaderPlaced, Active
    <2>2. queue' = queue /\ (at' = [at EXCEPT ![r] = "Check"] \/ \E s : at' = [Woken(s) EXCEPT ![r] = "Check"])
      BY <1>6 DEF StartBody
    <2> HIDE DEF r
    <2> QED BY <1>0, <2>1, <2>2, QueueSame
  <1> QED
    BY <1>2, <1>3, <1>4, <1>5, <1>6 DEF MoveStep

LEMMA QueuedNext == IInv /\ LifeInv /\ Queued /\ [Next]_vars => Queued'
  <1> SUFFICES ASSUME IInv, LifeInv, Queued, [Next]_vars
               PROVE  Queued'
    OBVIOUS
  <1>1. CASE QuietStep
    BY <1>1, QueuedQuiet
  <1>2. CASE MoveStep
    BY <1>2, QueuedMove
  <1>3. CASE TaskOnlyStep
    <2>1. UNCHANGED <<at, queue>>
      BY <1>3 DEF TaskOnlyStep, SpawnTask, AttemptFails, TaskSucceeds, TaskFails, budgetVars
    <2> QED BY <2>1 DEF Queued
  <1> QED
    BY <1>1, <1>2, <1>3, StepKinds

LEMMA QueuedInit == Init => Queued
  <1> SUFFICES ASSUME Init PROVE Queued
    OBVIOUS
  <1>1. queue = <<>> /\ \A p \in Proc : at[p] # "Permit"
    BY DEF Init
  <1>2. DOMAIN queue = {}
    BY <1>1
  <1> QED BY <1>1, <1>2 DEF Queued

\* After cancel() no slot moves any more: every fetch, release and rollback
\* finds a slot it has nothing to do with.
LEMMA CancelledStays ==
  ASSUME IInv, Cancelled, failure, [Next]_vars, NEW c \in Block
  PROVE  status'[c] = status[c]
  <1> USE DEF slotVars, sumVars, budgetVars, readerVars, schedVars, taskVars
  <1>0. /\ status \in [Block -> Status] /\ \A b \in Block : status[b] \in {"Released", "Failed"}
        /\ \A p \in Proc : pos[p] \in Block
        /\ Reader \subseteq Proc /\ Scheduler \in Proc
    BY DEF IInv, TypeOK, Cancelled, Proc
  <1>1. ASSUME NEW b \in Block, NEW ok, NEW p, NEW to, FinishFetch(b, ok, p, to)
        PROVE  status'[c] = status[c]
    BY <1>1 DEF FinishFetch
  <1>2. ASSUME NEW b \in Block, NEW p, NEW to, NEW q, RollbackFetch(b, p, to, q)
        PROVE  status'[c] = status[c]
    BY <1>0, <1>2 DEF RollbackFetch
  <1>3. CASE QuietStep
    <2>1. ASSUME NEW p \in Proc, Reserve(p) PROVE status'[c] = status[c]
      BY <2>1 DEF Reserve, ReserveFailed, ReserveNone, ReserveCommit, ReserveWait, PermitTaken,
         PermitUnneeded, PermitCancelled
    <2>2. ASSUME NEW r \in Reader,
                 \/ SliceReady(r) \/ SliceWait(r) \/ SliceDemand(r) \/ SliceError(r)
                 \/ ActivateError(r) \/ DemandGet(r)
          PROVE  status'[c] = status[c]
      BY <2>2 DEF SliceReady, SliceWait, SliceDemand, SliceError, ActivateError, DemandGet
    <2>3. ASSUME NEW r \in Reader, AbortReader(r) PROVE status'[c] = status[c]
      BY <1>0, <1>2, <2>3 DEF AbortReader
    <2>4. ASSUME NEW r \in Reader, NEW ok \in BOOLEAN, DemandDone(r, ok)
          PROVE  status'[c] = status[c]
      BY <1>0, <1>1, <2>4 DEF DemandDone
    <2>5. CASE SchedulerStep
      BY <1>0, <1>2, <2>5 DEF SchedulerStep, StartScheduler, PrefetchNext, PrefetchAwait,
         AbortScheduler
    <2>6. ASSUME NEW b \in Block, PrefetchGet(b) \/ DropPrefetch(b) PROVE status'[c] = status[c]
      BY <1>2, <2>6 DEF PrefetchGet, DropPrefetch
    <2>7. ASSUME NEW b \in Block, NEW ok \in BOOLEAN, PrefetchDone(b, ok)
          PROVE  status'[c] = status[c]
      BY <1>1, <2>7 DEF PrefetchDone
    <2>8. CASE Cancel \/ UNCHANGED vars
      BY <2>8 DEF Cancel, vars
    <2> QED
      BY <1>3, <2>1, <2>2, <2>3, <2>4, <2>5, <2>6, <2>7, <2>8 DEF QuietStep
  <1>4. ASSUME NEW r \in Reader, ConsumeBlock(r) \/ DropReaderBlock(r)
        PROVE  status'[c] = status[c]
    <2>1. \E to : ReleaseBlockReader(pos[r], r, to)
      BY <1>4 DEF ConsumeBlock, DropReaderBlock
    <2>2. status[pos[r]] # "Ready"
      BY <1>0
    <2> QED BY <2>1, <2>2 DEF ReleaseBlockReader
  <1>5. ASSUME NEW r \in Reader, DropClaim(r) PROVE status'[c] = status[c]
    <2>1. \E S : c \notin S /\ ReleaseReady(S)
      <3>1. status[c] # "Ready"
        BY <1>0
      <3> QED BY <1>5, <3>1 DEF DropClaim
    <2> QED BY <2>1 DEF ReleaseReady
  <1>6. CASE \/ TaskOnlyStep
             \/ \E r \in Reader : ActivateReader(r)
             \/ \E e \in Entry : StartBody(e) \/ RetainForReplay(e)
    BY <1>6 DEF TaskOnlyStep, ActivateReader, StartBody, RetainForReplay, AddReplayClaims,
       SpawnTask, AttemptFails, TaskSucceeds, TaskFails
  <1> QED
    BY <1>3, <1>4, <1>5, <1>6, StepKinds DEF MoveStep

LEMMA CancelledNext == IInv /\ Cancelled /\ [Next]_vars => Cancelled'
  <1> SUFFICES ASSUME IInv, Cancelled, [Next]_vars, failure', NEW c \in Block
               PROVE  status'[c] \in {"Released", "Failed"}
    BY DEF Cancelled
  <1>1. CASE failure
    BY <1>1, CancelledStays DEF Cancelled
  <1>2. CASE ~failure
    <2>1. Cancel
      BY <1>2, FailureRises
    <2> QED BY <2>1 DEF Cancel
  <1> QED
    BY <1>1, <1>2

EndInv == ReadyInv /\ Owners /\ Queued /\ Cancelled

LEMMA EndInductive == Spec => []EndInv
  <1>1. Init => EndInv
    <2>1. Init => Cancelled
      BY DEF Init, Cancelled
    <2> QED
      BY <2>1, InitIInv, LifeInit, ClaimsInit, ReadyInit, OwnersInit, QueuedInit
         DEF EndInv, ReadyInv, ClaimsInv
  <1>2. EndInv /\ [Next]_vars => EndInv'
    BY ClaimsNext, ReadyNeededNext, HaveReadyNext, OwnersNext, QueuedNext, CancelledNext
       DEF EndInv, ReadyInv, ClaimsInv
  <1> QED
    BY <1>1, <1>2, PTL DEF Spec

\* Once everything has stopped, no block is resident.
LEMMA NothingResident ==
  ASSUME EndInv, Finished, NEW b \in Block
  PROVE  b \notin Resident
  <1>0. /\ Scheduler \in Proc /\ \A p \in Proc : p = Scheduler \/ p \in Reader
        /\ \A r \in Reader : at[r] = "None"
    BY DEF Finished, EndInv, ReadyInv, ClaimsInv, IInv, ReaderPlaced, Active, Proc
  <1>1. CASE failure
    BY <1>1 DEF EndInv, Cancelled, Resident
  <1>2. CASE ~failure
    <2>1. \A p \in Proc : ~FetchedBy(p, b)
      BY <1>0 DEF FetchedBy, Finished
    <2>2. status[b] # "Fetching"
      BY <1>2, <2>1 DEF EndInv, Owners, Owned
    <2>3. Claimants(b) = {} /\ Savers(b) = {}
      <3>1. \A e \in Entry : ~retained[e]
        BY <1>2 DEF Finished, TransferOver, EndInv, ReadyInv, ClaimsInv, LifeInv, TakenUp
      <3> QED BY <3>1 DEF Claimants, Savers, HoldsClaim, Finished
    <2>4. remaining[b] = 0
      <3>1. Counted(b)
        BY <1>2, CountedByBlock DEF EndInv, ReadyInv, ClaimsInv
      <3> QED BY <2>3, <3>1, FS_EmptySet DEF Counted
    <2>5. status[b] # "Ready"
      BY <1>2, <2>4 DEF EndInv, ReadyInv, ReadyNeeded
    <2> QED BY <2>2, <2>5 DEF Resident
  <1> QED BY <1>1, <1>2

\* When the transfer is over, however it ended, every permit is back in the
\* invocation-global budget and no reservation is left in its queue.
THEOREM BudgetIsReturned == Spec => []BudgetReturned
  <1>1. ASSUME EndInv, Finished PROVE available = BudgetBytes /\ queue = <<>>
    <2>1. Held = {}
      BY <1>1, NothingResident
         DEF EndInv, ReadyInv, ClaimsInv, IInv, MemoryAccounting, Held, Resident
    <2>2. available \in Nat /\ available + Weight(Held) = BudgetBytes
      BY <1>1 DEF EndInv, ReadyInv, ClaimsInv, IInv, TypeOK, MemoryAccounting
    <2>3. available = BudgetBytes
      BY <2>1, <2>2, WeightSingle
    <2>4. \A p \in Proc : at[p] # "Permit"
      BY <1>1 DEF Finished, EndInv, ReadyInv, ClaimsInv, IInv, ReaderPlaced, Active, Proc
    <2>5. queue \in Seq(Proc)
      BY <1>1 DEF EndInv, ReadyInv, ClaimsInv, IInv, TypeOK
    <2>6. DOMAIN queue = {}
      <3>1. ASSUME NEW i \in DOMAIN queue PROVE FALSE
        <4>1. queue[i] \in Proc
          BY <2>5
        <4>2. at[queue[i]] = "Permit"
          BY <1>1, <4>1 DEF EndInv, Queued
        <4> QED BY <2>4, <4>1, <4>2
      <3> QED BY <3>1
    <2>7. queue = <<>>
      <3>1. Len(queue) \in Nat /\ DOMAIN queue = 1 .. Len(queue)
        BY <2>5
      <3>2. Len(queue) = 0
        <4>1. \A n \in Nat : n # 0 => 1 \in 1 .. n
          OBVIOUS
        <4> QED BY <2>6, <3>1, <4>1
      <3> QED BY <2>5, <3>2
    <2> QED BY <2>3, <2>7
  <1>2. EndInv => BudgetReturned
    BY <1>1 DEF BudgetReturned
  <1> QED
    BY <1>2, EndInductive, PTL

-----------------------------------------------------------------------------
(* Refinement *)

Arrived  == {b \in Block : status[b] = "Ready"}
Readings == {x \in Reader \X Block : at[x[1]] = "Have" /\ pos[x[1]] = x[2]}

\* Reader r is handed no slice and gives none back, and stays where it is.
SameReading(r) ==
  /\ at'[r] = "Have" <=> at[r] = "Have"
  /\ at[r] = "Have" => pos'[r] = pos[r]

\* A process moves, and the others are woken at most.
LEMMA HaveMoves ==
  ASSUME TypeOK, NEW p \in Proc, NEW to,
         at' = [at EXCEPT ![p] = to] \/ \E s : at' = [Woken(s) EXCEPT ![p] = to]
  PROVE  /\ at'[p] = to
         /\ \A q \in Proc : q # p => (at'[q] = "Have" <=> at[q] = "Have")
  <1>0. at \in [Proc -> Place]
    BY DEF TypeOK
  <1>1. CASE at' = [at EXCEPT ![p] = to]
    BY <1>0, <1>1
  <1>2. ASSUME NEW s, at' = [Woken(s) EXCEPT ![p] = to]
        PROVE  /\ at'[p] = to
               /\ \A q \in Proc : q # p => (at'[q] = "Have" <=> at[q] = "Have")
    <2>1. at'[p] = to /\ \A q \in Proc : q # p => at'[q] = Woken(s)[q]
      BY <1>0, <1>2, WokenType
    <2>2. \A q \in Proc : Woken(s)[q] = "Have" <=> at[q] = "Have"
      BY DEF Woken
    <2> QED BY <2>1, <2>2
  <1> QED BY <1>1, <1>2

LEMMA ReadingsSame ==
  ASSUME \A r \in Reader : SameReading(r)
  PROVE  Readings' = Readings
  BY DEF SameReading, Readings

LEMMA ReadingsStop ==
  ASSUME NEW r \in Reader, at'[r] # "Have", \A q \in Reader \ {r} : SameReading(q)
  PROVE  Readings' = Readings \ ({r} \X Block)
  <1>1. ASSUME NEW q \in Reader, NEW b \in Block
        PROVE  <<q, b>> \in Readings' <=> <<q, b>> \in Readings \ ({r} \X Block)
    BY DEF SameReading, Readings
  <1>2. Readings' \subseteq Reader \X Block /\ Readings \subseteq Reader \X Block
    BY DEF Readings
  <1> QED BY <1>1, <1>2

LEMMA ReadingsStart ==
  ASSUME NEW r \in Reader, pos[r] \in Block, at[r] # "Have", at'[r] = "Have", pos'[r] = pos[r],
         \A q \in Reader \ {r} : SameReading(q)
  PROVE  Readings' = Readings \cup {<<r, pos[r]>>}
  <1>1. ASSUME NEW q \in Reader, NEW b \in Block
        PROVE  <<q, b>> \in Readings' <=> <<q, b>> \in Readings \cup {<<r, pos[r]>>}
    BY DEF SameReading, Readings
  <1>2. Readings' \subseteq Reader \X Block /\ Readings \subseteq Reader \X Block
    BY DEF Readings
  <1> QED BY <1>1, <1>2

\* A permit is held for exactly the blocks that are fetched or have arrived.
LEMMA HeldBlocks ==
  ASSUME IInv, IInv'
  PROVE  /\ Held = {b \in Block : status[b] \in {"Fetching", "Ready"}}
         /\ Held' = {b \in Block : status'[b] \in {"Fetching", "Ready"}}
  BY DEF IInv, MemoryAccounting, Resident

\* Block b keeps its memory and its bytes, or stays without.
SameBlock(b) ==
  \/ status'[b] = status[b]
  \/ status[b] \notin {"Fetching", "Ready"} /\ status'[b] \notin {"Fetching", "Ready"}

LEMMA BlocksSame ==
  ASSUME IInv, IInv', \A b \in Block : SameBlock(b)
  PROVE  Held' = Held /\ Arrived' = Arrived
  BY HeldBlocks DEF SameBlock, Arrived

LEMMA PoolStays ==
  ASSUME IInv, IInv', \A b \in Block : SameBlock(b), \A r \in Reader : SameReading(r),
         UNCHANGED <<remaining, failure>>
  PROVE  [Pool!Next]_Pool!vars
  <1>1. Held' = Held /\ Arrived' = Arrived /\ Readings' = Readings
    BY BlocksSame, ReadingsSame
  <1> QED BY <1>1 DEF Pool!vars, Arrived, Readings

LEMMA PoolFetches ==
  ASSUME IInv, IInv', ~failure, NEW b \in Block, remaining[b] > 0,
         status[b] \notin {"Fetching", "Ready"}, status'[b] = "Fetching",
         \A c \in Block \ {b} : SameBlock(c), \A r \in Reader : SameReading(r),
         UNCHANGED <<remaining, failure>>
  PROVE  Pool!Next
  <1>1. Readings' = Readings
    BY ReadingsSame
  <1>2. /\ Held = {c \in Block : status[c] \in {"Fetching", "Ready"}}
        /\ Held' = {c \in Block : status'[c] \in {"Fetching", "Ready"}}
    BY HeldBlocks
  <1>3. b \notin Held /\ Held' = Held \cup {b} /\ Arrived' = Arrived
    BY <1>2 DEF SameBlock, Arrived
  <1>4. Weight(Held \cup {b}) <= BudgetBytes
    <2>1. available' \in Nat /\ available' + Weight(Held') = BudgetBytes
      BY DEF IInv, TypeOK, MemoryAccounting
    <2>2. Held' \in SUBSET Block
      BY <1>2
    <2>3. Weight(Held') \in Nat
      BY <2>2, WeightType
    <2>4. Weight(Held') <= BudgetBytes
      BY <2>1, <2>3
    <2> QED BY <1>3, <2>4
  <1>5. Pool!Fetch(b)
    BY <1>1, <1>3, <1>4 DEF Pool!Fetch, Arrived, Readings
  <1> QED BY <1>5 DEF Pool!Next

LEMMA PoolArrives ==
  ASSUME IInv, IInv', NEW b \in Block, remaining[b] > 0,
         status[b] = "Fetching", status'[b] = "Ready",
         \A c \in Block \ {b} : SameBlock(c), \A r \in Reader : SameReading(r),
         UNCHANGED <<remaining, failure>>
  PROVE  Pool!Next
  <1>1. Readings' = Readings
    BY ReadingsSame
  <1>2. /\ Held = {c \in Block : status[c] \in {"Fetching", "Ready"}}
        /\ Held' = {c \in Block : status'[c] \in {"Fetching", "Ready"}}
    BY HeldBlocks
  <1>3. b \in Held \ Arrived /\ Held' = Held /\ Arrived' = Arrived \cup {b}
    BY <1>2 DEF SameBlock, Arrived
  <1>4. Pool!Arrive(b)
    BY <1>1, <1>3 DEF Pool!Arrive, Arrived, Readings
  <1> QED BY <1>4 DEF Pool!Next

LEMMA PoolGivesUp ==
  ASSUME IInv, IInv', NEW b \in Block,
         status[b] = "Fetching", status'[b] \notin {"Fetching", "Ready"},
         \A c \in Block \ {b} : SameBlock(c), \A r \in Reader : SameReading(r),
         UNCHANGED <<remaining, failure>>
  PROVE  Pool!Next
  <1>1. Readings' = Readings
    BY ReadingsSame
  <1>2. /\ Held = {c \in Block : status[c] \in {"Fetching", "Ready"}}
        /\ Held' = {c \in Block : status'[c] \in {"Fetching", "Ready"}}
    BY HeldBlocks
  <1>3. b \in Held \ Arrived /\ Held' = Held \ {b} /\ Arrived' = Arrived
    BY <1>2 DEF SameBlock, Arrived
  <1>4. Pool!GiveUp(b)
    BY <1>1, <1>3 DEF Pool!GiveUp, Arrived, Readings
  <1> QED BY <1>4 DEF Pool!Next

LEMMA PoolStops ==
  ASSUME IInv, IInv', NEW r \in Reader, at'[r] # "Have",
         \A q \in Reader \ {r} : SameReading(q), \A b \in Block : SameBlock(b),
         UNCHANGED <<remaining, failure>>
  PROVE  Pool!Next
  <1>1. Held' = Held /\ Arrived' = Arrived /\ Readings' = Readings \ ({r} \X Block)
    BY BlocksSame, ReadingsStop
  <1>2. Pool!Stop(r)
    BY <1>1 DEF Pool!Stop, Arrived, Readings
  <1> QED BY <1>2 DEF Pool!Next

\* The end of a fetch, and the drop of an armed reservation.
LEMMA PoolFinish ==
  ASSUME EndInv, IInv', ~failure, NEW b \in Block, NEW ok \in BOOLEAN, NEW p \in Proc, NEW to,
         FinishFetch(b, ok, p, to), at[p] # "Have", to # "Have",
         \A r \in Reader : pos'[r] = pos[r], UNCHANGED <<remaining, failure>>
  PROVE  [Pool!Next]_Pool!vars
  <1>0. IInv /\ TypeOK /\ status \in [Block -> Status] /\ Counted(b) /\ Reader \subseteq Proc
    BY CountedByBlock, ProcFacts DEF EndInv, ReadyInv, ClaimsInv, IInv, TypeOK
  <1>1. \A r \in Reader : SameReading(r)
    <2>1. at' = [at EXCEPT ![p] = to] \/ \E s : at' = [Woken(s) EXCEPT ![p] = to]
      BY DEF FinishFetch
    <2> QED BY <1>0, <2>1, HaveMoves DEF SameReading
  <1>2. CASE status[b] # "Fetching"
    <2>1. status' = status
      BY <1>2 DEF FinishFetch
    <2> QED BY <1>0, <1>1, <2>1, PoolStays DEF SameBlock
  <1>3. CASE status[b] = "Fetching" /\ ok /\ (remaining[b] > 0 \/ live[b] > 0)
    <2>1. status' = [status EXCEPT ![b] = "Ready"]
      BY <1>3 DEF FinishFetch
    <2>2. remaining[b] > 0
      BY <1>0, <1>3, UsedIsNeeded
    <2>3. status'[b] = "Ready" /\ \A c \in Block \ {b} : SameBlock(c)
      BY <1>0, <2>1 DEF SameBlock
    <2> QED BY <1>0, <1>1, <1>3, <2>2, <2>3, PoolArrives
  <1>4. CASE status[b] = "Fetching" /\ ~(ok /\ (remaining[b] > 0 \/ live[b] > 0))
    <2>1. status' = [status EXCEPT ![b] = IF ok THEN "Released" ELSE "Failed"]
      BY <1>4 DEF FinishFetch
    <2>2. status'[b] \notin {"Fetching", "Ready"} /\ \A c \in Block \ {b} : SameBlock(c)
      BY <1>0, <2>1 DEF SameBlock
    <2> QED BY <1>0, <1>1, <1>4, <2>2, PoolGivesUp
  <1> QED BY <1>2, <1>3, <1>4

LEMMA PoolRollback ==
  ASSUME IInv, IInv', NEW b \in Block, NEW p \in Proc, NEW to, NEW q,
         RollbackFetch(b, p, to, q), at[p] # "Have", to # "Have",
         \A r \in Reader : pos'[r] = pos[r], UNCHANGED <<remaining, failure>>
  PROVE  [Pool!Next]_Pool!vars
  <1>0. TypeOK /\ status \in [Block -> Status] /\ Reader \subseteq Proc
    BY ProcFacts DEF IInv, TypeOK
  <1>1. \A r \in Reader : SameReading(r)
    <2>1. at' = [at EXCEPT ![p] = to] \/ \E s : at' = [Woken(s) EXCEPT ![p] = to]
      BY DEF RollbackFetch
    <2> QED BY <1>0, <2>1, HaveMoves DEF SameReading
  <1>2. CASE status[b] # "Fetching"
    <2>1. status' = status \/ (status[b] = "Reserving" /\ status' = [status EXCEPT ![b] = "Pending"])
      BY <1>2 DEF RollbackFetch
    <2>2. \A c \in Block : SameBlock(c)
      BY <1>0, <2>1 DEF SameBlock
    <2> QED BY <1>1, <2>2, PoolStays
  <1>3. CASE status[b] = "Fetching"
    <2>1. status' = [status EXCEPT ![b] = "Pending"]
      BY <1>3 DEF RollbackFetch
    <2>2. status'[b] \notin {"Fetching", "Ready"} /\ \A c \in Block \ {b} : SameBlock(c)
      BY <1>0, <2>1 DEF SameBlock
    <2> QED BY <1>1, <1>3, <2>2, PoolGivesUp
  <1> QED BY <1>2, <1>3

\* The steps that move no claim fetch, hand slices out or give them back.
LEMMA PoolReserve ==
  ASSUME IInv, IInv', ~failure, NEW p \in Proc, Reserve(p)
  PROVE  [Pool!Next]_Pool!vars
  <1> USE DEF slotVars, sumVars, budgetVars, readerVars, schedVars, taskVars
  <1> DEFINE b == pos[p]
  <1>0. TypeOK /\ status \in [Block -> Status] /\ Reader \subseteq Proc /\ b \in Block
    BY ProcFacts DEF IInv, TypeOK
  <1>1. UNCHANGED <<remaining, failure, pos>> /\ at[p] # "Have"
    BY DEF Reserve, ReserveFailed, ReserveNone, ReserveCommit, ReserveWait, PermitTaken,
       PermitUnneeded, PermitCancelled, PermitReady
  <1>2. \A r \in Reader : SameReading(r)
    <2>1. \E to \in {"Next", "Check", "Permit", "Capacity", "Fetch"} :
             at' = [at EXCEPT ![p] = to] \/ \E s : at' = [Woken(s) EXCEPT ![p] = to]
      BY DEF Reserve, ReserveFailed, ReserveNone, ReserveCommit, ReserveWait, PermitTaken,
         PermitUnneeded, PermitCancelled, Resume
    <2> QED BY <1>0, <1>1, <2>1, HaveMoves DEF SameReading
  <1>3. CASE PermitTaken(p)
    <2>1. /\ remaining[b] > 0 /\ status[b] = "Reserving"
          /\ status' = [status EXCEPT ![b] = "Fetching"]
      BY <1>3 DEF PermitTaken
    <2>2. status'[b] = "Fetching" /\ \A c \in Block \ {b} : SameBlock(c)
      BY <1>0, <2>1 DEF SameBlock
    <2> QED BY <1>0, <1>1, <1>2, <2>1, <2>2, PoolFetches
  <1>4. CASE ~PermitTaken(p)
    <2>1. \/ status' = status
          \/ /\ status[b] \in {"Pending", "Reserving"}
             /\ \E to \in {"Reserving", "Released"} : status' = [status EXCEPT ![b] = to]
      BY <1>4 DEF Reserve, ReserveFailed, ReserveNone, ReserveCommit, ReserveWait,
         PermitUnneeded, PermitCancelled, Reservable
    <2>2. \A c \in Block : SameBlock(c)
      BY <1>0, <2>1 DEF SameBlock
    <2> QED BY <1>1, <1>2, <2>2, PoolStays
  <1> QED BY <1>3, <1>4

LEMMA PoolReader ==
  ASSUME IInv, IInv', ~failure, NEW r \in Reader,
         \/ SliceReady(r) \/ SliceWait(r) \/ SliceDemand(r) \/ SliceError(r)
         \/ ActivateError(r) \/ AbortReader(r) \/ DemandGet(r)
  PROVE  [Pool!Next]_Pool!vars
  <1> USE DEF slotVars, sumVars, budgetVars, readerVars, schedVars, taskVars
  <1>0. TypeOK /\ r \in Proc /\ Reader \subseteq Proc /\ pos[r] \in Block
    BY ProcFacts DEF IInv, TypeOK
  <1>1. UNCHANGED <<remaining, failure, pos>>
    BY DEF SliceReady, SliceWait, SliceDemand, SliceError, ActivateError, AbortReader, DemandGet
  <1>2. CASE SliceReady(r)
    <2>1. /\ at[r] = "Check" /\ status[pos[r]] = "Ready" /\ at' = [at EXCEPT ![r] = "Have"]
          /\ UNCHANGED <<permit, status>>
      BY <1>2 DEF SliceReady
    <2>2. at'[r] = "Have" /\ \A q \in Reader \ {r} : SameReading(q)
      BY <1>0, <1>1, <2>1, HaveMoves DEF SameReading
    <2>3. Readings' = Readings \cup {<<r, pos[r]>>}
      BY <1>0, <1>1, <2>1, <2>2, ReadingsStart
    <2>4. UNCHANGED <<Held, Arrived>> /\ pos[r] \in Arrived
      BY <1>0, <2>1 DEF Held, Arrived
    <2>5. PICK b \in Block : b = pos[r]
      BY <1>0
    <2>6. Pool!Read(r, b)
      BY <1>1, <2>3, <2>4, <2>5 DEF Pool!Read, Arrived, Readings
    <2> QED BY <2>6 DEF Pool!Next
  <1>3. CASE AbortReader(r) /\ at[r] \in {"Permit", "Fetch", "Get"}
    BY <1>0, <1>1, <1>3, PoolRollback DEF AbortReader
  <1>4. CASE ~SliceReady(r) /\ ~(AbortReader(r) /\ at[r] \in {"Permit", "Fetch", "Get"})
    <2>1. UNCHANGED status
          /\ \E to \in {"Notify", "Reserve", "Get", "None"} : at' = [at EXCEPT ![r] = to]
      BY <1>4, ReaderPair DEF SliceWait, SliceDemand, SliceError, ActivateError, AbortReader,
         DemandGet, ReturnErr
    <2>2. at'[r] # "Have" /\ \A q \in Reader \ {r} : SameReading(q)
      BY <1>0, <1>1, <2>1, HaveMoves DEF SameReading
    <2>3. \A b \in Block : SameBlock(b)
      BY <2>1 DEF SameBlock
    <2> QED BY <1>1, <2>2, <2>3, PoolStops
  <1> QED BY <1>2, <1>3, <1>4

LEMMA PoolQuiet ==
  ASSUME EndInv, IInv', ~failure, ~failure', QuietStep
  PROVE  [Pool!Next]_Pool!vars
  <1> USE DEF slotVars, sumVars, budgetVars, readerVars, schedVars, taskVars
  <1>0. /\ IInv /\ TypeOK /\ Reader \subseteq Proc /\ Scheduler \in Proc /\ Scheduler \notin Reader
        /\ \A p \in Proc : pos[p] \in Block
    BY ProcFacts DEF EndInv, ReadyInv, ClaimsInv, IInv, TypeOK
  <1>1. UNCHANGED <<remaining, failure>> /\ \A r \in Reader : pos'[r] = pos[r]
    BY <1>0, QuietKeeps, QuietFailure DEF ClaimsKeep, ReadersKeep, Cancel
  <1>2. ASSUME NEW p \in Proc, Reserve(p) PROVE [Pool!Next]_Pool!vars
    BY <1>0, <1>2, PoolReserve
  <1>3. ASSUME NEW r \in Reader,
               \/ SliceReady(r) \/ SliceWait(r) \/ SliceDemand(r) \/ SliceError(r)
               \/ ActivateError(r) \/ AbortReader(r) \/ DemandGet(r)
        PROVE  [Pool!Next]_Pool!vars
    BY <1>0, <1>3, PoolReader
  <1>4. ASSUME NEW r \in Reader, NEW ok \in BOOLEAN, DemandDone(r, ok)
        PROVE  [Pool!Next]_Pool!vars
    <2>1. FinishFetch(pos[r], ok, r, "Check") /\ at[r] # "Have"
      BY <1>4 DEF DemandDone
    <2> QED BY <1>0, <1>1, <2>1, PoolFinish
  <1>5. ASSUME NEW b \in Block, NEW ok \in BOOLEAN, PrefetchDone(b, ok)
        PROVE  [Pool!Next]_Pool!vars
    <2>1. FinishFetch(b, ok, Scheduler, "Next") /\ at[Scheduler] # "Have"
      BY <1>5 DEF PrefetchDone
    <2> QED BY <1>0, <1>1, <2>1, PoolFinish
  <1>6. ASSUME NEW b \in Block, DropPrefetch(b) PROVE [Pool!Next]_Pool!vars
    <2>1. RollbackFetch(b, Scheduler, "Stopped", queue) /\ at[Scheduler] # "Have"
      BY <1>6 DEF DropPrefetch
    <2> QED BY <1>0, <1>1, <2>1, PoolRollback
  <1>7. CASE AbortScheduler /\ at[Scheduler] = "Permit"
    BY <1>0, <1>1, <1>7, PoolRollback DEF AbortScheduler
  <1>8. CASE \/ StartScheduler \/ PrefetchNext \/ PrefetchAwait
             \/ AbortScheduler /\ at[Scheduler] # "Permit"
             \/ UNCHANGED vars \/ \E b \in Block : PrefetchGet(b)
    <2>1. UNCHANGED status /\ (UNCHANGED at \/ \E to : at' = [at EXCEPT ![Scheduler] = to])
      BY <1>8 DEF StartScheduler, PrefetchNext, PrefetchAwait, AbortScheduler, PrefetchGet, vars
    <2>2. \A r \in Reader : SameReading(r)
      BY <1>0, <1>1, <2>1, HaveMoves DEF SameReading
    <2>3. \A b \in Block : SameBlock(b)
      BY <2>1 DEF SameBlock
    <2> QED BY <1>0, <1>1, <2>2, <2>3, PoolStays
  <1>9. ~Cancel
    BY DEF Cancel
  <1> QED
    BY <1>2, <1>3, <1>4, <1>5, <1>6, <1>7, <1>8, <1>9 DEF QuietStep, SchedulerStep

\* A reader that gives claims on S back takes away what only it has claimed.
LEMMA PoolReleases ==
  ASSUME EndInv, EndInv', ~failure, UNCHANGED failure, NEW r \in Reader, NEW S \in SUBSET Block,
         \A b \in S : remaining[b] > 0 /\ remaining'[b] = remaining[b] - 1,
         \A b \in Block \ S : remaining'[b] = remaining[b],
         \A b \in Block : status'[b] = status[b] \/ (status[b] = "Ready" /\ status'[b] = "Released"),
         at'[r] # "Have", \A q \in Reader \ {r} : SameReading(q)
  PROVE  Pool!Next
  <1> DEFINE left == [b \in Block |-> IF b \in S THEN remaining[b] - 1 ELSE remaining[b]]
             gone == {b \in S \cap Arrived : left[b] = 0}
  <1>0. /\ IInv /\ IInv' /\ remaining \in [Block -> Nat] /\ remaining' \in [Block -> Nat]
        /\ Reader \subseteq Proc
    BY ProcFacts DEF EndInv, ReadyInv, ClaimsInv, IInv, TypeOK
  <1>1. remaining' = left
    BY <1>0
  <1>2. \A b \in Block : /\ status[b] = "Ready" => remaining[b] > 0
                         /\ status'[b] = "Ready" => remaining'[b] > 0
                         /\ status'[b] = "Released" => remaining'[b] = 0
    BY DEF EndInv, ReadyInv, ClaimsInv, ReadyNeeded, ClaimAccounting
  <1>3. \A b \in Block : b \in gone <=> status[b] = "Ready" /\ status'[b] = "Released"
    <2> SUFFICES ASSUME NEW b \in Block
                 PROVE  b \in gone <=> status[b] = "Ready" /\ status'[b] = "Released"
      OBVIOUS
    <2>1. ASSUME b \in gone PROVE status[b] = "Ready" /\ status'[b] = "Released"
      <3>1. status[b] = "Ready" /\ remaining'[b] = 0
        BY <1>1, <2>1 DEF Arrived
      <3> QED BY <1>2, <3>1
    <2>2. ASSUME status[b] = "Ready", status'[b] = "Released" PROVE b \in gone
      <3>1. remaining[b] > 0 /\ remaining'[b] = 0
        BY <1>2, <2>2
      <3>2. b \in S
        BY <3>1
      <3> QED BY <1>1, <2>2, <3>1, <3>2 DEF Arrived
    <2> QED BY <2>1, <2>2
  <1>4. gone \subseteq Block
    OBVIOUS
  <1> HIDE DEF left
  <1>5. /\ Held = {b \in Block : status[b] \in {"Fetching", "Ready"}}
        /\ Held' = {b \in Block : status'[b] \in {"Fetching", "Ready"}}
    BY <1>0, HeldBlocks
  <1>6. Held' = Held \ gone /\ Arrived' = Arrived \ gone
    <2> HIDE DEF gone
    <2> QED BY <1>3, <1>4, <1>5 DEF Arrived
  <1>7. Readings' = Readings \ ({r} \X Block)
    BY ReadingsStop
  <1>8. \A x \in Readings' : x[2] \notin gone
    <2> SUFFICES ASSUME NEW x \in Readings' PROVE x[2] \in Arrived'
      BY <1>6
    <2>1. x[1] \in Reader /\ x[2] \in Block /\ at'[x[1]] = "Have" /\ pos'[x[1]] = x[2]
      BY DEF Readings
    <2> QED BY <2>1 DEF EndInv, ReadyInv, HaveReady, Arrived
  <1>9. Pool!Release(r, S)
    BY <1>1, <1>6, <1>7, <1>8 DEF Pool!Release, Arrived, Readings, left
  <1> QED BY <1>9 DEF Pool!Next

LEMMA PoolClaims ==
  ASSUME IInv, IInv', ~failure, NEW e \in Entry, AddReplayClaims(e), UNCHANGED failure,
         \A r \in Reader : SameReading(r)
  PROVE  Pool!Next
  <1>0. remaining \in [Block -> Nat] /\ Span(e) \subseteq Block
    <2>1. remaining \in [Block -> Nat]
      BY DEF IInv, TypeOK
    <2>2. Span(e) \subseteq Block
      BY SizesAssumption, EntriesAssumption DEF Span, Block
    <2> QED BY <2>1, <2>2
  <1>1. /\ remaining' = [b \in Block |-> IF b \in Span(e) THEN remaining[b] + 1 ELSE remaining[b]]
        /\ \A b \in Block : SameBlock(b)
    BY DEF AddReplayClaims, SameBlock
  <1>2. remaining' = [b \in Block |-> remaining[b] + (IF b \in Span(e) THEN 1 ELSE 0)]
    BY <1>0, <1>1
  <1>3. Held' = Held /\ Arrived' = Arrived /\ Readings' = Readings
    BY <1>1, BlocksSame, ReadingsSame
  <1>4. Pool!Claim(Span(e))
    BY <1>2, <1>3 DEF Pool!Claim, Arrived, Readings
  <1> QED BY <1>0, <1>4 DEF Pool!Next

\* The steps that move claims claim, stop or release.
LEMMA PoolMove ==
  ASSUME EndInv, EndInv', ~failure, MoveStep
  PROVE  [Pool!Next]_Pool!vars
  <1> USE DEF slotVars, sumVars, budgetVars, readerVars, schedVars, taskVars
  <1>0. /\ IInv /\ IInv' /\ TypeOK /\ Reader \subseteq Proc /\ at \in [Proc -> Place]
        /\ remaining \in [Block -> Nat] /\ pos \in [Proc -> Block]
        /\ \A b \in Block : Counted(b)
    BY ProcFacts, CountedByBlock DEF EndInv, ReadyInv, ClaimsInv, IInv, TypeOK
  <1>1. UNCHANGED failure
    BY DEF MoveStep, ActivateReader, ConsumeBlock, DropReaderBlock, DropClaim, StartBody,
       RetainForReplay
  <1>2. ASSUME NEW r \in Reader, ActivateReader(r) PROVE Pool!Next
    <2>1. at' = [at EXCEPT ![r] = "Check"] /\ UNCHANGED <<remaining, status, pos>>
      BY <1>2 DEF ActivateReader
    <2>2. at'[r] # "Have" /\ \A q \in Reader \ {r} : SameReading(q)
      BY <1>0, <2>1, HaveMoves DEF SameReading
    <2> QED BY <1>0, <1>1, <2>1, <2>2, PoolStops DEF SameBlock
  <1>3. ASSUME NEW r \in Reader, ConsumeBlock(r) \/ DropReaderBlock(r) PROVE Pool!Next
    <2> DEFINE b == pos[r]
               left == SaturatingSub(remaining[b], 1)
    <2>1. b \in Block /\ r \in Claimants(b) /\ r \in Users(b)
      BY <1>0, <1>3, PassHolds DEF Claimants, Users
    <2>2. remaining[b] > 0 /\ left = remaining[b] - 1 /\ live[b] > 0
      <3>1. Counted(b)
        BY <1>0, <2>1
      <3>2. remaining[b] \in Nat /\ remaining[b] >= 1 /\ left = remaining[b] - 1
        BY <2>1, <3>1, OwnClaim
      <3>3. live[b] \in Nat /\ live[b] >= 1
        BY <2>1, <3>1, OwnUse
      <3> QED BY <3>2, <3>3
    <2>3. PICK to \in {"None", "Check"} : ReleaseBlockReader(b, r, to)
      BY <1>3 DEF ConsumeBlock, DropReaderBlock
    <2> HIDE DEF left
    <2>4. /\ remaining' = [remaining EXCEPT ![b] = left]
          /\ \A c \in Block : \/ status'[c] = status[c]
                              \/ status[c] = "Ready" /\ status'[c] = "Released"
          /\ at' = [at EXCEPT ![r] = to] \/ at' = [Woken({"capacity"}) EXCEPT ![r] = to]
      BY <2>2, <2>3 DEF ReleaseBlockReader, ReleaseReady, left
    <2>5. at'[r] # "Have" /\ \A q \in Reader \ {r} : SameReading(q)
      <3>1. at'[r] = to /\ \A q \in Proc : q # r => (at'[q] = "Have" <=> at[q] = "Have")
        BY <1>0, <2>4, HaveMoves
      <3>2. \A q \in Reader \ {r} : pos'[q] = pos[q]
        BY <1>0, <1>3, PassHolds
      <3> QED BY <1>0, <3>1, <3>2 DEF SameReading
    <2>6. /\ \A c \in {b} : remaining[c] > 0 /\ remaining'[c] = remaining[c] - 1
          /\ \A c \in Block \ {b} : remaining'[c] = remaining[c]
      BY <1>0, <2>1, <2>2, <2>4
    <2>7. {b} \in SUBSET Block
      BY <2>1
    <2> HIDE DEF b
    <2> QED BY <1>1, <2>4, <2>5, <2>6, <2>7, PoolReleases
  <1>4. ASSUME NEW r \in Reader, DropClaim(r) PROVE Pool!Next
    <2> DEFINE S == Span(r[1])
    <2>1. /\ phase[r] = "DroppingClaim"
          /\ \A b \in Block : remaining'[b] = IF b \in S THEN SaturatingSub(remaining[b], 1)
                                              ELSE remaining[b]
          /\ \A b \in Block : \/ status'[b] = status[b]
                              \/ status[b] = "Ready" /\ status'[b] = "Released"
          /\ at' = at \/ at' = Woken({"capacity"})
          /\ pos' = [pos EXCEPT ![r] = LastBlock[r[1]]]
      BY <1>4 DEF DropClaim, ReleaseReady
    <2>2. S \in SUBSET Block
      BY SizesAssumption, EntriesAssumption, ProcFacts DEF Span, Block
    <2>3. \A b \in S : remaining[b] > 0 /\ remaining'[b] = remaining[b] - 1
      <3> SUFFICES ASSUME NEW b \in S PROVE remaining[b] > 0 /\ remaining'[b] = remaining[b] - 1
        OBVIOUS
      <3>1. b \in Block /\ r \in Claimants(b)
        BY <2>1, <2>2 DEF Claimants, HoldsClaim
      <3>2. Counted(b)
        BY <1>0, <3>1
      <3>3. /\ remaining[b] \in Nat /\ remaining[b] >= 1
            /\ SaturatingSub(remaining[b], 1) = remaining[b] - 1
        BY <3>1, <3>2, OwnClaim
      <3>4. remaining'[b] = SaturatingSub(remaining[b], 1)
        BY <2>1, <3>1
      <3> QED BY <3>3, <3>4
    <2>4. \A b \in Block \ S : remaining'[b] = remaining[b]
      BY <2>1
    <2>5. at'[r] # "Have" /\ \A q \in Reader \ {r} : SameReading(q)
      <3>1. at[r] = "None"
        BY <1>0, <2>1 DEF IInv, ReaderPlaced, Active
      <3>2. \A q \in Reader : at'[q] = "Have" <=> at[q] = "Have"
        BY <1>0, <2>1 DEF Woken
      <3>3. \A q \in Reader \ {r} : pos'[q] = pos[q]
        BY <1>0, <2>1
      <3> QED BY <3>1, <3>2, <3>3 DEF SameReading
    <2> HIDE DEF S
    <2> QED BY <1>1, <2>1, <2>2, <2>3, <2>4, <2>5, PoolReleases
  <1>5. ASSUME NEW e \in Entry, StartBody(e) PROVE [Pool!Next]_Pool!vars
    <2> DEFINE r == <<e, attempt[e] + 1>>
    <2>1. \/ at' = [at EXCEPT ![r] = "Check"]
          \/ \E s : at' = [Woken(s) EXCEPT ![r] = "Check"]
      BY <1>5 DEF StartBody
    <2>2. pos' = [pos EXCEPT ![r] = FirstBlock[e]]
      BY <1>5 DEF StartBody
    <2>3. r \in Reader /\ at[r] = "None"
      <3>1. attempt[e] \in Nat /\ MaxAttempts[e] \in Nat /\ attempt[e] < MaxAttempts[e]
        BY <1>0, <1>5, EntriesAssumption DEF TypeOK, StartBody
      <3>2. attempt[e] + 1 \in Nat /\ 1 <= attempt[e] + 1 /\ attempt[e] + 1 <= MaxAttempts[e]
        BY <3>1
      <3>3. r \in Reader
        BY <3>2, ProcFacts
      <3>4. r[1] = e /\ r[2] = attempt[e] + 1 /\ r[2] > attempt[r[1]]
        BY <3>1
      <3>5. phase[r] = "Idle"
        BY <3>3, <3>4 DEF EndInv, ReadyInv, ClaimsInv, LifeInv, Started
      <3> QED BY <1>0, <3>3, <3>5 DEF IInv, ReaderPlaced, Active
    <2> HIDE DEF r
    <2>4. \A q \in Reader : SameReading(q)
      <3>1. at'[r] = "Check" /\ \A q \in Proc : q # r => (at'[q] = "Have" <=> at[q] = "Have")
        BY <1>0, <2>1, <2>3, HaveMoves
      <3>2. \A q \in Reader \ {r} : pos'[q] = pos[q]
        BY <1>0, <2>2
      <3> QED BY <1>0, <2>3, <3>1, <3>2 DEF SameReading
    <2>5. CASE retained[e]
      <3>1. UNCHANGED <<remaining, status>>
        BY <1>5, <2>5 DEF StartBody
      <3> QED BY <1>0, <1>1, <2>4, <3>1, PoolStays DEF SameBlock
    <2>6. CASE ~retained[e]
      <3>1. AddReplayClaims(e)
        BY <1>5, <2>6 DEF StartBody
      <3> QED BY <1>0, <1>1, <2>4, <3>1, PoolClaims
    <2> QED BY <2>5, <2>6
  <1>6. ASSUME NEW e \in Entry, RetainForReplay(e) PROVE Pool!Next
    <2>1. AddReplayClaims(e) /\ UNCHANGED pos /\ \E s : at' = Woken(s)
      BY <1>6 DEF RetainForReplay
    <2>2. \A q \in Reader : SameReading(q)
      BY <1>0, <2>1 DEF SameReading, Woken
    <2> QED BY <1>0, <1>1, <2>1, <2>2, PoolClaims
  <1> QED BY <1>2, <1>3, <1>4, <1>5, <1>6 DEF MoveStep

\* The blocks leave with cancel(), and after it only readers end.
LEMMA PoolCancels ==
  ASSUME IInv, IInv', ~failure, Cancel
  PROVE  Pool!Next
  <1>1. /\ failure' = TRUE /\ permit' = [b \in Block |-> FALSE]
        /\ status' = [b \in Block |-> IF status[b] = "Released" THEN "Released" ELSE "Failed"]
        /\ at' = Woken({"notify", "capacity"}) /\ UNCHANGED <<remaining, pos>>
    BY DEF Cancel, readerVars
  <1>2. \A r \in Reader : SameReading(r)
    BY <1>1, ProcFacts DEF SameReading, Woken
  <1>3. Held' = {} /\ Arrived' = {} /\ Readings' = Readings
    BY <1>1, <1>2, ReadingsSame DEF Held, Arrived
  <1>4. Pool!Cancel
    BY <1>1, <1>3 DEF Pool!Cancel, Arrived, Readings
  <1> QED BY <1>4 DEF Pool!Next

LEMMA PoolWindsDown ==
  ASSUME EndInv, EndInv', failure, [Next]_vars, UNCHANGED failure
  PROVE  Pool!Next
  <1>0. /\ IInv /\ IInv' /\ remaining' \in [Block -> Nat] /\ Reader \subseteq Proc
        /\ \A r \in Reader : pos[r] \in Block
    BY ProcFacts DEF EndInv, ReadyInv, ClaimsInv, IInv, TypeOK
  <1>1. \A b \in Block : SameBlock(b)
    BY <1>0, CancelledStays DEF EndInv, SameBlock
  <1>2. Held' = Held /\ Arrived' = Arrived
    BY <1>0, <1>1, BlocksSame
  <1>3. ASSUME NEW r \in Reader, at'[r] = "Have" PROVE at[r] = "Have" /\ pos'[r] = pos[r]
    <2>1. CASE QuietStep
      <3>1. status[pos[r]] # "Ready"
        BY <1>0 DEF EndInv, Cancelled
      <3>2. pos'[r] = pos[r]
        BY <1>0, <2>1, QuietKeeps DEF ClaimsKeep, ReadersKeep
      <3> QED BY <1>0, <1>3, <2>1, <3>1, <3>2, QuietHave
    <2>2. CASE TaskOnlyStep
      BY <1>3, <2>2 DEF TaskOnlyStep, SpawnTask, AttemptFails, TaskSucceeds, TaskFails, readerVars
    <2>3. CASE MoveStep
      BY <1>0, <1>3, <2>3, MoveHave
    <2> QED BY <2>1, <2>2, <2>3, StepKinds
  <1>4. Readings' \subseteq Readings
    BY <1>3 DEF Readings
  <1>5. Pool!WindDown
    BY <1>0, <1>2, <1>4 DEF Pool!WindDown, Arrived, Readings
  <1> QED BY <1>5 DEF Pool!Next

\* Whatever is fetched, shared, retried, aborted or cancelled, the store is a
\* pool of blocks: a block gets memory only while it is claimed and the budget has
\* room, keeps it from its arrival exactly to its last claim, and never loses it
\* under a reader that copies from it.
THEOREM ImplementsPool == Spec => PoolKept
  <1>1. Init => Pool!Init
    <2> SUFFICES ASSUME Init PROVE Pool!Init
      OBVIOUS
    <2>1. IInv
      BY InitIInv
    <2>2. remaining \in [Block -> Nat] /\ failure = FALSE
      BY <2>1 DEF IInv, TypeOK, Init
    <2>3. Held = {} /\ Arrived = {} /\ Readings = {}
      BY ProcFacts DEF Init, Held, Arrived, Readings
    <2> QED BY <2>2, <2>3 DEF Pool!Init, Arrived, Readings
  <1>2. ASSUME EndInv, EndInv', [Next]_vars PROVE [Pool!Next]_Pool!vars
    <2>1. IInv /\ IInv'
      BY <1>2 DEF EndInv, ReadyInv, ClaimsInv
    <2>2. CASE Cancel
      <3>1. ~failure
        BY <2>2 DEF Cancel
      <3> QED BY <2>1, <2>2, <3>1, PoolCancels
    <2>3. CASE ~Cancel
      <3>1. failure' = failure
        BY <1>2, <2>3, FailureRises
      <3>2. CASE failure
        BY <1>2, <3>1, <3>2, PoolWindsDown
      <3>3. CASE ~failure /\ QuietStep
        BY <1>2, <2>1, <3>1, <3>3, PoolQuiet
      <3>4. CASE ~failure /\ MoveStep
        BY <1>2, <3>4, PoolMove
      <3>5. CASE TaskOnlyStep
        <4>1. UNCHANGED <<remaining, status, pos, at>>
          BY <3>5 DEF TaskOnlyStep, SpawnTask, AttemptFails, TaskSucceeds, TaskFails, slotVars,
             readerVars
        <4> QED BY <2>1, <3>1, <4>1, PoolStays DEF SameBlock, SameReading
      <3> QED BY <1>2, <3>2, <3>3, <3>4, <3>5, StepKinds
    <2> QED BY <2>2, <2>3
  <1> QED
    BY <1>1, <1>2, EndInductive, PTL DEF Spec, PoolKept, Pool!Spec

=============================================================================
