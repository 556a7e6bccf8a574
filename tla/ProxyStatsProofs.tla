-------------------------- MODULE ProxyStatsProofs --------------------------
(***************************************************************************)
(* Proofs about ProxyStats for any number of flows, hostnames and actions, *)
(* and any size of the table and of its overflow region.                   *)
(***************************************************************************)
EXTENDS ProxyStats, FiniteSetTheorems, TLAPS

\* A slot is in use when one of the two regions has grown over it.
InUse(ix, s) == s < ix.named \/ s >= ServiceMax - ix.overflow

\* The table is full for the actions that have no `other` row yet.
Exhausted == \/ index.named + index.overflow = ServiceMax
             \/ index.overflow = OverflowSlots

\* The two regions cover exactly the slots rows have, and stay apart.
IndexOK ==
    /\ index \in [entries : SUBSET Row, named : Nat, overflow : Nat]
    /\ index.named <= NamedMax
    /\ index.overflow <= OverflowSlots
    /\ index.named + index.overflow <= ServiceMax
    /\ \A s \in Slots : InUse(index, s) <=> \E r \in index.entries : r.slot = s
    /\ RowsDistinct

\* A flow has a slot once it is past slot_for: one in use, and reported by a row
\* of its own action unless no row could be made for it.
FlowOK(f) ==
    /\ flow[f] \in FlowState
    /\ flow[f].slot = NoSlot <=> flow[f].pc \in {"new", "named", "fold"}
    /\ flow[f].slot # NoSlot =>
          /\ InUse(index, flow[f].slot)
          /\ Exhausted \/ \E r \in index.entries :
                             r.slot = flow[f].slot /\ r.label = flow[f].label

IInv ==
    /\ TypeOK
    /\ IndexOK
    /\ \A f \in Flows : FlowOK(f)

LEMMA ConstantFacts ==
    /\ ServiceMax \in Nat /\ ServiceMax > 0
    /\ OverflowSlots \in Nat /\ OverflowSlots > 0
    /\ NamedMax \in Nat /\ NamedMax = ServiceMax - 1
    /\ Slots \subseteq Nat
    /\ NoSlot \notin Slots
  BY StatsAssumption DEF NamedMax, Slots

\* Inserting a row where a region grows next keeps the regions exact.
LEMMA InsertPreserves ==
  ASSUME NEW h \in Hosts \cup {OtherHost}, NEW l \in Labels, NEW overflow \in BOOLEAN, IndexOK,
         Matches(h, l) = {}, ~Full(overflow),
         index' = [entries  |-> index.entries \cup
                                   {[host |-> h, label |-> l, slot |-> NextSlot(overflow)]},
                   named    |-> IF overflow THEN index.named ELSE index.named + 1,
                   overflow |-> IF overflow THEN index.overflow + 1 ELSE index.overflow]
  PROVE  /\ IndexOK'
         /\ NextSlot(overflow) \in Slots
         /\ InUse(index', NextSlot(overflow))
         /\ \A s \in Slots : InUse(index, s) => InUse(index', s)
         /\ Exhausted => Exhausted'
  <1> DEFINE s0 == NextSlot(overflow)
             row == [host |-> h, label |-> l, slot |-> s0]
  <1>1. /\ index.named \in Nat /\ index.overflow \in Nat
        /\ index.named <= NamedMax /\ index.overflow <= OverflowSlots
        /\ index.named + index.overflow <= ServiceMax
    BY DEF IndexOK
  <1>2. /\ index.named + index.overflow < ServiceMax
        /\ overflow => index.overflow < OverflowSlots
        /\ ~overflow => index.named < NamedMax
    BY <1>1, ConstantFacts DEF Full
  <1>3. s0 \in Slots /\ ~InUse(index, s0)
    BY <1>1, <1>2, ConstantFacts DEF NextSlot, Slots, InUse
  <1>4. row \in Row
    BY <1>3 DEF Row
  <1>5. index' \in [entries : SUBSET Row, named : Nat, overflow : Nat]
    BY <1>1, <1>4 DEF IndexOK
  <1>6. /\ index'.named <= NamedMax /\ index'.overflow <= OverflowSlots
        /\ index'.named + index'.overflow <= ServiceMax
    BY <1>1, <1>2, ConstantFacts
  <1>7. \A s \in Slots : InUse(index', s) <=> InUse(index, s) \/ s = s0
    <2>1. CASE overflow
      <3>1. index'.named = index.named /\ index'.overflow = index.overflow + 1
        BY <2>1
      <3>2. s0 = ServiceMax - 1 - index.overflow
        BY <2>1 DEF NextSlot
      <3> QED
        BY <3>1, <3>2, <1>1, ConstantFacts DEF InUse
    <2>2. CASE ~overflow
      <3>1. index'.named = index.named + 1 /\ index'.overflow = index.overflow
        BY <2>2
      <3>2. s0 = index.named
        BY <2>2 DEF NextSlot
      <3> QED
        BY <3>1, <3>2, <1>1, ConstantFacts DEF InUse
    <2> QED
      BY <2>1, <2>2
  <1>8. \A s \in Slots : InUse(index', s) <=> \E r \in index'.entries : r.slot = s
    <2>1. \A s : (\E r \in index'.entries : r.slot = s)
                   <=> (\E r \in index.entries : r.slot = s) \/ s = s0
      <3>1. index'.entries = index.entries \cup {row} /\ row.slot = s0
        OBVIOUS
      <3> HIDE DEF row, s0
      <3> QED
        BY <3>1
    <2> QED
      BY <2>1, <1>7 DEF IndexOK
  <1>9. RowsDistinct'
    <2>1. \A r \in index.entries : r.slot # s0 /\ ~(r.host = h /\ r.label = l)
      BY <1>3 DEF IndexOK, Matches
    <2> QED
      BY <2>1 DEF RowsDistinct, IndexOK
  <1>10. IndexOK'
    BY <1>5, <1>6, <1>8, <1>9 DEF IndexOK
  <1>11. Exhausted => Exhausted'
    BY <1>1, <1>2, ConstantFacts DEF Exhausted
  <1> QED
    BY <1>3, <1>7, <1>10, <1>11

\* A flow that keeps its slot stays in order while the table grows.
LEMMA FlowOKStays ==
  ASSUME NEW f, FlowOK(f), flow'[f] = flow[f],
         index.entries \subseteq index'.entries,
         \A s \in Slots : InUse(index, s) => InUse(index', s),
         Exhausted => Exhausted'
  PROVE  FlowOK(f)'
  BY DEF FlowOK, FlowState

\* The index is not touched: what is left to show is about the flow that moved.
LEMMA OneFlowMoves ==
  ASSUME IInv, NEW f \in Flows, NEW g \in FlowState, flow' = [flow EXCEPT ![f] = g],
         UNCHANGED index, FlowOK(f)'
  PROVE  IndexOK' /\ flow' \in [Flows -> FlowState] /\ \A e \in Flows : FlowOK(e)'
  <1>1. IndexOK'
    BY DEF IInv, IndexOK, RowsDistinct, InUse
  <1>2. flow' \in [Flows -> FlowState]
    BY DEF IInv, TypeOK
  <1>3. ASSUME NEW e \in Flows, e # f
        PROVE  FlowOK(e)'
    <2>1. flow'[e] = flow[e]
      BY <1>3 DEF IInv, TypeOK
    <2>2. Exhausted => Exhausted'
      BY DEF Exhausted
    <2> QED
      BY <2>1, <2>2, FlowOKStays DEF IInv
  <1> QED
    BY <1>1, <1>2, <1>3

\* lookup_or_insert that answers with a slot, in either region.
LEMMA LookupPreserves ==
  ASSUME IInv, NEW f \in Flows, NEW h \in Hosts \cup {OtherHost}, NEW overflow \in BOOLEAN,
         flow[f].pc \in {"named", "fold"}, LookupOrInsert(f, h, overflow)
  PROVE  IndexOK' /\ flow' \in [Flows -> FlowState] /\ \A e \in Flows : FlowOK(e)'
  <1> DEFINE l == flow[f].label
             g(s) == [flow[f] EXCEPT !.slot = s, !.pc = "start"]
  <1>1. flow[f] \in FlowState /\ l \in Labels
    BY DEF IInv, TypeOK, FlowState
  <1>2. ASSUME NEW s \in Slots
        PROVE  g(s) \in FlowState
    BY <1>1 DEF FlowState
  <1>3. ASSUME NEW s, Take(f, s)
        PROVE  flow' = [flow EXCEPT ![f] = g(s)] /\ flow'[f] = g(s)
    BY <1>3 DEF Take, Goes, IInv, TypeOK
  <1>4. ASSUME NEW r \in Matches(h, l), Take(f, r.slot), UNCHANGED index
        PROVE  IndexOK' /\ flow' \in [Flows -> FlowState] /\ \A e \in Flows : FlowOK(e)'
    <2>1. r \in index.entries /\ r.label = l /\ r.slot \in Slots /\ InUse(index, r.slot)
      BY <1>4 DEF Matches, IInv, IndexOK, Row
    <2>2. g(r.slot) \in FlowState
      BY <2>1, <1>2
    <2>3. flow' = [flow EXCEPT ![f] = g(r.slot)] /\ flow'[f] = g(r.slot)
      BY <1>4, <1>3
    <2>4. FlowOK(f)'
      BY <2>1, <2>2, <2>3, <1>4, <1>1, ConstantFacts DEF FlowOK, FlowState, InUse
    <2> QED
      BY <2>2, <2>3, <2>4, <1>4, OneFlowMoves
  <1>5. ASSUME Matches(h, l) = {}, ~Full(overflow), Take(f, NextSlot(overflow)),
               index' = [entries  |-> index.entries \cup
                                         {[host |-> h, label |-> l, slot |-> NextSlot(overflow)]},
                         named    |-> IF overflow THEN index.named ELSE index.named + 1,
                         overflow |-> IF overflow THEN index.overflow + 1 ELSE index.overflow]
        PROVE  IndexOK' /\ flow' \in [Flows -> FlowState] /\ \A e \in Flows : FlowOK(e)'
    <2> DEFINE s0 == NextSlot(overflow)
    <2>1. /\ IndexOK'
          /\ s0 \in Slots
          /\ InUse(index', s0)
          /\ \A s \in Slots : InUse(index, s) => InUse(index', s)
          /\ Exhausted => Exhausted'
      BY <1>5, <1>1, InsertPreserves DEF IInv
    <2>2. g(s0) \in FlowState
      BY <2>1, <1>2
    <2>3. flow' = [flow EXCEPT ![f] = g(s0)] /\ flow'[f] = g(s0)
      BY <1>5, <1>3
    <2>4. \E r \in index'.entries : r.slot = s0 /\ r.label = l
      <3>1. [host |-> h, label |-> l, slot |-> s0] \in index'.entries
        BY <1>5
      <3> QED
        BY <3>1
    <2>5. FlowOK(f)'
      BY <2>1, <2>2, <2>3, <2>4, <1>1, ConstantFacts DEF FlowOK, FlowState
    <2>6. ASSUME NEW e \in Flows, e # f
          PROVE  FlowOK(e)'
      <3>1. flow'[e] = flow[e]
        BY <2>3, <2>6 DEF IInv, TypeOK
      <3>2. index.entries \subseteq index'.entries
        BY <1>5
      <3> QED
        BY <3>1, <3>2, <2>1, FlowOKStays DEF IInv
    <2>7. flow' \in [Flows -> FlowState]
      BY <2>2, <2>3 DEF IInv, TypeOK
    <2> QED
      BY <2>1, <2>5, <2>6, <2>7
  <1> QED
    BY <1>4, <1>5 DEF LookupOrInsert

LEMMA InitIInv == Init => IInv
  <1> SUFFICES ASSUME Init PROVE IInv
    OBVIOUS
  <1>1. flow \in [Flows -> FlowState]
    BY DEF Init, FlowState
  <1>2. counter \in [Slots -> Counter]
    BY DEF Init, Counter
  <1>3. TypeOK
    BY <1>1, <1>2 DEF Init, TypeOK, Row, Line
  <1>4. IndexOK
    BY ConstantFacts DEF Init, IndexOK, RowsDistinct, InUse, Slots
  <1>5. ASSUME NEW f \in Flows
        PROVE  FlowOK(f)
    BY <1>1 DEF FlowOK, Init
  <1> QED
    BY <1>3, <1>4, <1>5 DEF IInv

\* What the steps of one flow outside slot_for have in common: the flow moves on
\* past slot_for and keeps its slot.
LEMMA FlowMovesOn ==
  ASSUME IInv, NEW f \in Flows, NEW p \in {"counted", "open", "ending", "done"}, NEW n \in Nat,
         flow[f].pc \in {"start", "counted", "open", "ending"},
         flow' = [flow EXCEPT ![f] = [flow[f] EXCEPT !.pc = p, !.seen = n]],
         UNCHANGED index
  PROVE  IndexOK' /\ flow' \in [Flows -> FlowState] /\ \A e \in Flows : FlowOK(e)'
  <1> DEFINE g == [flow[f] EXCEPT !.pc = p, !.seen = n]
  <1>1. flow[f] \in FlowState /\ flow'[f] = g
    BY DEF IInv, TypeOK
  <1>2. g \in FlowState /\ g.pc = p /\ g.slot = flow[f].slot /\ g.label = flow[f].label
    BY <1>1 DEF FlowState
  <1>3. FlowOK(f)'
    BY <1>1, <1>2 DEF IInv, FlowOK, InUse, Exhausted
  <1> QED
    BY <1>2, <1>3, OneFlowMoves

\* A flow past slot_for counts on a slot of the table.
LEMMA HasSlot ==
  ASSUME IInv, NEW f \in Flows, flow[f].pc \in {"start", "counted", "open", "ending", "done"}
  PROVE  flow[f].slot \in Slots
  BY DEF IInv, TypeOK, FlowOK, FlowState

LEMMA FlowStepIInv ==
  ASSUME IInv, NEW f \in Flows, FlowStep(f)
  PROVE  IInv'
  <1>1. flow[f] \in FlowState /\ FlowOK(f) /\ TypeOK
    BY DEF IInv, TypeOK
  <1>2. CASE Decide(f)
    <2> DEFINE g == [flow[f] EXCEPT !.pc = "named"]
    <2>1. g \in FlowState /\ flow' = [flow EXCEPT ![f] = g] /\ flow'[f] = g
      BY <1>1, <1>2 DEF Decide, FlowState, TypeOK
    <2>2. FlowOK(f)'
      BY <1>1, <1>2, <2>1 DEF Decide, FlowOK, FlowState
    <2>3. IndexOK' /\ flow' \in [Flows -> FlowState] /\ \A e \in Flows : FlowOK(e)'
      BY <1>2, <2>1, <2>2, OneFlowMoves DEF Decide
    <2> QED
      BY <1>1, <1>2, <2>3 DEF Decide, IInv, TypeOK, IndexOK
  <1>3. CASE FindNamed(f)
    <2>1. flow[f].host \in Hosts \cup {OtherHost}
      BY <1>1 DEF FlowState
    <2>2. CASE LookupOrInsert(f, flow[f].host, FALSE)
      <3>1. IndexOK' /\ flow' \in [Flows -> FlowState] /\ \A e \in Flows : FlowOK(e)'
        BY <2>1, <2>2, <1>3, LookupPreserves DEF FindNamed
      <3> QED
        BY <1>1, <1>3, <3>1 DEF FindNamed, IInv, TypeOK, IndexOK
    <2>3. CASE NoRoom(f, flow[f].host, FALSE) /\ flow' = [flow EXCEPT ![f].pc = "fold"]
      <3> DEFINE g == [flow[f] EXCEPT !.pc = "fold"]
      <3>1. g \in FlowState /\ flow' = [flow EXCEPT ![f] = g] /\ flow'[f] = g
        BY <1>1, <2>3 DEF FlowState, TypeOK
      <3>2. FlowOK(f)'
        BY <1>1, <1>3, <2>3, <3>1 DEF FindNamed, FlowOK, FlowState, NoRoom
      <3>3. IndexOK' /\ flow' \in [Flows -> FlowState] /\ \A e \in Flows : FlowOK(e)'
        BY <2>3, <3>1, <3>2, OneFlowMoves DEF NoRoom
      <3> QED
        BY <1>1, <1>3, <3>3 DEF FindNamed, IInv, TypeOK, IndexOK
    <2> QED
      BY <1>3, <2>2, <2>3 DEF FindNamed
  <1>4. CASE FindFold(f)
    <2>1. CASE LookupOrInsert(f, OtherHost, TRUE)
      <3>1. IndexOK' /\ flow' \in [Flows -> FlowState] /\ \A e \in Flows : FlowOK(e)'
        BY <2>1, <1>4, LookupPreserves DEF FindFold
      <3> QED
        BY <1>1, <1>4, <3>1 DEF FindFold, IInv, TypeOK, IndexOK
    <2>2. CASE NoRoom(f, OtherHost, TRUE) /\ Take(f, ServiceMax - 1)
      <3> DEFINE g == [flow[f] EXCEPT !.slot = ServiceMax - 1, !.pc = "start"]
      <3>1. ServiceMax - 1 \in Slots
        BY ConstantFacts DEF Slots
      <3>2. g \in FlowState /\ flow' = [flow EXCEPT ![f] = g] /\ flow'[f] = g
        BY <1>1, <2>2, <3>1 DEF FlowState, TypeOK, Take, Goes
      <3>3. Exhausted /\ InUse(index, ServiceMax - 1)
        BY <2>2, ConstantFacts DEF NoRoom, Full, Exhausted, InUse, IInv, IndexOK
      <3>4. FlowOK(f)'
        <4>1. index' = index
          BY <2>2 DEF NoRoom
        <4>2. Exhausted' /\ InUse(index', ServiceMax - 1)
          BY <4>1, <3>3 DEF Exhausted
        <4>3. g.slot = ServiceMax - 1 /\ g.pc = "start" /\ g.slot # NoSlot
          BY <1>1, <3>1, ConstantFacts DEF FlowState
        <4> HIDE DEF g
        <4> QED
          BY <3>2, <4>2, <4>3 DEF FlowOK
      <3>5. IndexOK' /\ flow' \in [Flows -> FlowState] /\ \A e \in Flows : FlowOK(e)'
        BY <2>2, <3>2, <3>4, OneFlowMoves DEF NoRoom
      <3> QED
        BY <1>1, <1>4, <3>5 DEF FindFold, IInv, TypeOK, IndexOK
    <2> QED
      BY <1>4, <2>1, <2>2 DEF FindFold
  <1>5. CASE CountOnRow(f)
    <2>1. flow' = [flow EXCEPT ![f] = [flow[f] EXCEPT !.pc = "counted", !.seen = flow[f].seen]]
      BY <1>1, <1>5 DEF CountOnRow, TypeOK, FlowState
    <2>2. IndexOK' /\ flow' \in [Flows -> FlowState] /\ \A e \in Flows : FlowOK(e)'
      BY <1>1, <1>5, <2>1, FlowMovesOn DEF CountOnRow, FlowState
    <2>3. counter' \in [Slots -> Counter]
      BY <1>1, <1>5, HasSlot DEF CountOnRow, TypeOK, Counter
    <2> QED
      BY <1>1, <1>5, <2>2, <2>3 DEF CountOnRow, IInv, TypeOK, IndexOK
  <1>6. CASE CountFlow(f)
    <2>1. flow' = [flow EXCEPT ![f] = [flow[f] EXCEPT !.pc = "open", !.seen = flow[f].seen]]
      BY <1>1, <1>6 DEF CountFlow, TypeOK, FlowState
    <2>2. IndexOK' /\ flow' \in [Flows -> FlowState] /\ \A e \in Flows : FlowOK(e)'
      BY <1>1, <1>6, <2>1, FlowMovesOn DEF CountFlow, FlowState
    <2> QED
      BY <1>1, <1>6, <2>2 DEF CountFlow, IInv, TypeOK, IndexOK
  <1>7. CASE AddBytes(f)
    <2>1. counter' \in [Slots -> Counter]
      BY <1>1, <1>7, HasSlot DEF AddBytes, TypeOK, Counter
    <2>2. IndexOK' /\ \A e \in Flows : FlowOK(e)'
      BY <1>7 DEF AddBytes, IInv, IndexOK, FlowOK, InUse, Exhausted, RowsDistinct
    <2> QED
      BY <1>1, <1>7, <2>1, <2>2 DEF AddBytes, IInv, TypeOK
  <1>8. CASE EndLoad(f)
    <2>1. flow' = [flow EXCEPT ![f] = [flow[f] EXCEPT !.pc = "ending", !.seen = active]]
      BY <1>8 DEF EndLoad, Goes
    <2>2. IndexOK' /\ flow' \in [Flows -> FlowState] /\ \A e \in Flows : FlowOK(e)'
      BY <1>1, <1>8, <2>1, FlowMovesOn DEF EndLoad, TypeOK
    <2> QED
      BY <1>1, <1>8, <2>2 DEF EndLoad, IInv, TypeOK, IndexOK
  <1>9. CASE EndSwap(f)
    <2>1. \E p \in {"ending", "done"}, n \in Nat :
             flow' = [flow EXCEPT ![f] = [flow[f] EXCEPT !.pc = p, !.seen = n]]
      <3>1. CASE Goes(f, [flow[f] EXCEPT !.pc = "done", !.seen = 0])
        BY <3>1 DEF Goes
      <3>2. CASE flow' = [flow EXCEPT ![f].seen = active]
        <4>1. flow' = [flow EXCEPT ![f] = [flow[f] EXCEPT !.pc = "ending", !.seen = active]]
          BY <1>1, <1>9, <3>2 DEF FlowState, TypeOK, EndSwap
        <4> QED
          BY <4>1, <1>1 DEF TypeOK
      <3> QED
        BY <1>9, <3>1, <3>2 DEF EndSwap
    <2>2. IndexOK' /\ flow' \in [Flows -> FlowState] /\ \A e \in Flows : FlowOK(e)'
      BY <1>9, <2>1, FlowMovesOn DEF EndSwap
    <2>3. active' \in Nat
      BY <1>1, <1>9 DEF EndSwap, TypeOK
    <2> QED
      BY <1>1, <1>9, <2>2, <2>3 DEF EndSwap, IInv, TypeOK, IndexOK
  <1> QED
    BY <1>2, <1>3, <1>4, <1>5, <1>6, <1>7, <1>8, <1>9 DEF FlowStep

\* The publisher writes nothing but its text and the file.
LEMMA PublisherIInv ==
  ASSUME IInv, Publisher
  PROVE  IInv'
  <1>1. UNCHANGED <<index, counter, active, total, flow>>
    BY DEF Publisher, RenderHead, RenderLock, RenderRow, RenderEnd, Publish
  <1>2. IndexOK' /\ \A f \in Flows : FlowOK(f)'
    BY <1>1 DEF IInv, IndexOK, FlowOK, InUse, Exhausted, RowsDistinct
  <1>3. draft' \in [pc : {"idle", "head", "rows", "write"}, total : Nat,
                    unread : SUBSET Row, lines : SUBSET Line]
    <2>1. ASSUME NEW r \in draft.unread, RenderRow(r)
          PROVE  draft' \in [pc : {"idle", "head", "rows", "write"}, total : Nat,
                             unread : SUBSET Row, lines : SUBSET Line]
      <3>1. r \in Row
        BY DEF IInv, TypeOK
      <3>2. [host |-> r.host, label |-> r.label, count |-> counter[r.slot]] \in Line
        BY <3>1 DEF Row, Line, IInv, TypeOK
      <3> QED
        BY <2>1, <3>2 DEF RenderRow, IInv, TypeOK
    <2>2. ASSUME RenderHead \/ RenderLock \/ RenderEnd \/ Publish
          PROVE  draft' \in [pc : {"idle", "head", "rows", "write"}, total : Nat,
                             unread : SUBSET Row, lines : SUBSET Line]
      <3>1. index.entries \subseteq Row
        BY DEF IInv, IndexOK
      <3>2. CASE RenderHead
        BY <3>2 DEF RenderHead, IInv, TypeOK
      <3>3. CASE RenderLock
        BY <3>1, <3>3 DEF RenderLock, IInv, TypeOK
      <3>4. CASE RenderEnd \/ Publish
        BY <3>4 DEF RenderEnd, Publish, IInv, TypeOK
      <3> QED
        BY <2>2, <3>2, <3>3, <3>4
    <2> QED
      BY <2>1, <2>2 DEF Publisher
  <1>4. file' \in [total : Nat, lines : SUBSET Line]
    <2>1. CASE Publish
      BY <2>1 DEF Publish, IInv, TypeOK
    <2>2. CASE file' = file
      BY <2>2 DEF IInv, TypeOK
    <2> QED
      BY <2>1, <2>2 DEF Publisher, RenderHead, RenderLock, RenderRow, RenderEnd
  <1> QED
    BY <1>1, <1>2, <1>3, <1>4 DEF IInv, TypeOK

LEMMA NextIInv == IInv /\ [Next]_vars => IInv'
  <1>1. IInv /\ UNCHANGED vars => IInv'
    BY DEF vars, IInv, TypeOK, IndexOK, FlowOK, InUse, Exhausted, RowsDistinct
  <1> QED
    BY <1>1, FlowStepIInv, PublisherIInv DEF Next

LEMMA SpecIInv == Spec => []IInv
  BY InitIInv, NextIInv, PTL DEF Spec

\* Every variable keeps its type: the index stays within its two regions, and no
\* counter is ever below zero.
THEOREM StatsTypeOK == Spec => []TypeOK
  <1>1. IInv => TypeOK
    BY DEF IInv
  <1> QED
    BY <1>1, SpecIInv, PTL

\* Rows share neither slot nor key, for any table size and any interleaving of
\* the two lookups of slot_for.
THEOREM StatsRowsDistinct == Spec => []RowsDistinct
  <1>1. IInv => RowsDistinct
    BY DEF IInv, IndexOK
  <1> QED
    BY <1>1, SpecIInv, PTL

\* The slot a flow counts on is always reported by a row: the fold loses nothing,
\* not even in slot_for's last resort.
THEOREM StatsFoldNotLoss == Spec => []FoldNotLoss
  <1>1. IInv => FoldNotLoss
    BY DEF IInv, FoldNotLoss, IndexOK, FlowOK, FlowState
  <1> QED
    BY <1>1, SpecIInv, PTL

\* A flow is counted under a foreign action only once the table is full for its own.
THEOREM StatsMislabelledOnlyWhenFull == Spec => []MislabelledOnlyWhenFull
  <1>1. IInv => MislabelledOnlyWhenFull
    <2> SUFFICES ASSUME IInv, NEW f \in Flows, NEW r \in index.entries,
                        flow[f].slot = r.slot, r.label # flow[f].label
                 PROVE  Exhausted
      BY DEF MislabelledOnlyWhenFull, Exhausted
    <2>1. flow[f].slot # NoSlot
      BY ConstantFacts DEF IInv, IndexOK, Row
    <2>2. Exhausted \/ \E q \in index.entries : q.slot = flow[f].slot /\ q.label = flow[f].label
      BY <2>1 DEF IInv, FlowOK
    <2> QED
      BY <2>2 DEF IInv, IndexOK, RowsDistinct
  <1> QED
    BY <1>1, SpecIInv, PTL

-----------------------------------------------------------------------------
(* The gauge *)

Open == {f \in Flows : flow[f].pc \in {"open", "ending"}}

LEMMA OpenFinite == IsFiniteSet(Open) /\ Cardinality(Open) \in Nat
  BY StatsAssumption, FS_Subset, FS_CardinalityType DEF Open

\* Only CountFlow and a compare_exchange that succeeds change the gauge, each by
\* the one flow that they open or end.
LEMMA NextGauge == IInv /\ GaugeExact /\ [Next]_vars => GaugeExact'
  <1> SUFFICES ASSUME IInv, active = Cardinality(Open), [Next]_vars
               PROVE  active' = Cardinality(Open')
    BY DEF GaugeExact, Open
  <1>0. \A f \in Flows : flow[f] \in FlowState
    BY DEF IInv, TypeOK
  <1>1. ASSUME NEW f \in Flows, CountFlow(f)
        PROVE  active' = Cardinality(Open')
    <2>1. Open' = Open \cup {f} /\ f \notin Open
      BY <1>1, <1>0 DEF CountFlow, Open, IInv, TypeOK, FlowState
    <2> QED
      BY <1>1, <2>1, OpenFinite, FS_AddElement DEF CountFlow
  <1>2. ASSUME NEW f \in Flows, EndSwap(f)
        PROVE  active' = Cardinality(Open')
    <2>1. f \in Open
      BY <1>2 DEF EndSwap, Open
    <2>2. CASE /\ Goes(f, [flow[f] EXCEPT !.pc = "done", !.seen = 0])
               /\ active' = IF active > 0 THEN active - 1 ELSE 0
      <3>1. Open' = Open \ {f}
        BY <2>2, <1>0 DEF Open, Goes, IInv, TypeOK, FlowState
      <3>2. Cardinality(Open') = Cardinality(Open) - 1
        BY <3>1, <2>1, OpenFinite, FS_RemoveElement
      <3>3. Cardinality(Open) # 0
        BY <2>1, OpenFinite, FS_EmptySet
      <3> QED
        BY <2>2, <3>2, <3>3, OpenFinite
    <2>3. CASE flow' = [flow EXCEPT ![f].seen = active] /\ active' = active
      <3>1. Open' = Open
        BY <2>3, <1>0 DEF Open, IInv, TypeOK, FlowState
      <3> QED
        BY <2>3, <3>1
    <2> QED
      BY <1>2, <2>2, <2>3 DEF EndSwap
  <1>3. ASSUME NEW f \in Flows, FlowStep(f), ~CountFlow(f), ~EndSwap(f)
        PROVE  active' = active /\ Open' = Open
    <2>1. CASE Decide(f)
      BY <2>1, <1>0 DEF Decide, Open, IInv, TypeOK, FlowState
    <2>2. CASE FindNamed(f) \/ FindFold(f)
      <3>1. /\ active' = active
            /\ flow[f].pc \notin {"open", "ending"}
            /\ \/ \E s : Take(f, s)
               \/ flow' = [flow EXCEPT ![f].pc = "fold"]
        BY <2>2 DEF FindNamed, FindFold, LookupOrInsert
      <3>2. flow'[f].pc \notin {"open", "ending"} /\ \A e \in Flows : e # f => flow'[e] = flow[e]
        <4>1. CASE \E s : Take(f, s)
          <5>1. PICK s : flow' = [flow EXCEPT ![f] = [flow[f] EXCEPT !.slot = s, !.pc = "start"]]
            BY <4>1 DEF Take, Goes
          <5>2. [flow[f] EXCEPT !.slot = s, !.pc = "start"].pc = "start"
            BY <1>0 DEF FlowState
          <5> QED
            BY <5>1, <5>2 DEF IInv, TypeOK
        <4>2. CASE flow' = [flow EXCEPT ![f].pc = "fold"]
          BY <4>2, <1>0 DEF IInv, TypeOK, FlowState
        <4> QED
          BY <3>1, <4>1, <4>2
      <3> QED
        BY <3>1, <3>2 DEF Open
    <2>4. CASE CountOnRow(f)
      BY <2>4, <1>0 DEF CountOnRow, Open, IInv, TypeOK, FlowState
    <2>5. CASE AddBytes(f)
      BY <2>5 DEF AddBytes, Open
    <2>6. CASE EndLoad(f)
      BY <2>6, <1>0 DEF EndLoad, Goes, Open, IInv, TypeOK, FlowState
    <2> QED
      BY <1>3, <2>1, <2>2, <2>4, <2>5, <2>6 DEF FlowStep
  <1>4. ASSUME Publisher \/ UNCHANGED vars
        PROVE  active' = active /\ Open' = Open
    BY <1>4 DEF Publisher, RenderHead, RenderLock, RenderRow, RenderEnd, Publish, vars, Open
  <1> QED
    BY <1>1, <1>2, <1>3, <1>4 DEF Next

\* The gauge of active flows is exact at every moment: no end of a flow is lost
\* or counted twice, and the saturation in flow_ended never comes to bear.
THEOREM StatsGaugeExact == Spec => []GaugeExact
  <1>1. Init => GaugeExact
    <2>1. Init => Open = {}
      BY DEF Init, Open
    <2> QED
      BY <2>1, FS_EmptySet DEF GaugeExact, Open, Init
  <1> QED
    BY <1>1, NextGauge, SpecIInv, PTL DEF Spec

-----------------------------------------------------------------------------
(* The file *)

Nothing == [flows |-> 0, bytes |-> 0]

AtLeast(c, d) == c.flows >= d.flows /\ c.bytes >= d.bytes

\* A row of the table, and a line of a text, that go on where line p stands.
Backs(r, p) == r.host = p.host /\ r.label = p.label /\ AtLeast(counter[r.slot], p.count)
Continues(q, p) == q.host = p.host /\ q.label = p.label /\ AtLeast(q.count, p.count)

\* A line says something, and a row of the table says at least as much.
LineOK(p) == p.count # Nothing /\ \E r \in index.entries : Backs(r, p)

\* No published line is lost on the way to the next text: while the rows are gone
\* through, the row that backs it is still to be read or has given a line.
HistoryOK ==
    /\ file.total <= total
    /\ \A p \in file.lines \cup draft.lines : LineOK(p)
    /\ draft.pc # "idle" => file.total <= draft.total /\ draft.total <= total
    /\ draft.unread \subseteq index.entries
    /\ draft.pc \in {"rows", "write"} =>
          \A p \in file.lines : \/ \E r \in draft.unread : Backs(r, p)
                                \/ \E q \in draft.lines : Continues(q, p)
    /\ draft.pc = "write" => draft.unread = {}

\* The table only grows: rows are not taken back and counters do not shrink.
TableGrows ==
    /\ total' >= total
    /\ index.entries \subseteq index'.entries
    /\ \A s \in Slots : AtLeast(counter'[s], counter[s])

LEMMA RowsHaveCounters ==
  ASSUME IInv, NEW r \in index.entries
  PROVE  r \in Row /\ r.slot \in Slots /\ counter[r.slot] \in Counter
  BY DEF IInv, TypeOK, IndexOK, Row

LEMMA AtLeastOrder ==
  ASSUME NEW c \in Counter, NEW d \in Counter, NEW e \in Counter
  PROVE  /\ AtLeast(c, c)
         /\ AtLeast(c, d) /\ AtLeast(d, e) => AtLeast(c, e)
         /\ AtLeast(Nothing, c) => c = Nothing
  <1>1. c.flows \in Nat /\ d.flows \in Nat /\ e.flows \in Nat
        /\ c.bytes \in Nat /\ d.bytes \in Nat /\ e.bytes \in Nat
        /\ c = [flows |-> c.flows, bytes |-> c.bytes]
    BY DEF Counter
  <1> QED
    BY <1>1 DEF AtLeast, Nothing

LEMMA FlowStepGrows ==
  ASSUME IInv, NEW f \in Flows, FlowStep(f)
  PROVE  TableGrows /\ UNCHANGED <<draft, file>>
  <1>0. total \in Nat /\ index.entries \subseteq Row /\ counter \in [Slots -> Counter]
    BY DEF IInv, TypeOK, IndexOK
  <1>1. \A s \in Slots : AtLeast(counter[s], counter[s])
    BY <1>0, AtLeastOrder
  <1>2. CASE Decide(f) \/ EndLoad(f) \/ EndSwap(f) \/ CountFlow(f)
    BY <1>0, <1>1, <1>2 DEF Decide, EndLoad, EndSwap, CountFlow, TableGrows
  <1>3. CASE FindNamed(f) \/ FindFold(f)
    <2>1. UNCHANGED <<counter, total, draft, file>>
      BY <1>3 DEF FindNamed, FindFold
    <2>2. \/ UNCHANGED index
          \/ \E h \in Hosts \cup {OtherHost}, o \in BOOLEAN : LookupOrInsert(f, h, o)
      <3>1. flow[f].host \in Hosts
        BY DEF IInv, TypeOK, FlowState
      <3> QED
        BY <1>3, <3>1 DEF FindNamed, FindFold, NoRoom
    <2>3. ASSUME NEW h, NEW o, LookupOrInsert(f, h, o)
          PROVE  index.entries \subseteq index'.entries
      BY <2>3 DEF LookupOrInsert
    <2>4. index.entries \subseteq index'.entries
      BY <2>2, <2>3
    <2> QED
      BY <1>0, <1>1, <2>1, <2>4 DEF TableGrows
  <1>4. CASE CountOnRow(f) \/ AddBytes(f)
    <2>1. flow[f].slot \in Slots
      BY <1>4, HasSlot DEF CountOnRow, AddBytes
    <2>2. \A s \in Slots : AtLeast(counter'[s], counter[s])
      <3>1. CASE CountOnRow(f)
        BY <1>0, <2>1, <3>1 DEF CountOnRow, AtLeast, Counter
      <3>2. CASE AddBytes(f)
        BY <1>0, <2>1, <3>2 DEF AddBytes, AtLeast, Counter
      <3> QED
        BY <1>4, <3>1, <3>2
    <2> QED
      BY <1>0, <1>4, <2>2 DEF CountOnRow, AddBytes, TableGrows
  <1> QED
    BY <1>2, <1>3, <1>4 DEF FlowStep

LEMMA GrowsHistory ==
  ASSUME IInv, IInv', HistoryOK, TableGrows, UNCHANGED <<draft, file>>
  PROVE  HistoryOK'
  <1>1. ASSUME NEW r \in index.entries, NEW p \in Line, Backs(r, p)
        PROVE  Backs(r, p)'
    <2>1. r.slot \in Slots /\ counter[r.slot] \in Counter /\ counter'[r.slot] \in Counter
      BY RowsHaveCounters DEF IInv, TypeOK
    <2>2. AtLeast(counter'[r.slot], counter[r.slot]) /\ p.count \in Counter
      BY <2>1 DEF TableGrows, Line
    <2> QED
      BY <1>1, <2>1, <2>2, AtLeastOrder DEF Backs
  <1>2. file.lines \cup draft.lines \subseteq Line /\ index.entries \subseteq index'.entries
    BY DEF IInv, TypeOK, TableGrows
  <1>3. \A p \in file.lines \cup draft.lines : LineOK(p)'
    BY <1>1, <1>2 DEF HistoryOK, LineOK
  <1>4. file.total \in Nat /\ draft.total \in Nat /\ total \in Nat /\ total' \in Nat
        /\ total' >= total
    BY DEF IInv, TypeOK, TableGrows
  <1>5. \A p \in file.lines, r \in draft.unread : Backs(r, p) => Backs(r, p)'
    BY <1>1, <1>2 DEF HistoryOK
  <1> QED
    BY <1>2, <1>3, <1>4, <1>5 DEF HistoryOK

LEMMA RenderRowHistory ==
  ASSUME IInv, HistoryOK, NEW r \in draft.unread, RenderRow(r)
  PROVE  HistoryOK'
  <1> DEFINE c == counter[r.slot]
             line == [host |-> r.host, label |-> r.label, count |-> c]
  <1>1. /\ draft.pc = "rows" /\ draft'.pc = "rows" /\ draft'.total = draft.total
        /\ draft'.unread = draft.unread \ {r}
        /\ draft'.lines = IF c = Nothing THEN draft.lines ELSE draft.lines \cup {line}
        /\ UNCHANGED <<index, counter, total, file>>
    BY DEF RenderRow, Nothing, IInv, TypeOK
  <1>2. r \in index.entries /\ c \in Counter
    BY RowsHaveCounters DEF HistoryOK
  <1>3. ASSUME c # Nothing
        PROVE  LineOK(line)
    BY <1>2, <1>3, AtLeastOrder DEF LineOK, Backs
  <1>4. ASSUME NEW p \in file.lines, Backs(r, p)
        PROVE  c # Nothing /\ Continues(line, p)
    <2>1. p.count \in Counter /\ p.count # Nothing
      BY DEF IInv, TypeOK, Line, HistoryOK, LineOK
    <2>2. AtLeast(c, p.count)
      BY <1>4 DEF Backs
    <2> QED
      BY <1>2, <1>4, <2>1, <2>2, AtLeastOrder DEF Backs, Continues
  <1> HIDE DEF line, c
  <1>5. \A p : LineOK(p)' <=> LineOK(p)
    BY <1>1 DEF LineOK, Backs
  <1>6. \A p \in file.lines \cup draft'.lines : LineOK(p)
    BY <1>1, <1>3 DEF HistoryOK
  <1>7. \A p \in file.lines : \/ \E q \in draft'.unread : Backs(q, p)
                              \/ \E q \in draft'.lines : Continues(q, p)
    BY <1>1, <1>4 DEF HistoryOK
  <1> QED
    BY <1>1, <1>5, <1>6, <1>7 DEF HistoryOK, Backs

LEMMA PublisherHistory ==
  ASSUME IInv, HistoryOK, Publisher
  PROVE  HistoryOK'
  <1>1. CASE RenderHead
    <2>1. \A p : LineOK(p)' <=> LineOK(p)
      BY <1>1 DEF RenderHead, LineOK, Backs
    <2> QED
      BY <1>1, <2>1 DEF RenderHead, HistoryOK, IInv, TypeOK
  <1>2. CASE RenderLock
    <2>1. /\ draft'.pc = "rows" /\ draft'.total = draft.total /\ draft'.lines = draft.lines
          /\ draft'.unread = index.entries /\ draft.pc = "head"
          /\ UNCHANGED <<index, counter, total, file>>
      BY <1>2 DEF RenderLock, IInv, TypeOK
    <2>2. \A p : LineOK(p)' <=> LineOK(p)
      BY <2>1 DEF LineOK, Backs
    <2> QED
      BY <2>1, <2>2 DEF HistoryOK, LineOK, Backs
  <1>3. CASE RenderEnd
    <2>1. /\ draft'.pc = "write" /\ draft'.total = draft.total /\ draft'.lines = draft.lines
          /\ draft'.unread = {} /\ draft.unread = {} /\ draft.pc = "rows"
          /\ UNCHANGED <<index, counter, total, file>>
      BY <1>3 DEF RenderEnd, IInv, TypeOK
    <2>2. \A p : LineOK(p)' <=> LineOK(p)
      BY <2>1 DEF LineOK, Backs
    <2> QED
      BY <2>1, <2>2 DEF HistoryOK
  <1>4. CASE Publish
    <2>1. \A p : LineOK(p)' <=> LineOK(p)
      BY <1>4 DEF Publish, LineOK, Backs
    <2> QED
      BY <1>4, <2>1 DEF Publish, HistoryOK, IInv, TypeOK
  <1> QED
    BY <1>1, <1>2, <1>3, <1>4, RenderRowHistory DEF Publisher

\* stats.rs, "Cumulative, never reset on read": whatever flows and the publisher do
\* in between, a line once published stays in the file and its counters never go
\* back, though rows are read one by one and rows of nothing are left out.
THEOREM StatsPublishedNeverGoesBack == Spec => PublishedNeverGoesBack
  <1>1. Init => HistoryOK
    BY DEF Init, HistoryOK
  <1>2. IInv /\ IInv' /\ HistoryOK /\ [Next]_vars => HistoryOK'
    <2>1. UNCHANGED vars /\ HistoryOK => HistoryOK'
      BY DEF vars, HistoryOK, LineOK, Backs
    <2> QED
      BY <2>1, FlowStepGrows, GrowsHistory, PublisherHistory DEF Next
  <1>3. IInv /\ HistoryOK /\ [Next]_vars =>
           [ /\ file'.total >= file.total
             /\ \A p \in file.lines : \E q \in file'.lines :
                   /\ q.host = p.host /\ q.label = p.label
                   /\ q.count.flows >= p.count.flows
                   /\ q.count.bytes >= p.count.bytes ]_file
    <2> SUFFICES ASSUME IInv, HistoryOK, [Next]_vars, file' # file
                 PROVE  /\ file'.total >= file.total
                        /\ \A p \in file.lines : \E q \in file'.lines : Continues(q, p)
      BY DEF Continues, AtLeast
    <2>1. Publish
      <3>1. \A f \in Flows : ~FlowStep(f)
        BY FlowStepGrows
      <3> QED
        BY <3>1 DEF Next, Publisher, RenderHead, RenderLock, RenderRow, RenderEnd, vars
    <2>2. file' = [total |-> draft.total, lines |-> draft.lines] /\ draft.pc = "write"
      BY <2>1 DEF Publish
    <2> QED
      BY <2>2 DEF HistoryOK, IInv, TypeOK
  <1> QED
    BY <1>1, <1>2, <1>3, SpecIInv, PTL DEF Spec, PublishedNeverGoesBack

=============================================================================
