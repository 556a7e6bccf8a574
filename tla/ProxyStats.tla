------------------------------ MODULE ProxyStats ------------------------------
(***************************************************************************)
(* The accounting table of native/privacy-proxy (stats.rs), shared by the  *)
(* worker threads and the thread that publishes it.                        *)
(*                                                                         *)
(* A flow asks once for the slot of its (hostname, action) pair, under a   *)
(* mutex it may have to take twice; from then on everything it counts is a *)
(* relaxed atomic. Named rows grow up from slot 0, `other` rows down from  *)
(* the last one. The publisher reads the rows one by one, under the same   *)
(* mutex but not at one instant, and replaces the file by a rename.        *)
(*                                                                         *)
(* A flow is a process here. Those of one worker take turns in the code,   *)
(* so this allows every interleaving of the threads and some more. Bytes   *)
(* in and out are treated alike and counted together.                      *)
(***************************************************************************)
EXTENDS FiniteSets, Integers

CONSTANTS Flows,          \* the flows of a run, each decided once
          Hosts,          \* hostnames flows have, "-" for none included
          OtherHost,      \* the literal `other`, which is a valid hostname too
          Labels,         \* actions: direct, block and the exits
          ServiceMax,     \* SERVICE_MAX = 512
          OverflowSlots,  \* OVERFLOW_SLOTS = MAX_EXITS + 2
          NoSlot,         \* None
          MaxBytes        \* bound: no more is counted once a slot has this many bytes

ASSUME StatsAssumption ==
    /\ IsFiniteSet(Flows)
    /\ ServiceMax \in Nat \ {0}
    /\ OverflowSlots \in Nat \ {0}
    /\ NoSlot \notin Nat
    /\ MaxBytes \in Nat

Slots == 0..(ServiceMax - 1)
NamedMax == ServiceMax - 1

VARIABLES index,     \* the mutex-guarded Index: entries, named, overflow
          counter,   \* the atomics of each slot
          active,    \* gauge of open flows
          total,     \* flows ever started
          flow,      \* where each flow stands
          draft,     \* the publisher's scratch text
          file       \* what the stats file holds

vars == <<index, counter, active, total, flow, draft, file>>

Row == [host : Hosts \cup {OtherHost}, label : Labels, slot : Slots]
Counter == [flows : Nat, bytes : Nat]
Line == [host : Hosts \cup {OtherHost}, label : Labels, count : Counter]

FlowState == [pc : {"new", "named", "fold", "start", "counted", "open", "ending", "done"},
              host  : Hosts,
              label : Labels,
              slot  : Slots \cup {NoSlot},
              seen  : Nat]

TypeOK ==
    /\ index \in [entries : SUBSET Row, named : Nat, overflow : Nat]
    /\ counter \in [Slots -> Counter]
    /\ active \in Nat
    /\ total \in Nat
    /\ flow \in [Flows -> FlowState]
    /\ draft \in [pc : {"idle", "head", "rows", "write"}, total : Nat,
                  unread : SUBSET Row, lines : SUBSET Line]
    /\ file \in [total : Nat, lines : SUBSET Line]

Init ==
    /\ index = [entries |-> {}, named |-> 0, overflow |-> 0]
    /\ counter = [s \in Slots |-> [flows |-> 0, bytes |-> 0]]
    /\ active = 0
    /\ total = 0
    /\ flow \in [Flows -> [pc : {"new"}, host : Hosts, label : Labels, slot : {NoSlot},
                           seen : {0}]]
    /\ draft = [pc |-> "idle", total |-> 0, unread |-> {}, lines |-> {}]
    /\ file = [total |-> 0, lines |-> {}]

-----------------------------------------------------------------------------
(* slot_for *)

\* render holds the mutex over its whole pass through the rows.
Unlocked == draft.pc # "rows"

\* Mutant: keyed by hostname alone.
Matches_ByHost(h, l) == {r \in index.entries : r.host = h}
Matches(h, l) == {r \in index.entries : r.host = h /\ r.label = l}

\* Mutant: a region does not see the other one grow.
Full_Meet(overflow) ==
    IF overflow THEN index.overflow >= OverflowSlots ELSE index.named >= NamedMax
Full(overflow) ==
    \/ index.named + index.overflow >= ServiceMax
    \/ IF overflow THEN index.overflow >= OverflowSlots ELSE index.named >= NamedMax

\* Mutant: `other` rows grow down from the slot below the last.
NextSlot_Below(overflow) ==
    IF overflow THEN ServiceMax - 2 - index.overflow ELSE index.named
NextSlot(overflow) ==
    IF overflow THEN ServiceMax - 1 - index.overflow ELSE index.named

Goes(f, r) == flow' = [flow EXCEPT ![f] = r]
Take(f, s) == Goes(f, [flow[f] EXCEPT !.slot = s, !.pc = "start"])

\* lookup_or_insert, the two ways it answers: the row there is, or a new one.
LookupOrInsert(f, h, overflow) ==
    LET l == flow[f].label
        s == NextSlot(overflow)
    IN  \/ \E r \in Matches(h, l) : Take(f, r.slot) /\ UNCHANGED index
        \/ /\ Matches(h, l) = {}
           /\ ~Full(overflow)
           /\ Take(f, s)
           /\ index' = [entries  |-> index.entries \cup {[host |-> h, label |-> l, slot |-> s]},
                        named    |-> IF overflow THEN index.named ELSE index.named + 1,
                        overflow |-> IF overflow THEN index.overflow + 1 ELSE index.overflow]

\* ... and None.
NoRoom(f, h, overflow) ==
    /\ Matches(h, flow[f].label) = {}
    /\ Full(overflow)
    /\ UNCHANGED index

\* Worker::decide has a verdict and calls slot_for.
Decide(f) ==
    /\ flow[f].pc = "new"
    /\ flow' = [flow EXCEPT ![f].pc = "named"]
    /\ UNCHANGED <<index, counter, active, total, draft, file>>

\* slot_for, the mutex taken once.
FindNamed(f) ==
    /\ flow[f].pc = "named"
    /\ Unlocked
    /\ \/ LookupOrInsert(f, flow[f].host, FALSE)
       \/ /\ NoRoom(f, flow[f].host, FALSE)
          /\ flow' = [flow EXCEPT ![f].pc = "fold"]
    /\ UNCHANGED <<counter, active, total, draft, file>>

\* Mutant: one past the last slot.
FindFold_Past(f) ==
    /\ flow[f].pc = "fold"
    /\ Unlocked
    /\ \/ LookupOrInsert(f, OtherHost, TRUE)
       \/ NoRoom(f, OtherHost, TRUE) /\ Take(f, ServiceMax)
    /\ UNCHANGED <<counter, active, total, draft, file>>

\* slot_for, the mutex taken again: the `other` row of the action, or else the
\* last slot.
FindFold(f) ==
    /\ flow[f].pc = "fold"
    /\ Unlocked
    /\ \/ LookupOrInsert(f, OtherHost, TRUE)
       \/ NoRoom(f, OtherHost, TRUE) /\ Take(f, ServiceMax - 1)
    /\ UNCHANGED <<counter, active, total, draft, file>>

-----------------------------------------------------------------------------
(* The lock-free part *)

\* flow_started, first half. (No property below relates two of the locations, so
\* the order in which relaxed operations become visible does not matter.)
CountOnRow(f) ==
    /\ flow[f].pc = "start"
    /\ flow' = [flow EXCEPT ![f].pc = "counted"]
    /\ counter' = [counter EXCEPT ![flow[f].slot].flows = @ + 1]
    /\ UNCHANGED <<index, active, total, draft, file>>

\* flow_started, second half: the gauge and the total.
CountFlow(f) ==
    /\ flow[f].pc = "counted"
    /\ flow' = [flow EXCEPT ![f].pc = "open"]
    /\ active' = active + 1
    /\ total' = total + 1
    /\ UNCHANGED <<index, counter, draft, file>>

\* add_in, add_out.
AddBytes(f) ==
    /\ flow[f].pc = "open"
    /\ \A s \in Slots : counter[s].bytes < MaxBytes
    /\ counter' = [counter EXCEPT ![flow[f].slot].bytes = @ + 1]
    /\ UNCHANGED <<index, active, total, flow, draft, file>>

\* flow_ended: the load before its loop.
EndLoad(f) ==
    /\ flow[f].pc = "open"
    /\ Goes(f, [flow[f] EXCEPT !.pc = "ending", !.seen = active])
    /\ UNCHANGED <<index, counter, active, total, draft, file>>

\* Mutant: a plain store of the value loaded, less one.
EndSwap_Store(f) ==
    /\ flow[f].pc = "ending"
    /\ active' = IF flow[f].seen > 0 THEN flow[f].seen - 1 ELSE 0
    /\ flow' = [flow EXCEPT ![f].pc = "done"]
    /\ UNCHANGED <<index, counter, total, draft, file>>

\* flow_ended: one compare_exchange_weak, which may fail for no reason.
EndSwap(f) ==
    /\ flow[f].pc = "ending"
    /\ \/ /\ active = flow[f].seen
          /\ active' = IF active > 0 THEN active - 1 ELSE 0
          /\ Goes(f, [flow[f] EXCEPT !.pc = "done", !.seen = 0])
       \/ /\ active' = active
          /\ flow' = [flow EXCEPT ![f].seen = active]
    /\ UNCHANGED <<index, counter, total, draft, file>>

-----------------------------------------------------------------------------
(* The publisher *)

\* render starts with the FLOWS line.
RenderHead ==
    /\ draft.pc = "idle"
    /\ draft' = [pc |-> "head", total |-> total, unread |-> {}, lines |-> {}]
    /\ UNCHANGED <<index, counter, active, total, flow, file>>

\* render takes the mutex.
RenderLock ==
    /\ draft.pc = "head"
    /\ draft' = [draft EXCEPT !.pc = "rows", !.unread = index.entries]
    /\ UNCHANGED <<index, counter, active, total, flow, file>>

\* render reads the counters of one row and leaves out a row that has nothing.
RenderRow(r) ==
    /\ draft.pc = "rows"
    /\ r \in draft.unread
    /\ LET c == counter[r.slot] IN
       draft' = [draft EXCEPT
                   !.unread = @ \ {r},
                   !.lines = IF c = [flows |-> 0, bytes |-> 0] THEN @
                             ELSE @ \cup {[host |-> r.host, label |-> r.label, count |-> c]}]
    /\ UNCHANGED <<index, counter, active, total, flow, file>>

\* render drops the mutex.
RenderEnd ==
    /\ draft.pc = "rows"
    /\ draft.unread = {}
    /\ draft' = [draft EXCEPT !.pc = "write"]
    /\ UNCHANGED <<index, counter, active, total, flow, file>>

\* Mutant: counters are reset when they have been read.
Publish_Resets ==
    /\ draft.pc = "write"
    /\ draft' = [pc |-> "idle", total |-> 0, unread |-> {}, lines |-> {}]
    /\ file' = [total |-> draft.total, lines |-> draft.lines]
    /\ counter' = [s \in Slots |-> [flows |-> 0, bytes |-> 0]]
    /\ UNCHANGED <<index, active, total, flow>>

\* write_atomic renames the finished text over the file, or fails before it and
\* leaves the file alone.
Publish ==
    /\ draft.pc = "write"
    /\ draft' = [pc |-> "idle", total |-> 0, unread |-> {}, lines |-> {}]
    /\ file' \in {file, [total |-> draft.total, lines |-> draft.lines]}
    /\ UNCHANGED <<index, counter, active, total, flow>>

-----------------------------------------------------------------------------

FlowStep(f) == \/ Decide(f)
               \/ FindNamed(f)
               \/ FindFold(f)
               \/ CountOnRow(f)
               \/ CountFlow(f)
               \/ AddBytes(f)
               \/ EndLoad(f)
               \/ EndSwap(f)

Publisher == \/ RenderHead
             \/ RenderLock
             \/ \E r \in draft.unread : RenderRow(r)
             \/ RenderEnd
             \/ Publish

Next == (\E f \in Flows : FlowStep(f)) \/ Publisher

Spec == Init /\ [][Next]_vars

-----------------------------------------------------------------------------
(* Properties *)

\* No two rows share a slot or a key, though the regions grow towards each other
\* and another flow may insert between the two lookups of slot_for.
RowsDistinct ==
    \A q, r \in index.entries :
        q.slot = r.slot \/ (q.host = r.host /\ q.label = r.label) => q = r

\* stats.rs, "what makes the fold a fold rather than a loss": a flow that has a
\* slot has one some row reports, in the last resort too.
FoldNotLoss ==
    \A f \in Flows : flow[f].slot # NoSlot => \E r \in index.entries : r.slot = flow[f].slot

\* A flow is counted under another action than its own only when no slot is left
\* for an `other` row of its action.
MislabelledOnlyWhenFull ==
    \A f \in Flows : \A r \in index.entries :
        flow[f].slot = r.slot /\ r.label # flow[f].label =>
            \/ index.named + index.overflow = ServiceMax
            \/ index.overflow = OverflowSlots

\* The gauge is exact whatever the ends of flows race with, and so never wraps
\* or saturates.
GaugeExact ==
    active = Cardinality({f \in Flows : flow[f].pc \in {"open", "ending"}})

\* stats.rs, "Cumulative, never reset on read": a line once published stays, and
\* its counters never go back, which is what makes differencing samples sound.
PublishedNeverGoesBack ==
    [][ /\ file'.total >= file.total
        /\ \A p \in file.lines : \E q \in file'.lines :
              /\ q.host = p.host /\ q.label = p.label
              /\ q.count.flows >= p.count.flows
              /\ q.count.bytes >= p.count.bytes ]_file

=============================================================================
