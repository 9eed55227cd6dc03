--------------------------- MODULE TelemetryBuffer ---------------------------
(***************************************************************************)
(* The collection functions of telemetry/collection.go on the contents of   *)
(* the buffer: what each stores under a key, and the count of items that    *)
(* bounds the buffer.  Each runs under bufferMu and so is one step.         *)
(***************************************************************************)
EXTENDS Naturals, FiniteSets, FiniteSetsExt

CONSTANTS
    Keys,           \* metric keys
    Values,         \* subkeys of nested maps and members of counting sets
    MaxBufferItems  \* maxBufferItems

VARIABLES
    buffer,          \* [Keys -> entry]
    bufferItemCount

vars == <<buffer, bufferItemCount>>

\* What a key maps to: nothing, an opaque value, an integer, a nested map with
\* subkeys, a list with len elements or a counting set with members.
NoEntry == [kind |-> "none", len |-> 0, subs |-> {}]
Entry(kind) == [NoEntry EXCEPT !.kind = kind]
Entries ==
    [kind : {"none", "value", "int", "nested", "list", "set"},
     len : 0 .. MaxBufferItems, subs : SUBSET Values]

Init == buffer = [k \in Keys |-> NoEntry] /\ bufferItemCount = 0

Full == bufferItemCount >= MaxBufferItems
Has(k) == buffer[k].kind # "none"
Put(k, entry, more) ==
    /\ buffer' = [buffer EXCEPT ![k] = entry]
    /\ bufferItemCount' = bufferItemCount + more

\* Overwrites whatever is there; a new key counts.
Set(k, kind) ==
    \/ Has(k) /\ Put(k, Entry(kind), 0)
    \/ ~Has(k) /\ ~Full /\ Put(k, Entry(kind), 1)

\* Faulty variant: a new subkey of an existing map is not counted.
SetNested_Uncounted(k, sub) ==
    \/ ~Has(k) /\ ~Full /\ Put(k, [Entry("nested") EXCEPT !.subs = {sub}], 1)
    \/ /\ buffer[k].kind = "nested"
       /\ Put(k, [buffer[k] EXCEPT !.subs = @ \cup {sub}], 0)

\* A new subkey counts, an old one is overwritten.
SetNested(k, sub) ==
    \/ ~Has(k) /\ ~Full /\ Put(k, [Entry("nested") EXCEPT !.subs = {sub}], 1)
    \/ /\ buffer[k].kind = "nested"
       /\ sub \in buffer[k].subs \/ ~Full
       /\ Put(k, [buffer[k] EXCEPT !.subs = @ \cup {sub}],
              IF sub \in buffer[k].subs THEN 0 ELSE 1)

\* Every element counts.
Append(k) ==
    /\ ~Full
    /\ \/ ~Has(k) /\ Put(k, [Entry("list") EXCEPT !.len = 1], 1)
       \/ buffer[k].kind = "list" /\ Put(k, [buffer[k] EXCEPT !.len = @ + 1], 1)

\* The set counts when it is created; members added to it later do not.
AppendUnique(k, value) ==
    \/ ~Has(k) /\ ~Full /\ Put(k, [Entry("set") EXCEPT !.subs = {value}], 1)
    \/ buffer[k].kind = "set" /\ Put(k, [buffer[k] EXCEPT !.subs = @ \cup {value}], 0)

\* Add and Increment.
AtomicAdd(k) ==
    \/ ~Has(k) /\ ~Full /\ Put(k, Entry("int"), 1)
    \/ buffer[k].kind = "int" /\ Put(k, buffer[k], 0)

\* Reset, and emit when it takes the payload.
ResetBuffer == buffer' = [k \in Keys |-> NoEntry] /\ bufferItemCount' = 0

Next ==
    \/ \E k \in Keys : Append(k) \/ AtomicAdd(k) \/ \E kind \in {"value", "int"} : Set(k, kind)
    \/ \E k \in Keys, v \in Values : SetNested(k, v) \/ AppendUnique(k, v)
    \/ ResetBuffer

Spec == Init /\ [][Next]_vars

---------------------------------------------------------------------------

\* The items an entry holds, and how many of them the code counts.
Items(entry) ==
    CASE entry.kind = "none" -> 0
      [] entry.kind = "list" -> entry.len
      [] entry.kind \in {"nested", "set"} -> Cardinality(entry.subs)
      [] OTHER -> 1
Counted(entry) == IF entry.kind = "set" THEN 1 ELSE Items(entry)
Total(size(_)) == MapThenSumSet(LAMBDA k : size(buffer[k]), Keys)

\* bufferItemCount never falls behind what is in the buffer, a counting set
\* taken for one item: the five functions account for their items alike.
CountCovers == Total(Counted) <= bufferItemCount

=============================================================================
