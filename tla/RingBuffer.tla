----------------------------- MODULE RingBuffer -----------------------------
(***************************************************************************)
(* ring_buffer.rs: the last size values put, kept in a Vec that grows to   *)
(* size and is then overwritten in place, with the extremes of everything  *)
(* ever put.  stats.rs keeps three of them.  hist is a history variable:   *)
(* the values put so far, which the program does not keep.                 *)
(***************************************************************************)
EXTENDS Integers, Sequences, FiniteSetsExt

CONSTANTS
  size,     \* capacity of the buffer (RING_BUFFER_SIZE)
  Value,    \* the values put: counters and durations
  Nothing,  \* Rust's None
  Milli,    \* the unit of a Duration's ticks: so many are a millisecond
  MaxPuts   \* bound: values put in one behaviour

ASSUME RingBufferAssumption ==
  /\ size \in Nat \ {0}
  /\ Value \subseteq Nat
  /\ Nothing \notin Value
  /\ Milli \in Nat \ {0}
  /\ MaxPuts \in Nat

VARIABLES
  index,         \* where the last value was put, 0 before the first
  buffer,
  long_term_max,
  long_term_min,
  hist           \* history: every value put

ringVars == <<index, buffer, long_term_max, long_term_min, hist>>

RingInit ==
  /\ index = 0
  /\ buffer = <<>>
  /\ long_term_max = Nothing
  /\ long_term_min = Nothing
  /\ hist = <<>>

(* The wrap of the index before a value is stored.                         *)
Wrap(i) == IF i = size THEN 0 ELSE i

(* Mutant: every value is pushed, none is overwritten.                     *)
StoreAppend(i, v) == Append(buffer, v)

(* push while the Vec grows, overwrite after that; Rust indexes from 0.    *)
Store(i, v) ==
  IF i = Len(buffer) THEN Append(buffer, v) ELSE [buffer EXCEPT ![i + 1] = v]

(* Mutant: get_or_insert gives the new value the place of the old extreme. *)
LargerNew(old, v) == v

(* get_or_insert(v), then max and min.                                     *)
Larger(old, v)  == IF old = Nothing \/ old < v THEN v ELSE old
Smaller(old, v) == IF old = Nothing \/ old > v THEN v ELSE old

Put(v) ==
  /\ Len(hist) < MaxPuts
  /\ buffer' = Store(Wrap(index), v)
  /\ index' = Wrap(index) + 1
  /\ long_term_max' = Larger(long_term_max, v)
  /\ long_term_min' = Smaller(long_term_min, v)
  /\ hist' = Append(hist, v)

RingNext == \E v \in Value : Put(v)

RingSpec == RingInit /\ [][RingNext]_ringVars

-----------------------------------------------------------------------------
Values(s) == {s[i] : i \in DOMAIN s}
OrDefault(x) == IF x = Nothing THEN 0 ELSE x

(* iter().sum()                                                            *)
Total(s) ==
  LET sum[i \in 0 .. Len(s)] == IF i = 0 THEN 0 ELSE sum[i - 1] + s[i]
  IN  sum[Len(s)]

(* Mutant: the count is taken from the index, which falls back at a wrap.  *)
GetStatsByIndex ==
  [long_term_max |-> OrDefault(long_term_max),
   long_term_min |-> OrDefault(long_term_min),
   min   |-> IF buffer = <<>> THEN 0 ELSE Min(Values(buffer)),
   max   |-> IF buffer = <<>> THEN 0 ELSE Max(Values(buffer)),
   total |-> Total(buffer),
   count |-> index]

(* get_stats                                                               *)
GetStats ==
  [long_term_max |-> OrDefault(long_term_max),
   long_term_min |-> OrDefault(long_term_min),
   min   |-> IF buffer = <<>> THEN 0 ELSE Min(Values(buffer)),
   max   |-> IF buffer = <<>> THEN 0 ELSE Max(Values(buffer)),
   total |-> Total(buffer),
   count |-> Len(buffer)]

(* to_object: each number in whole units (1 for a counter, Milli ticks for *)
(* a Duration), and their quotient, a fraction, as the average.            *)
ToObject(unit) ==
  [long_term_max |-> GetStats.long_term_max \div unit,
   long_term_min |-> GetStats.long_term_min \div unit,
   min     |-> GetStats.min \div unit,
   max     |-> GetStats.max \div unit,
   total   |-> GetStats.total \div unit,
   count   |-> GetStats.count,
   average |-> IF GetStats.count > 0
               THEN [num |-> GetStats.total \div unit, den |-> GetStats.count]
               ELSE [num |-> 0, den |-> 1]]

-----------------------------------------------------------------------------
(* Type correctness: the Vec never grows past its capacity and the index   *)
(* never points past the Vec.                                              *)
RingTypeOK ==
  /\ index \in 0 .. Len(buffer)
  /\ buffer \in Seq(Value)
  /\ Len(buffer) <= size
  /\ long_term_max \in Value \cup {Nothing}
  /\ long_term_min \in Value \cup {Nothing}
  /\ hist \in Seq(Value)

(* Where the value put k puts before the last one is.                      *)
Slot(k) == IF k < index THEN index - k ELSE index - k + size

(* Through any number of wraps, put never loses or keeps a value it should *)
(* not: the buffer holds exactly the last size values put, newest at       *)
(* index.                                                                  *)
HoldsLastValues ==
  /\ Len(buffer) = IF Len(hist) < size THEN Len(hist) ELSE size
  /\ \A k \in 0 .. Len(buffer) - 1 : buffer[Slot(k)] = hist[Len(hist) - k]

(* The long-term extremes are those of every value ever put, also the ones *)
(* overwritten long ago.                                                   *)
ExtremesOfAll ==
  hist # <<>> =>
    /\ \A i \in DOMAIN hist : long_term_min <= hist[i] /\ hist[i] <= long_term_max
    /\ long_term_min \in Values(hist)
    /\ long_term_max \in Values(hist)

(* What get_stats reports is what the last size values say (the whole      *)
(* result of the statistics, against the definition over the history), and *)
(* the average that the user sees lies between the extremes that he sees,  *)
(* up to the part of a millisecond that each Duration loses on the way.    *)
StatsOfWindow ==
  LET window == SubSeq(hist, Len(hist) - Len(buffer) + 1, Len(hist))
  IN  /\ GetStats.count = Len(window)
      /\ GetStats.total = Total(window)
      /\ window # <<>> =>
           /\ \A i \in DOMAIN window :
                GetStats.min <= window[i] /\ window[i] <= GetStats.max
           /\ {GetStats.min, GetStats.max} \subseteq Values(window)
           /\ GetStats.long_term_min <= GetStats.min
           /\ GetStats.max <= GetStats.long_term_max
      /\ \A unit \in {1, Milli} :
           LET obj == ToObject(unit)
           IN  /\ obj.average.num >= obj.min * obj.average.den
               /\ obj.average.num < (obj.max + 1) * obj.average.den
               /\ unit = 1 => obj.average.num <= obj.max * obj.average.den
=============================================================================
