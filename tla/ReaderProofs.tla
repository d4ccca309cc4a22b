---------------------------- MODULE ReaderProofs ----------------------------
(***************************************************************************)
(* The buffered reader for every capacity of its buffer, every length of   *)
(* the stream, every set of counts and wherever the delimiters are.        *)
(*                                                                         *)
(* NothingLost is a statement about two sequences.  Its inductive form     *)
(* says of each cell of the window which byte of the stream it holds, and  *)
(* that what was handed out are the bytes before those.                    *)
(*                                                                         *)
(* Then the file reader and the views made over one: what a failing fread  *)
(* leaves behind, and which of the file's bytes each view gets.            *)
(***************************************************************************)
EXTENDS FileReaderViews, SequenceTheorems, WellFoundedInduction, TLAPS

\* The n bytes of the stream after the first m.
Stretch(m, n) == [k \in 1 .. n |-> m + k]

\* The indices of a window are in order.
Fits(r) == r \in Window /\ r.pos <= r.len

\* The window's unread cells hold the last bytes of the d first ones.
Shows(r, d) ==
  /\ Fits(r) /\ r.len - r.pos <= d
  /\ \A i \in r.pos .. r.len - 1 : r.data[i] = (d - r.len) + (i + 1)

Calls == [op : {"none", "byte", "array", "delimiter"}, count : 0 .. Capacity]
Results == [status : Statuses, at : 0 .. Capacity, n : 0 .. Capacity]

\* How many bytes were handed out.
Handed == delivered - Available(reader)

\* The last cursor, until it is compacted over, shows the last bytes of those.
CursorShows ==
  /\ result.n <= Handed
  /\ result.at + result.n <= reader.pos =>
       \A k \in 0 .. result.n - 1 :
         reader.data[result.at + k] = (Handed - result.n) + (k + 1)

Inv ==
  /\ delims \subseteq 1 .. StreamLen
  /\ delivered \in 0 .. StreamLen
  /\ Shows(reader, delivered)
  /\ call \in Calls /\ (call.op = "byte" => call.count = 1)
  /\ result \in Results
  /\ taken = Stretch(0, Handed)
  /\ CursorShows

(***************************************************************************)
(* Stretches of the stream.                                                *)
(***************************************************************************)
LEMMA StretchIsSeq ==
  ASSUME NEW m \in Nat, NEW n \in Nat, m + n <= StreamLen
  PROVE  /\ Stretch(m, n) \in Seq(1 .. StreamLen) /\ Len(Stretch(m, n)) = n
         /\ \A k \in 1 .. n : Stretch(m, n)[k] = m + k
<1>1. \A k \in 1 .. n : m + k \in 1 .. StreamLen
  BY StreamLenAssumption
<1>2. Stretch(m, n) \in [1 .. n -> 1 .. StreamLen]
  BY <1>1 DEF Stretch
<1>3. Stretch(m, n) \in Seq(1 .. StreamLen)
  BY <1>2, SeqDef
<1>4. Len(Stretch(m, n)) = n
  BY <1>2, <1>3, LenProperties
<1> QED BY <1>3, <1>4 DEF Stretch

LEMMA StretchesMeet ==
  ASSUME NEW m \in Nat, NEW n \in Nat, m + n <= StreamLen
  PROVE  Stretch(0, m) \o Stretch(m, n) = Stretch(0, m + n)
<1> DEFINE s == Stretch(0, m)
           t == Stretch(m, n)
           u == Stretch(0, m + n)
<1>1. /\ s \in Seq(1 .. StreamLen) /\ Len(s) = m
      /\ \A k \in 1 .. m : s[k] = k
  <2>1. 0 \in Nat /\ 0 + m <= StreamLen
    BY StreamLenAssumption
  <2>2. s \in Seq(1 .. StreamLen) /\ Len(s) = m /\ \A k \in 1 .. m : s[k] = 0 + k
    BY <2>1, StretchIsSeq
  <2> HIDE DEF s
  <2> QED BY <2>2
<1>2. /\ t \in Seq(1 .. StreamLen) /\ Len(t) = n
      /\ \A k \in 1 .. n : t[k] = m + k
  BY StretchIsSeq
<1>3. /\ u \in Seq(1 .. StreamLen) /\ Len(u) = m + n
      /\ \A k \in 1 .. m + n : u[k] = k
  <2>1. 0 \in Nat /\ m + n \in Nat /\ 0 + (m + n) <= StreamLen
    OBVIOUS
  <2>2. /\ u \in Seq(1 .. StreamLen) /\ Len(u) = m + n
        /\ \A k \in 1 .. m + n : u[k] = 0 + k
    BY <2>1, StretchIsSeq
  <2> HIDE DEF u
  <2> QED BY <2>2
<1> HIDE DEF s, t, u
<1>4. /\ s \o t \in Seq(1 .. StreamLen) /\ Len(s \o t) = m + n
      /\ \A k \in 1 .. m + n : (s \o t)[k] = IF k <= m THEN s[k] ELSE t[k - m]
  BY <1>1, <1>2, ConcatProperties, ZenonT(30)
<1>5. \A k \in 1 .. m + n : (s \o t)[k] = u[k]
  BY <1>1, <1>2, <1>3, <1>4
<1>6. s \o t = u
  BY <1>3, <1>4, <1>5, SeqEqual
<1> QED BY <1>6 DEF s, t, u

(***************************************************************************)
(* The window.                                                             *)
(***************************************************************************)
\* A window is three fields.
LEMMA FitsShape ==
  ASSUME NEW r, Fits(r)
  PROVE  /\ r = [data |-> r.data, pos |-> r.pos, len |-> r.len]
         /\ r.pos \in 0 .. Capacity /\ r.len \in 0 .. Capacity /\ r.pos <= r.len
         /\ Available(r) \in 0 .. Capacity
         /\ Available(r) = r.len - r.pos
  BY CapacityAssumption DEF Fits, Window, Available

LEMMA WindowShape ==
  ASSUME NEW r, NEW d \in Nat, Shows(r, d)
  PROVE  /\ r = [data |-> r.data, pos |-> r.pos, len |-> r.len]
         /\ r.pos \in 0 .. Capacity /\ r.len \in 0 .. Capacity /\ r.pos <= r.len
         /\ Available(r) \in 0 .. Capacity /\ Available(r) <= d
         /\ Available(r) = r.len - r.pos
  BY FitsShape DEF Shows

\* k4c_reader_rebase keeps the unread bytes and makes the room asked for.
LEMMA RebaseFits ==
  ASSUME NEW r, Fits(r), NEW req \in Nat
  PROVE  LET q == Rebase(r, req)
         IN  /\ Fits(q) /\ Available(q) = Available(r)
             /\ \A i \in 0 .. Available(r) - 1 : q.data[q.pos + i] = r.data[r.pos + i]
             /\ req <= Capacity => Capacity - q.pos >= req
<1>1. CASE Capacity - r.pos >= req
  BY <1>1 DEF Rebase
<1>2. CASE ~ (Capacity - r.pos >= req)
  <2> DEFINE q == Rebase(r, req)
             cells == [i \in 0 .. Capacity - 1 |->
                         IF i < Available(r) THEN r.data[r.pos + i] ELSE r.data[i]]
  <2>1. q = [data |-> cells, pos |-> 0, len |-> Available(r)]
    BY <1>2 DEF Rebase
  <2>2. /\ r.pos \in 0 .. Capacity /\ r.len \in 0 .. Capacity /\ Capacity \in Nat
        /\ Available(r) = r.len - r.pos /\ Available(r) \in 0 .. Capacity
    BY FitsShape, CapacityAssumption
  <2>3. cells \in [0 .. Capacity - 1 -> 0 .. StreamLen]
    <3>1. r.data \in [0 .. Capacity - 1 -> 0 .. StreamLen]
      BY DEF Fits, Window
    <3> QED BY <2>2, <3>1
  <2>4. \A i \in 0 .. Available(r) - 1 : cells[i] = r.data[r.pos + i]
    BY <2>2
  <2> HIDE DEF cells, q
  <2>5. /\ q \in Window /\ q.pos = 0 /\ q.len = Available(r) /\ q.data = cells
    BY <2>1, <2>2, <2>3, CapacityAssumption DEF Window
  <2>6. Fits(q) /\ Available(q) = Available(r)
    BY <2>2, <2>5 DEF Fits, Available
  <2>7. \A i \in 0 .. Available(r) - 1 : q.pos + i = i
    BY <2>5
  <2>8. req <= Capacity => Capacity - q.pos >= req
    BY <2>2, <2>5
  <2> QED BY <2>4, <2>5, <2>6, <2>7, <2>8 DEF q
<1> QED BY <1>1, <1>2

\* Two windows with the same unread bytes show the same.
LEMMA ShowsTheSame ==
  ASSUME NEW r, NEW q, NEW d \in Nat, Shows(r, d), Fits(q), Available(q) = Available(r),
         \A i \in 0 .. Available(r) - 1 : q.data[q.pos + i] = r.data[r.pos + i]
  PROVE  Shows(q, d)
<1>1. /\ r.pos \in Nat /\ r.len \in Nat /\ Available(r) = r.len - r.pos
      /\ q.pos \in Nat /\ q.len \in Nat /\ Available(r) = q.len - q.pos
      /\ Available(r) <= d
  BY FitsShape, WindowShape, CapacityAssumption
<1>2. ASSUME NEW j \in q.pos .. q.len - 1
      PROVE  q.data[j] = (d - q.len) + (j + 1)
  <2>1. j - q.pos \in 0 .. Available(r) - 1 /\ q.pos + (j - q.pos) = j
        /\ r.pos + (j - q.pos) \in r.pos .. r.len - 1 /\ j \in Int
    BY <1>1
  <2>2. q.data[j] = r.data[r.pos + (j - q.pos)]
    BY <2>1
  <2>3. r.data[r.pos + (j - q.pos)] = (d - r.len) + ((r.pos + (j - q.pos)) + 1)
    BY <2>1 DEF Shows
  <2>4. (d - r.len) + ((r.pos + (j - q.pos)) + 1) = (d - q.len) + (j + 1)
    BY ONLY <1>1, <2>1, d \in Nat
  <2> QED BY <2>2, <2>3, <2>4
<1> QED BY <1>1, <1>2 DEF Shows

LEMMA RebaseShows ==
  ASSUME NEW r, NEW d \in Nat, Shows(r, d), NEW req \in Nat
  PROVE  Shows(Rebase(r, req), d)
<1>1. Fits(r)
  BY DEF Shows
<1> QED BY <1>1, RebaseFits, ShowsTheSame

\* k bytes read into the free end of the window follow those in it.
LEMMA FilledFits ==
  ASSUME NEW r, Fits(r), NEW d \in Nat, NEW k \in 1 .. Capacity - r.len,
         d + k <= StreamLen
  PROVE  LET q == Filled(r, d, k)
         IN  /\ Fits(q) /\ q.pos = r.pos /\ q.len = r.len + k
             /\ Available(q) = Available(r) + k
             /\ \A i \in r.len .. r.len + k - 1 : q.data[i] = d + 1 + (i - r.len)
             /\ \A i \in 0 .. r.len - 1 : q.data[i] = r.data[i]
<1> DEFINE q == Filled(r, d, k)
           cells == [i \in 0 .. Capacity - 1 |->
                       IF i \in r.len .. r.len + k - 1
                       THEN d + 1 + (i - r.len) ELSE r.data[i]]
<1>1. /\ r.pos \in 0 .. Capacity /\ r.len \in 0 .. Capacity /\ r.pos <= r.len
      /\ Capacity \in Nat /\ StreamLen \in Nat
  BY FitsShape, CapacityAssumption, StreamLenAssumption
<1>2. r.data \in [0 .. Capacity - 1 -> 0 .. StreamLen]
  BY DEF Fits, Window
<1>3. q = [data |-> cells, pos |-> r.pos, len |-> r.len + k]
  BY DEF Filled
<1>4. \A i \in r.len .. r.len + k - 1 : cells[i] = d + 1 + (i - r.len)
  BY <1>1, SMTT(20)
<1>5. \A i \in 0 .. r.len - 1 : cells[i] = r.data[i]
  BY <1>1
<1>6. \A i \in r.len .. r.len + k - 1 : d + 1 + (i - r.len) \in 0 .. StreamLen
  BY ONLY <1>1, k \in 1 .. Capacity - r.len, d \in Nat, d + k <= StreamLen
<1>7. cells \in [0 .. Capacity - 1 -> 0 .. StreamLen]
  BY <1>2, <1>6
<1> HIDE DEF cells, q
<1>8. q.pos = r.pos /\ q.len = r.len + k /\ q.data = cells
  BY <1>3
<1>9. q \in Window
  BY <1>1, <1>3, <1>7 DEF Window
<1>10. Fits(q) /\ Available(q) = Available(r) + k
  BY <1>1, <1>8, <1>9 DEF Fits, Available
<1> QED BY <1>4, <1>5, <1>8, <1>10 DEF q

LEMMA FilledShows ==
  ASSUME NEW r, NEW d \in Nat, Shows(r, d), NEW k \in 1 .. Capacity - r.len,
         d + k <= StreamLen
  PROVE  Shows(Filled(r, d, k), d + k)
<1> DEFINE q == Filled(r, d, k)
<1>1. Fits(r)
  BY DEF Shows
<1>2. /\ Fits(q) /\ q.pos = r.pos /\ q.len = r.len + k
      /\ \A i \in r.len .. r.len + k - 1 : q.data[i] = d + 1 + (i - r.len)
      /\ \A i \in 0 .. r.len - 1 : q.data[i] = r.data[i]
  BY <1>1, FilledFits
<1>3. r.pos \in 0 .. Capacity /\ r.len \in 0 .. Capacity /\ r.len - r.pos <= d
      /\ Capacity \in Nat
  BY WindowShape, CapacityAssumption
<1> HIDE DEF q
<1>4. ASSUME NEW i \in q.pos .. q.len - 1
      PROVE  q.data[i] = ((d + k) - q.len) + (i + 1)
  <2>1. CASE i \in r.len .. r.len + k - 1
    BY <1>2, <1>3, <2>1
  <2>2. CASE i \in r.pos .. r.len - 1
    <3>1. r.data[i] = (d - r.len) + (i + 1)
      BY <2>2 DEF Shows
    <3>2. q.data[i] = r.data[i]
      BY <1>2, <1>3, <2>2
    <3> QED BY <1>2, <1>3, <3>1, <3>2
  <2> QED BY <1>2, <1>3, <2>1, <2>2
<1>5. q.len - q.pos <= d + k
  BY <1>2, <1>3
<1> QED BY <1>2, <1>4, <1>5 DEF Shows, q

(***************************************************************************)
(* The ends of a call, and its beginning.                                  *)
(***************************************************************************)
LEMMA HandKeepsInv ==
  ASSUME Inv, NEW r, Shows(r, delivered), Available(r) = Available(reader),
         NEW n \in 0 .. Available(r), Hand(r, n), UNCHANGED <<delims, delivered>>
  PROVE  Inv'
<1> DEFINE h == Handed
           s == [k \in 1 .. n |-> r.data[r.pos + k - 1]]
<1>1. delivered \in 0 .. StreamLen /\ delivered \in Nat
  BY StreamLenAssumption DEF Inv
<1>2. /\ r = [data |-> r.data, pos |-> r.pos, len |-> r.len]
      /\ r.pos \in 0 .. Capacity /\ r.len \in 0 .. Capacity /\ r.pos <= r.len
      /\ Available(r) \in 0 .. Capacity /\ Available(r) <= delivered
      /\ Available(r) = r.len - r.pos /\ Capacity \in Nat
  BY <1>1, WindowShape, CapacityAssumption
<1>3. h = delivered - Available(r) /\ h \in Nat /\ h + n <= StreamLen /\ n \in Nat
  <2>1. h = delivered - Available(r)
    BY DEF Handed
  <2> HIDE DEF h
  <2> QED BY <1>1, <1>2, <2>1, StreamLenAssumption
<1>4. \A i \in r.pos .. r.len - 1 : r.data[i] = (delivered - r.len) + (i + 1)
  BY DEF Shows
<1>5. \A k \in 0 .. n - 1 : r.data[r.pos + k] = h + (k + 1)
  <2>1. ASSUME NEW k \in 0 .. n - 1
        PROVE  r.data[r.pos + k] = h + (k + 1)
    <3>1. r.pos + k \in r.pos .. r.len - 1
      BY <1>2
    <3>2. r.data[r.pos + k] = (delivered - r.len) + ((r.pos + k) + 1)
      BY <1>4, <3>1
    <3> HIDE DEF h
    <3> QED BY <1>1, <1>2, <1>3, <3>2
  <2> QED BY <2>1
<1> HIDE DEF h
<1>6. s = Stretch(h, n)
  <2>1. ASSUME NEW k \in 1 .. n
        PROVE  r.data[r.pos + k - 1] = h + k
    <3>1. k - 1 \in 0 .. n - 1 /\ r.pos + (k - 1) = r.pos + k - 1 /\ (k - 1) + 1 = k
      BY <1>2
    <3> QED BY <1>5, <3>1
  <2> QED BY <2>1 DEF Stretch
<1>7. taken' = Stretch(0, h) \o s
  BY DEF Hand, Inv, h
<1> HIDE DEF s
<1>8. taken' = Stretch(0, h + n)
  BY <1>3, <1>6, <1>7, StretchesMeet
<1>9. reader' = [data |-> r.data, pos |-> r.pos + n, len |-> r.len]
  BY <1>2 DEF Hand
<1>10. r.pos + n \in 0 .. Capacity /\ r.pos + n <= r.len
  BY <1>2
<1>11. r.data \in [0 .. Capacity - 1 -> 0 .. StreamLen]
  BY DEF Shows, Fits, Window
<1>12. reader' \in Window /\ reader'.pos = r.pos + n /\ reader'.len = r.len
       /\ reader'.data = r.data
  BY <1>2, <1>9, <1>10, <1>11 DEF Window
<1>13. Available(reader') = Available(r) - n
  BY <1>2, <1>12 DEF Available
<1>14. Shows(reader', delivered)
  <2>1. \A i \in r.pos + n .. r.len - 1 : r.data[i] = (delivered - r.len) + (i + 1)
    BY <1>2, <1>4
  <2>2. r.len - (r.pos + n) <= delivered
    BY <1>1, <1>2
  <2> QED BY <1>10, <1>12, <2>1, <2>2 DEF Shows, Fits
<1>15. Handed' = h + n
  BY <1>1, <1>2, <1>3, <1>13 DEF Handed, Available
<1>16. result' = [status |-> "OK", at |-> r.pos, n |-> n] /\ call' = Idle
  BY DEF Hand
<1>17. CursorShows'
  <2>1. result'.n = n /\ result'.at = r.pos
    BY <1>16
  <2>2. n <= h + n /\ (h + n) - n = h
    BY <1>3
  <2> QED BY <1>5, <1>12, <1>15, <2>1, <2>2 DEF CursorShows
<1>18. result' \in Results
  BY <1>2, <1>16 DEF Results, Statuses
<1>19. call' \in Calls /\ (call'.op = "byte" => call'.count = 1)
  BY <1>16, CapacityAssumption DEF Calls, Idle
<1>20. delims' = delims /\ delivered' = delivered
  OBVIOUS
<1> QED BY <1>1, <1>8, <1>14, <1>15, <1>17, <1>18, <1>19, <1>20 DEF Inv

LEMMA FailKeepsInv ==
  ASSUME Inv, NEW r, Shows(r, delivered), Available(r) = Available(reader),
         NEW st \in Statuses, Fail(r, st), UNCHANGED <<delims, delivered>>
  PROVE  Inv'
<1>1. delivered \in 0 .. StreamLen /\ delivered \in Nat
  BY StreamLenAssumption DEF Inv
<1>2. /\ r.pos \in 0 .. Capacity /\ r.len \in 0 .. Capacity
      /\ Available(r) \in 0 .. Capacity /\ Available(r) <= delivered
  BY <1>1, WindowShape
<1>3. /\ reader' = r /\ taken' = taken /\ call' = Idle
      /\ result' = [status |-> st, at |-> 0, n |-> 0]
      /\ delims' = delims /\ delivered' = delivered
  BY DEF Fail
<1>4. Handed' = Handed /\ 0 <= Handed
  BY <1>1, <1>2, <1>3 DEF Handed, Available
<1>5. result' \in Results /\ result'.n = 0
  BY <1>3, CapacityAssumption DEF Results
<1>6. CursorShows'
  BY <1>4, <1>5 DEF CursorShows
<1>7. call' \in Calls /\ (call'.op = "byte" => call'.count = 1)
  BY <1>3, CapacityAssumption DEF Calls, Idle
<1>8. taken' = Stretch(0, Handed')
  BY <1>3, <1>4 DEF Inv
<1> QED BY <1>1, <1>3, <1>5, <1>6, <1>7, <1>8 DEF Inv

LEMMA StartKeepsInv ==
  ASSUME Inv, Start
  PROVE  Inv'
<1>1. ASSUME NEW op \in {"byte", "array", "delimiter"}, NEW n \in 0 .. Capacity,
             op = "byte" => n = 1, Begin(op, n)
      PROVE  Inv'
  <2>1. /\ call' = [op |-> op, count |-> n]
        /\ UNCHANGED <<delims, delivered, reader, result, taken>>
    BY <1>1 DEF Begin
  <2>2. call' \in Calls /\ (call'.op = "byte" => call'.count = 1)
    BY <1>1, <2>1 DEF Calls
  <2> QED BY <2>1, <2>2 DEF Inv, Handed, CursorShows, Available
<1>2. ASSUME NEW n \in Counts, RefuseArray(n)
      PROVE  Inv'
  <2>1. delivered \in 0 .. StreamLen /\ delivered \in Nat /\ Shows(reader, delivered)
    BY StreamLenAssumption DEF Inv
  <2>2. Available(reader) \in 0 .. Capacity /\ Available(reader) <= delivered
    BY <2>1, WindowShape
  <2>3. /\ result' = [status |-> "OVERFLOW", at |-> 0, n |-> 0]
        /\ UNCHANGED <<delims, delivered, reader, call, taken>>
    BY <1>2 DEF RefuseArray
  <2>4. result' \in Results /\ result'.n = 0
    BY <2>3, CapacityAssumption DEF Results, Statuses
  <2>5. Handed' = Handed /\ 0 <= Handed
    BY <2>1, <2>2, <2>3, CapacityAssumption DEF Handed, Available
  <2>6. CursorShows'
    BY <2>4, <2>5 DEF CursorShows
  <2> QED BY <2>3, <2>4, <2>5, <2>6 DEF Inv
<1>3. CASE Begin("byte", 1)
  BY <1>1, <1>3, CapacityAssumption
<1>4. CASE Begin("delimiter", 0)
  BY <1>1, <1>4, CapacityAssumption
<1>5. ASSUME NEW n \in Counts, n <= Capacity, Begin("array", n)
      PROVE  Inv'
  <2>1. n \in 0 .. Capacity
    BY <1>5, CountsAssumption, CapacityAssumption
  <2> QED BY <1>1, <1>5, <2>1
<1> QED BY <1>2, <1>3, <1>4, <1>5 DEF Start

(***************************************************************************)
(* A call that asks the source.                                            *)
(***************************************************************************)
\* Neither fill_more nor rebase meets its OVERFLOW return: what a call asks
\* for fits, and the rebased window has room.
LEMMA AskFits ==
  ASSUME Fits(reader), call \in Calls, call.op = "byte" => call.count = 1, ~ Ready
  PROVE  LET q == Rebase(reader, Required(reader))
         IN  /\ Required(reader) \in Available(reader) .. Capacity
             /\ Fits(q) /\ Available(q) = Available(reader)
             /\ Room(q, MaxRead(reader)) \in 1 .. Capacity - q.len
<1> DEFINE q == Rebase(reader, Required(reader))
<1>1. Available(reader) \in 0 .. Capacity /\ Capacity \in Nat \ {0}
  BY FitsShape, CapacityAssumption
<1>2. /\ Required(reader) \in Available(reader) .. Capacity
      /\ Required(reader) > Available(reader)
      /\ MaxRead(reader) \in Nat \ {0}
  <2>1. CASE call.op = "byte"
    BY <1>1, <2>1 DEF Ready, Required, MaxRead
  <2>2. CASE call.op = "array"
    <3>1. call.count \in 0 .. Capacity
      BY DEF Calls
    <3>2. call.count > Available(reader)
      BY <1>1, <2>2, <3>1 DEF Ready
    <3> QED BY <1>1, <2>2, <3>1, <3>2 DEF Required, MaxRead
  <2>3. CASE call.op = "delimiter"
    <3>1. Available(reader) # Capacity
      BY <2>3 DEF Ready
    <3> QED BY <1>1, <2>3, <3>1 DEF Required, MaxRead
  <2>4. CASE call.op = "none"
    BY <2>4 DEF Ready
  <2>5. call.op \in {"none", "byte", "array", "delimiter"}
    BY DEF Calls
  <2> QED BY <2>1, <2>2, <2>3, <2>4, <2>5
<1>3. /\ Fits(q) /\ Available(q) = Available(reader)
      /\ Capacity - q.pos >= Required(reader)
  <2>1. Required(reader) \in Nat /\ Required(reader) <= Capacity
    BY <1>1, <1>2
  <2> QED BY <2>1, RebaseFits
<1> HIDE DEF q
<1>4. q.pos \in 0 .. Capacity /\ q.len \in 0 .. Capacity /\ Available(q) = q.len - q.pos
  BY <1>3, FitsShape
<1>5. Capacity - q.len \in Nat \ {0}
  BY <1>1, <1>2, <1>3, <1>4
<1>6. Room(q, MaxRead(reader)) \in 1 .. Capacity - q.len
  BY <1>2, <1>5 DEF Room
<1> QED BY <1>2, <1>3, <1>6 DEF q

LEMMA AskHasRoom ==
  ASSUME Inv, ~ Ready
  PROVE  LET q == Rebase(reader, Required(reader))
         IN  /\ Required(reader) \in Available(reader) .. Capacity
             /\ Shows(q, delivered) /\ Available(q) = Available(reader)
             /\ Room(q, MaxRead(reader)) \in 1 .. Capacity - q.len
<1>1. /\ delivered \in Nat /\ Shows(reader, delivered) /\ Fits(reader)
      /\ call \in Calls /\ (call.op = "byte" => call.count = 1)
  BY StreamLenAssumption DEF Inv, Shows
<1>2. Available(reader) \in Nat
  BY <1>1, FitsShape, CapacityAssumption
<1>3. Required(reader) \in Available(reader) .. Capacity
  BY <1>1, AskFits
<1>4. Shows(Rebase(reader, Required(reader)), delivered)
  BY <1>1, <1>2, <1>3, RebaseShows, CapacityAssumption
<1> QED BY <1>1, <1>4, AskFits

LEMMA FillKeepsInv ==
  ASSUME Inv, NEW k, Fill(k)
  PROVE  Inv'
<1> DEFINE q == Rebase(reader, Required(reader))
<1>1. /\ ~ Ready
      /\ k \in 1 .. Room(q, MaxRead(reader)) /\ delivered + k <= StreamLen
      /\ reader' = Filled(q, delivered, k) /\ delivered' = delivered + k
      /\ UNCHANGED <<delims, call, result, taken>>
  BY DEF Fill
<1>2. /\ delivered \in Nat /\ StreamLen \in Nat /\ Shows(reader, delivered)
      /\ result \in Results /\ CursorShows
  BY StreamLenAssumption DEF Inv
<1>3. /\ Shows(q, delivered) /\ Available(q) = Available(reader)
      /\ Room(q, MaxRead(reader)) \in 1 .. Capacity - q.len
  BY <1>1, AskHasRoom
<1>4. q = reader \/ q.pos = 0
  BY DEF Rebase
<1> HIDE DEF q
<1>5. /\ q.pos \in 0 .. Capacity /\ q.len \in 0 .. Capacity /\ q.pos <= q.len
      /\ Available(q) \in 0 .. Capacity /\ Available(q) <= delivered /\ Capacity \in Nat
  BY <1>2, <1>3, WindowShape, CapacityAssumption
<1>6. k \in 1 .. Capacity - q.len
  BY <1>1, <1>3, <1>5
<1>7. /\ Shows(reader', delivered + k) /\ Available(reader') = Available(q) + k
      /\ reader'.pos = q.pos
      /\ \A i \in 0 .. q.pos - 1 : reader'.data[i] = q.data[i]
  <2>1. Fits(q)
    BY <1>3 DEF Shows
  <2>2. /\ Available(reader') = Available(q) + k /\ reader'.pos = q.pos
        /\ \A i \in 0 .. q.len - 1 : reader'.data[i] = q.data[i]
    BY <1>1, <1>2, <1>6, <2>1, FilledFits
  <2>3. \A i \in 0 .. q.pos - 1 : i \in 0 .. q.len - 1
    BY <1>5
  <2>4. Shows(reader', delivered + k)
    BY <1>1, <1>2, <1>3, <1>6, FilledShows
  <2> QED BY <2>2, <2>3, <2>4
<1>8. delivered' \in 0 .. StreamLen
  BY <1>1, <1>2, <1>6
<1>9. Handed' = Handed /\ Handed \in Nat
  <2>1. Handed = delivered - Available(q)
    BY <1>3 DEF Handed
  <2>2. Handed' = (delivered + k) - (Available(q) + k)
    BY <1>1, <1>7 DEF Handed, Available
  <2> QED BY <1>2, <1>5, <1>6, <2>1, <2>2
<1>10. CursorShows'
  <2>1. result' = result /\ result.at \in Nat /\ result.n \in Nat
    BY <1>1, <1>2, CapacityAssumption DEF Results
  <2>2. result'.n <= Handed'
    BY <1>2, <1>9, <2>1 DEF CursorShows
  <2>3. ASSUME result.at + result.n <= q.pos, NEW j \in 0 .. result.n - 1
        PROVE  reader'.data[result.at + j] = (Handed - result.n) + (j + 1)
    <3>1. q = reader
      BY <1>4, <1>5, <2>1, <2>3
    <3>2. result.at + j \in 0 .. q.pos - 1
      BY <1>5, <2>1, <2>3
    <3>3. reader.data[result.at + j] = (Handed - result.n) + (j + 1)
      BY <1>2, <2>3, <3>1 DEF CursorShows
    <3> QED BY <1>7, <3>1, <3>2, <3>3
  <2> QED BY <1>7, <1>9, <2>1, <2>2, <2>3 DEF CursorShows
<1> QED BY <1>1, <1>2, <1>7, <1>8, <1>9, <1>10 DEF Inv

LEMMA StopKeepsInv ==
  ASSUME Inv, NEW st \in SourceStatuses, Stop(st)
  PROVE  Inv'
<1> DEFINE q == Rebase(reader, Required(reader))
           status == IF st = "OK" THEN "EOF" ELSE st
<1>1. /\ ~ Ready /\ UNCHANGED <<delims, delivered>>
      /\ Hand(q, Available(q)) \/ Fail(q, status)
  BY DEF Stop
<1>2. status \in Statuses
  BY DEF SourceStatuses, Statuses
<1>3. Shows(q, delivered) /\ Available(q) = Available(reader)
  BY <1>1, AskHasRoom
<1> HIDE DEF q, status
<1>4. Available(q) \in 0 .. Available(q)
  BY <1>3, WindowShape, StreamLenAssumption, CapacityAssumption DEF Inv
<1> QED BY <1>1, <1>2, <1>3, <1>4, HandKeepsInv, FailKeepsInv

LEMMA ReturnKeepsInv ==
  ASSUME Inv, Return
  PROVE  Inv'
<1>1. /\ Shows(reader, delivered) /\ call \in Calls
      /\ Available(reader) \in 0 .. Capacity
  BY WindowShape, StreamLenAssumption DEF Inv
<1>2. CASE TakeByte
  <2>1. 1 \in 0 .. Available(reader)
    BY <1>1, <1>2, CapacityAssumption DEF TakeByte, Ready
  <2> QED BY <1>1, <1>2, <2>1, HandKeepsInv DEF TakeByte
<1>3. CASE TakeArray
  <2>1. call.count \in 0 .. Available(reader)
    BY <1>1, <1>3, CapacityAssumption DEF TakeArray, Ready, Calls
  <2> QED BY <1>1, <1>3, <2>1, HandKeepsInv DEF TakeArray
<1>4. CASE TakeDelimiter
  <2>1. PICK k \in Hits(reader) : Hand(reader, k + 1)
    BY <1>4 DEF TakeDelimiter
  <2>2. k + 1 \in 0 .. Available(reader)
    BY <1>1, <2>1, CapacityAssumption DEF Hits
  <2> QED BY <1>1, <1>4, <2>1, <2>2, HandKeepsInv DEF TakeDelimiter
<1>5. CASE DelimiterTooFar
  <2>1. "OVERFLOW" \in Statuses
    BY DEF Statuses
  <2> QED BY <1>1, <1>5, <2>1, FailKeepsInv DEF DelimiterTooFar
<1> QED BY <1>2, <1>3, <1>4, <1>5 DEF Return

(***************************************************************************)
(* The invariant, and what follows from it.                                *)
(***************************************************************************)
LEMMA InitHasInv == Init => Inv
<1> SUFFICES ASSUME Init PROVE Inv
  OBVIOUS
<1>1. /\ Capacity \in Nat \ {0} /\ StreamLen \in Nat
      /\ reader = [data |-> [i \in 0 .. Capacity - 1 |-> Unset], pos |-> 0, len |-> 0]
      /\ delivered = 0
  BY CapacityAssumption, StreamLenAssumption DEF Init
<1>2. [i \in 0 .. Capacity - 1 |-> Unset] \in [0 .. Capacity - 1 -> 0 .. StreamLen]
  BY <1>1 DEF Unset
<1>3. reader \in Window /\ reader.pos = 0 /\ reader.len = 0
  BY <1>1, <1>2 DEF Window
<1>4. Shows(reader, delivered)
  BY <1>1, <1>3 DEF Shows, Fits
<1>5. Handed = 0
  BY <1>1, <1>3 DEF Handed, Available
<1>6. taken = Stretch(0, Handed)
  BY <1>5 DEF Init, Stretch
<1>7. result \in Results /\ result.n = 0
  BY <1>1 DEF Init, Results, Statuses
<1>8. CursorShows
  BY <1>5, <1>7 DEF CursorShows
<1>9. call \in Calls /\ (call.op = "byte" => call.count = 1)
  BY <1>1 DEF Init, Idle, Calls
<1> QED BY <1>1, <1>4, <1>6, <1>7, <1>8, <1>9 DEF Init, Inv

LEMMA NextKeepsInv == Inv /\ [Next]_vars => Inv'
<1> SUFFICES ASSUME Inv, [Next]_vars PROVE Inv'
  OBVIOUS
<1>1. CASE UNCHANGED vars
  BY <1>1 DEF vars, Inv, Handed, CursorShows, Available
<1>2. CASE Next
  <2>1. ASSUME NEW k \in 1 .. Capacity, Fill(k) PROVE Inv'
    BY <2>1, FillKeepsInv
  <2>2. ASSUME NEW st \in SourceStatuses, Stop(st) PROVE Inv'
    BY <2>2, StopKeepsInv
  <2> QED BY <1>2, <2>1, <2>2, StartKeepsInv, ReturnKeepsInv DEF Next, Ask
<1> QED BY <1>1, <1>2

LEMMA InvIsInvariant == Spec => []Inv
  BY InitHasInv, NextKeepsInv, PTL DEF Spec

LEMMA InvTypes == Inv => TypeOK
<1> SUFFICES ASSUME Inv PROVE TypeOK
  OBVIOUS
<1>1. delivered \in Nat /\ delivered <= StreamLen /\ Shows(reader, delivered)
  BY StreamLenAssumption DEF Inv
<1>2. Handed \in Nat /\ 0 + Handed <= StreamLen
  BY <1>1, WindowShape, StreamLenAssumption, CapacityAssumption DEF Handed
<1>3. taken \in Seq(1 .. StreamLen)
  BY <1>2, StretchIsSeq DEF Inv
<1>4. reader \in Window /\ reader.pos <= reader.len
  BY <1>1 DEF Shows, Fits
<1> QED BY <1>3, <1>4 DEF Inv, TypeOK, Calls, Results

LEMMA InvLosesNothing == Inv => NothingLost
<1> SUFFICES ASSUME Inv PROVE NothingLost
  OBVIOUS
<1> DEFINE n == Available(reader)
<1>1. /\ delivered \in Nat /\ delivered <= StreamLen /\ StreamLen \in Nat
      /\ Shows(reader, delivered)
  BY StreamLenAssumption DEF Inv
<1>2. /\ reader.pos \in Nat /\ reader.len \in Nat /\ n \in Nat /\ n <= delivered
      /\ n = reader.len - reader.pos
  BY <1>1, WindowShape, CapacityAssumption
<1>3. Handed = delivered - n
  BY DEF Handed
<1>4. Buffered(reader) = [k \in 1 .. n |-> reader.data[reader.pos + k - 1]]
  BY DEF Buffered
<1> HIDE DEF n
<1>5. Handed \in Nat /\ Handed + n = delivered
  BY <1>1, <1>2, <1>3
<1>6. \A k \in 1 .. n : reader.data[reader.pos + k - 1] = Handed + k
  <2>1. ASSUME NEW k \in 1 .. n
        PROVE  reader.data[reader.pos + k - 1] = Handed + k
    <3>1. reader.pos + k - 1 \in reader.pos .. reader.len - 1
      BY <1>2
    <3>2. reader.data[reader.pos + k - 1]
            = (delivered - reader.len) + ((reader.pos + k - 1) + 1)
      BY <1>1, <3>1 DEF Shows
    <3> QED BY <1>1, <1>2, <1>3, <3>2
  <2> QED BY <2>1
<1>7. Buffered(reader) = Stretch(Handed, n)
  BY <1>4, <1>6 DEF Stretch
<1>8. taken \o Buffered(reader) = Stretch(0, Handed + n)
  BY <1>1, <1>2, <1>5, <1>7, StretchesMeet DEF Inv
<1>9. Stretch(0, delivered) = [k \in 1 .. delivered |-> k]
  BY <1>1 DEF Stretch
<1> QED BY <1>5, <1>8, <1>9 DEF NothingLost

LEMMA InvHasRoom == Inv => FillHasRoom
<1> SUFFICES ASSUME Inv, ~ Ready
             PROVE  LET r == Rebase(reader, Required(reader))
                    IN  /\ Required(reader) \in Available(reader) .. Capacity
                        /\ Room(r, MaxRead(reader)) > 0
  BY DEF FillHasRoom
<1> DEFINE q == Rebase(reader, Required(reader))
<1>1. /\ Required(reader) \in Available(reader) .. Capacity
      /\ Shows(q, delivered) /\ Room(q, MaxRead(reader)) \in 1 .. Capacity - q.len
  BY AskHasRoom
<1> HIDE DEF q
<1>2. Capacity - q.len \in Int
  BY <1>1, WindowShape, StreamLenAssumption, CapacityAssumption DEF Inv
<1>3. Room(q, MaxRead(reader)) > 0
  BY <1>1, <1>2
<1> QED BY <1>1, <1>3 DEF q

\* WindowExact of Reader: whatever mix of calls, short reads, compactions,
\* errors and retries came before, no byte is lost, repeated or reordered, the
\* indices stay in the window, and fill_more never meets its OVERFLOW returns.
THEOREM ReaderWindow == Spec => []WindowExact
<1>1. Inv => WindowExact
  BY InvTypes, InvLosesNothing, InvHasRoom DEF WindowExact
<1> QED BY <1>1, InvIsInvariant, PTL

\* CursorIntact of Reader: a returned cursor shows the bytes it was returned
\* with until the window is compacted over it.
THEOREM ReaderCursor == Spec => []CursorIntact
<1>1. ASSUME Inv PROVE CursorIntact
  <2>1. delivered \in Nat /\ delivered <= StreamLen /\ Shows(reader, delivered)
    BY <1>1, StreamLenAssumption DEF Inv
  <2>2. Handed \in Nat /\ 0 + Handed <= StreamLen
    BY <2>1, WindowShape, StreamLenAssumption, CapacityAssumption DEF Handed
  <2>3. Len(taken) = Handed /\ \A k \in 1 .. Handed : taken[k] = 0 + k
    BY <1>1, <2>2, StretchIsSeq DEF Inv
  <2>4. result.n \in Nat /\ result.n <= Handed
    BY <1>1, CapacityAssumption DEF Inv, Results, CursorShows
  <2>5. ASSUME result.at + result.n <= reader.pos, NEW k \in 0 .. result.n - 1
        PROVE  reader.data[result.at + k] = taken[(Len(taken) - result.n + 1) + k]
    <3>1. reader.data[result.at + k] = (Handed - result.n) + (k + 1)
      BY <1>1, <2>5 DEF Inv, CursorShows
    <3>2. (Len(taken) - result.n + 1) + k \in 1 .. Handed
      BY <2>2, <2>3, <2>4
    <3>3. taken[(Len(taken) - result.n + 1) + k] = (Len(taken) - result.n + 1) + k
      BY <2>2, <2>3, <3>2
    <3>4. (Len(taken) - result.n + 1) + k = (Handed - result.n) + (k + 1)
      BY <2>2, <2>3, <2>4, SMTT(20)
    <3> QED BY <3>1, <3>3, <3>4
  <2> QED BY <2>5 DEF CursorIntact
<1> QED BY <1>1, InvIsInvariant, PTL

(***************************************************************************)
(* Delimited segments.                                                     *)
(***************************************************************************)
\* Two windows that show the same bytes hold them at the same offsets.
LEMMA SameBytes ==
  ASSUME NEW q, NEW r, NEW d \in Nat, Shows(q, d), Shows(r, d), Available(q) = Available(r),
         NEW i \in 0 .. Available(r) - 1
  PROVE  q.data[q.pos + i] = r.data[r.pos + i]
<1>1. /\ q.pos \in Nat /\ q.len \in Nat /\ r.pos \in Nat /\ r.len \in Nat
      /\ Available(r) = r.len - r.pos /\ Available(r) = q.len - q.pos
  BY WindowShape, CapacityAssumption
<1>2. q.pos + i \in q.pos .. q.len - 1 /\ r.pos + i \in r.pos .. r.len - 1
  BY <1>1
<1>3. /\ q.data[q.pos + i] = (d - q.len) + ((q.pos + i) + 1)
      /\ r.data[r.pos + i] = (d - r.len) + ((r.pos + i) + 1)
  BY <1>2 DEF Shows
<1>4. (d - q.len) + ((q.pos + i) + 1) = (d - r.len) + ((r.pos + i) + 1)
  BY <1>1
<1> QED BY <1>3, <1>4

\* What Segments says of a step.
SegmentStep ==
  call.op = "delimiter" /\ call' = Idle /\ result'.status = "OK" =>
    LET n == result'.n
        byte(k) == reader'.data[result'.at + k - 1]
    IN  /\ n > 0
        /\ \A k \in 1 .. n - 1 : byte(k) \notin delims
        /\ byte(n) \in delims \/ reader'.pos = reader'.len

\* A cursor of n bytes over r, of which the first n - 1 are no delimiters.
LEMMA HandedSegment ==
  ASSUME Inv, NEW r, Shows(r, delivered), NEW n \in 1 .. Available(r), Hand(r, n),
         \A i \in 0 .. n - 2 : r.data[r.pos + i] \notin delims,
         r.data[r.pos + (n - 1)] \in delims \/ n = Available(r)
  PROVE  SegmentStep
<1>1. /\ r = [data |-> r.data, pos |-> r.pos, len |-> r.len]
      /\ r.pos \in 0 .. Capacity /\ r.len \in 0 .. Capacity
      /\ Available(r) = r.len - r.pos
  BY WindowShape, StreamLenAssumption DEF Inv
<1>2. result' = [status |-> "OK", at |-> r.pos, n |-> n]
  BY DEF Hand
<1>3. reader' = [data |-> r.data, pos |-> r.pos + n, len |-> r.len]
  BY <1>1 DEF Hand
<1>4. /\ result'.at = r.pos /\ result'.n = n
      /\ reader'.data = r.data /\ reader'.pos = r.pos + n /\ reader'.len = r.len
  BY <1>2, <1>3
<1>5. n > 0 /\ n \in Nat /\ r.pos \in Nat /\ r.len \in Nat
  BY <1>1, CapacityAssumption
<1>6. ASSUME NEW k \in 1 .. n - 1
      PROVE  r.data[r.pos + k - 1] \notin delims
  <2>1. k - 1 \in 0 .. n - 2 /\ r.pos + k - 1 = r.pos + (k - 1)
    BY <1>5
  <2> QED BY <2>1
<1>7. r.data[r.pos + n - 1] \in delims \/ r.pos + n = r.len
  <2>1. r.pos + n - 1 = r.pos + (n - 1)
    BY <1>5
  <2>2. n = Available(r) => r.pos + n = r.len
    BY <1>1, <1>5
  <2> QED BY <2>1, <2>2
<1> QED BY <1>4, <1>5, <1>6, <1>7 DEF SegmentStep

LEMMA StepIsSegment == Inv /\ [Next]_vars => SegmentStep
<1> SUFFICES ASSUME Inv, [Next]_vars,
                    call.op = "delimiter", call' = Idle, result'.status = "OK"
             PROVE  SegmentStep
  BY DEF SegmentStep
<1>1. call # Idle
  BY DEF Idle
<1>2. /\ Shows(reader, delivered) /\ delivered \in Nat
      /\ Available(reader) \in 0 .. Capacity /\ Capacity \in Nat
  BY WindowShape, StreamLenAssumption, CapacityAssumption DEF Inv
<1>3. CASE TakeDelimiter
  <2>1. PICK k \in Hits(reader) : Hand(reader, k + 1) /\ \A j \in Hits(reader) : k <= j
    BY <1>3 DEF TakeDelimiter
  <2>2. k \in 0 .. Available(reader) - 1 /\ reader.data[reader.pos + k] \in delims
    BY <2>1 DEF Hits
  <2>3. ASSUME NEW i \in 0 .. (k + 1) - 2, reader.data[reader.pos + i] \in delims
        PROVE  FALSE
    <3>1. i \in 0 .. Available(reader) - 1 /\ i < k
      BY <1>2, <2>2
    <3>2. i \in Hits(reader)
      BY <2>3, <3>1 DEF Hits
    <3> QED BY <1>2, <2>1, <2>2, <3>1, <3>2
  <2>4. k + 1 \in 1 .. Available(reader) /\ (k + 1) - 1 = k
    BY <1>2, <2>2
  <2>5. reader.data[reader.pos + ((k + 1) - 1)] \in delims
    BY <2>2, <2>4
  <2> QED BY <1>2, <2>1, <2>3, <2>4, <2>5, HandedSegment
<1>4. ASSUME NEW st \in SourceStatuses, Stop(st)
      PROVE  SegmentStep
  <2> DEFINE q == Rebase(reader, Required(reader))
             status == IF st = "OK" THEN "EOF" ELSE st
  <2>1. ~ Ready /\ \/ Available(q) > 0 /\ Hand(q, Available(q))
                   \/ Fail(q, status)
    BY <1>4 DEF Stop
  <2>2. Shows(q, delivered) /\ Available(q) = Available(reader)
    BY <2>1, AskHasRoom
  <2>3. ~ Fail(q, status)
    <3>1. status # "OK"
      BY <1>4 DEF SourceStatuses
    <3> HIDE DEF q, status
    <3> QED BY <3>1 DEF Fail
  <2> HIDE DEF q, status
  <2>4. Hits(reader) = {}
    BY <2>1 DEF Ready
  <2>5. ASSUME NEW i \in 0 .. Available(q) - 2
        PROVE  q.data[q.pos + i] \notin delims
    <3>1. i \in 0 .. Available(reader) - 1
      BY <1>2, <2>2
    <3>2. reader.data[reader.pos + i] \notin delims
      BY <2>4, <3>1 DEF Hits
    <3> QED BY <1>2, <2>2, <3>1, <3>2, SameBytes
  <2>6. Available(q) \in 1 .. Available(q)
    BY <1>2, <2>1, <2>2, <2>3
  <2> QED BY <2>1, <2>2, <2>3, <2>5, <2>6, HandedSegment
<1>5. ~ UNCHANGED vars
  BY <1>1 DEF vars
<1>6. ~ Start
  BY <1>1 DEF Start, Begin, RefuseArray
<1>7. ~ TakeByte /\ ~ TakeArray
  BY DEF TakeByte, TakeArray
<1>8. ~ DelimiterTooFar
  BY DEF DelimiterTooFar, Fail
<1>9. \A k : ~ Fill(k)
  BY <1>1 DEF Fill
<1> QED BY <1>3, <1>4, <1>5, <1>6, <1>7, <1>8, <1>9 DEF Next, Return, Ask

\* Segments of Reader: a delimited segment has its delimiter last and nowhere
\* else, or is all the window held when the source gave nothing more.
THEOREM ReaderSegments == Spec => Segments
<1>1. Inv /\ [Next]_vars => [SegmentStep]_vars
  BY StepIsSegment
<1>2. Segments <=> [][SegmentStep]_vars
  BY DEF Segments, SegmentStep
<1> QED BY <1>1, <1>2, InvIsInvariant, PTL DEF Spec

(***************************************************************************)
(* The file reader and its views, for every capacity of the buffer and     *)
(* every length of the file.  Where views are mixed, the bytes in the      *)
(* buffer are of no account: another view may have written over them.      *)
(* What counts is that the windows are in order, so that fread is asked    *)
(* for at least one byte, and that the end-of-file indicator is set at the *)
(* end of the file only.                                                   *)
(***************************************************************************)
ViewsInv ==
  /\ delivered \in 0 .. StreamLen
  /\ Fits(reader)
  /\ other \in [pos : 0 .. Capacity, len : 0 .. Capacity] /\ other.pos <= other.len
  /\ call \in Calls /\ (call.op = "byte" => call.count = 1)
  /\ feof => delivered = StreamLen

(***************************************************************************)
(* Windows and calls through the steps of module Reader.                   *)
(***************************************************************************)
LEMMA HandFits ==
  ASSUME NEW r, Fits(r), NEW n \in 0 .. Available(r), Hand(r, n)
  PROVE  Fits(reader') /\ reader'.pos = r.pos + n /\ reader'.len = r.len
<1>1. /\ r = [data |-> r.data, pos |-> r.pos, len |-> r.len]
      /\ r.pos \in 0 .. Capacity /\ r.len \in 0 .. Capacity
      /\ Available(r) = r.len - r.pos /\ Capacity \in Nat
  BY FitsShape, CapacityAssumption
<1>2. reader' = [data |-> r.data, pos |-> r.pos + n, len |-> r.len]
  BY <1>1 DEF Hand
<1>3. r.pos + n \in 0 .. Capacity /\ r.pos + n <= r.len
  BY <1>1
<1>4. r.data \in [0 .. Capacity - 1 -> 0 .. StreamLen]
  BY DEF Fits, Window
<1> QED BY <1>1, <1>2, <1>3, <1>4 DEF Fits, Window

LEMMA IdleIsCall == Idle \in Calls /\ Idle.op # "byte"
  BY CapacityAssumption DEF Idle, Calls

LEMMA StartFits ==
  ASSUME ViewsInv, Start
  PROVE  /\ UNCHANGED <<reader, delivered>>
         /\ call' \in Calls /\ (call'.op = "byte" => call'.count = 1)
<1>1. ASSUME NEW op \in {"byte", "array", "delimiter"}, NEW n \in 0 .. Capacity,
             op = "byte" => n = 1, Begin(op, n)
      PROVE  /\ UNCHANGED <<reader, delivered>>
             /\ call' \in Calls /\ (call'.op = "byte" => call'.count = 1)
  BY <1>1 DEF Begin, Calls
<1>2. CASE Begin("byte", 1)
  BY <1>1, <1>2, CapacityAssumption
<1>3. CASE Begin("delimiter", 0)
  BY <1>1, <1>3, CapacityAssumption
<1>4. ASSUME NEW n \in Counts, n <= Capacity, Begin("array", n)
      PROVE  /\ UNCHANGED <<reader, delivered>>
             /\ call' \in Calls /\ (call'.op = "byte" => call'.count = 1)
  <2>1. n \in 0 .. Capacity
    BY <1>4, CountsAssumption, CapacityAssumption
  <2> QED BY <1>1, <1>4, <2>1
<1>5. ASSUME NEW n \in Counts, RefuseArray(n)
      PROVE  UNCHANGED <<reader, delivered, call>>
  BY <1>5 DEF RefuseArray
<1> QED BY <1>2, <1>3, <1>4, <1>5 DEF Start, ViewsInv

LEMMA ReturnFits ==
  ASSUME ViewsInv, Return
  PROVE  Fits(reader') /\ call' = Idle /\ UNCHANGED delivered
<1>1. Fits(reader) /\ call \in Calls /\ Available(reader) \in 0 .. Capacity
  BY FitsShape DEF ViewsInv
<1>2. CASE TakeByte
  <2>1. 1 \in 0 .. Available(reader)
    BY <1>1, <1>2, CapacityAssumption DEF TakeByte, Ready
  <2>2. Hand(reader, 1) /\ UNCHANGED delivered
    BY <1>2 DEF TakeByte
  <2> QED BY <1>1, <2>1, <2>2, HandFits DEF Hand
<1>3. CASE TakeArray
  <2>1. call.count \in 0 .. Available(reader)
    BY <1>1, <1>3, CapacityAssumption DEF TakeArray, Ready, Calls
  <2>2. Hand(reader, call.count) /\ UNCHANGED delivered
    BY <1>3 DEF TakeArray
  <2> QED BY <1>1, <2>1, <2>2, HandFits DEF Hand
<1>4. CASE TakeDelimiter
  <2>1. PICK k \in Hits(reader) : Hand(reader, k + 1) /\ UNCHANGED delivered
    BY <1>4 DEF TakeDelimiter
  <2>2. k + 1 \in 0 .. Available(reader)
    BY <1>1, <2>1, CapacityAssumption DEF Hits
  <2> QED BY <1>1, <2>1, <2>2, HandFits DEF Hand
<1>5. CASE DelimiterTooFar
  BY <1>1, <1>5 DEF DelimiterTooFar, Fail
<1> QED BY <1>2, <1>3, <1>4, <1>5 DEF Return

\* fread is asked for at least one byte, and for no more than the buffer holds.
LEMMA AskedIsRoom ==
  ASSUME ViewsInv, ~ Ready
  PROVE  LET q == Rebase(reader, Required(reader))
         IN  /\ Fits(q) /\ Asked \in 1 .. Capacity - q.len
             /\ Asked = Room(q, MaxRead(reader))
  BY AskFits DEF ViewsInv, Asked

LEMMA FillFits ==
  ASSUME ViewsInv, NEW k, Fill(k)
  PROVE  /\ Fits(reader') /\ call' = call /\ call # Idle
         /\ k \in 1 .. Capacity
         /\ delivered' = delivered + k /\ delivered' \in 0 .. StreamLen
<1> DEFINE q == Rebase(reader, Required(reader))
<1>1. /\ ~ Ready /\ k \in 1 .. Asked /\ delivered + k <= StreamLen
      /\ reader' = Filled(q, delivered, k) /\ delivered' = delivered + k
      /\ call' = call
  BY DEF Fill, Asked
<1>2. Fits(q) /\ Asked \in 1 .. Capacity - q.len
  BY <1>1, AskedIsRoom
<1> HIDE DEF q
<1>3. /\ q.len \in 0 .. Capacity /\ Capacity \in Nat /\ StreamLen \in Nat
      /\ delivered \in Nat
  BY <1>2, FitsShape, CapacityAssumption, StreamLenAssumption DEF ViewsInv
<1>4. k \in 1 .. Capacity - q.len
  BY <1>1, <1>2, <1>3
<1>5. k \in 1 .. Capacity /\ delivered' \in 0 .. StreamLen
  BY <1>1, <1>3, <1>4
<1>6. Fits(reader')
  BY <1>1, <1>2, <1>3, <1>4, FilledFits
<1>7. call # Idle
  BY <1>1 DEF Ready, Idle
<1> QED BY <1>1, <1>5, <1>6, <1>7

LEMMA StopFits ==
  ASSUME ViewsInv, NEW st, Stop(st)
  PROVE  Fits(reader') /\ call' = Idle /\ UNCHANGED delivered
<1> DEFINE q == Rebase(reader, Required(reader))
           status == IF st = "OK" THEN "EOF" ELSE st
<1>1. /\ ~ Ready /\ UNCHANGED delivered
      /\ Hand(q, Available(q)) \/ Fail(q, status)
  BY DEF Stop
<1>2. Fits(q)
  BY <1>1, AskedIsRoom
<1> HIDE DEF q, status
<1>3. Available(q) \in 0 .. Available(q)
  BY <1>2, FitsShape, CapacityAssumption
<1>4. CASE Hand(q, Available(q))
  BY <1>1, <1>2, <1>3, <1>4, HandFits DEF Hand
<1>5. CASE Fail(q, status)
  BY <1>1, <1>2, <1>5 DEF Fail
<1> QED BY <1>1, <1>4, <1>5

(***************************************************************************)
(* A read of the file.                                                     *)
(***************************************************************************)
\* Where fread delivers nothing, the status is the end of the file only at the
\* end of the file, and only if it never failed.
LEMMA FileReadCases ==
  ASSUME ViewsInv, FileRead
  PROVE  /\ ferror' \in {ferror, TRUE}
         /\ \/ \E k \in 1 .. Capacity : Fill(k) /\ (feof' => delivered' = StreamLen)
            \/ \E st \in {"EOF", "IO"} :
                 /\ Stop(st) /\ (feof' => delivered' = StreamLen)
                 /\ st = "EOF" => ~ ferror' /\ delivered' = StreamLen
                 /\ st = "IO" => ferror' = TRUE
<1>1. ~ Ready
  BY DEF FileRead
<1>2. PICK k \in 0 .. Asked :
        Fread(Asked, k) /\ (IF k > 0 THEN Fill(k) ELSE Stop(FileStatus))
  BY DEF FileRead
<1>3. /\ Asked \in Nat /\ Asked > 0 /\ delivered \in Nat /\ StreamLen \in Nat
      /\ feof => delivered = StreamLen
  <2>1. Asked \in 1 .. Capacity - Rebase(reader, Required(reader)).len
    BY <1>1, AskedIsRoom
  <2>2. delivered \in 0 .. StreamLen
    BY DEF ViewsInv
  <2> QED BY <2>1, <2>2, StreamLenAssumption DEF ViewsInv
<1>4. ferror' \in {ferror, TRUE}
  BY <1>2 DEF Fread
<1>5. CASE k > 0
  <2>1. Fill(k) /\ delivered' = delivered + k /\ k \in 1 .. Capacity
    BY <1>2, <1>5, FillFits
  <2>2. (~ feof /\ feof' = feof) \/ delivered + k = StreamLen
    <3>1. Fread(Asked, k) /\ k # 0
      BY <1>2, <1>5
    <3> QED BY <3>1 DEF Fread
  <2>3. feof' => delivered' = StreamLen
    BY <2>1, <2>2
  <2> QED BY <1>4, <2>1, <2>3
<1>6. CASE ~ (k > 0)
  <2>1. k = 0 /\ Stop(FileStatus)
    BY <1>2, <1>3, <1>6
  <2>2. delivered' = delivered
    BY <2>1, StopFits
  <2>3. \/ /\ delivered = StreamLen /\ feof' = TRUE
        \/ ferror' = TRUE /\ feof' = feof
        \/ feof /\ feof' = feof
    BY <1>2, <1>3, <2>1 DEF Fread
  <2>4. feof' => delivered' = StreamLen
    BY <1>3, <2>2, <2>3
  <2>5. FileStatus \in {"EOF", "IO"}
    BY DEF FileStatus
  <2>6. FileStatus = "EOF" => ~ ferror' /\ delivered' = StreamLen
    BY <1>3, <2>2, <2>3 DEF FileStatus
  <2>7. FileStatus = "IO" => ferror' = TRUE
    BY <1>3, <2>2, <2>3 DEF FileStatus
  <2> QED BY <1>4, <2>1, <2>4, <2>5, <2>6, <2>7
<1> QED BY <1>5, <1>6

(***************************************************************************)
(* The invariant.                                                          *)
(***************************************************************************)
LEMMA ViewsInitHasInv == ViewsInit => ViewsInv
<1> SUFFICES ASSUME ViewsInit PROVE ViewsInv
  OBVIOUS
<1>1. Inv /\ feof = FALSE /\ call = Idle
  BY InitHasInv DEF ViewsInit, FileInit, Init
<1>2. other \in [pos : 0 .. Capacity, len : 0 .. Capacity] /\ other.pos <= other.len
  BY CapacityAssumption DEF ViewsInit, FreshView
<1> QED BY <1>1, <1>2 DEF Inv, Shows, ViewsInv

LEMMA UseKeepsInv ==
  ASSUME ViewsInv, FileNext, UNCHANGED other
  PROVE  ViewsInv'
<1> USE DEF ViewsInv
<1>1. CASE Start /\ feof' = feof
  BY <1>1, StartFits
<1>2. CASE Return /\ feof' = feof
  BY <1>2, ReturnFits, IdleIsCall
<1>3. CASE FileRead
  <2>1. ASSUME NEW k \in 1 .. Capacity, Fill(k), feof' => delivered' = StreamLen
        PROVE  ViewsInv'
    BY <2>1, FillFits
  <2>2. ASSUME NEW st \in {"EOF", "IO"}, Stop(st), feof' => delivered' = StreamLen
        PROVE  ViewsInv'
    BY <2>2, StopFits, IdleIsCall
  <2> QED BY <1>3, <2>1, <2>2, FileReadCases
<1>4. CASE UNCHANGED <<vars, feof>>
  BY <1>4 DEF vars
<1>5. ReadAfterClose \/ Close => UNCHANGED <<vars, feof>>
  BY DEF ReadAfterClose, Close
<1> QED BY <1>1, <1>2, <1>3, <1>4, <1>5 DEF FileNext

LEMMA ViewsNextKeepsInv == ViewsInv /\ [ViewsNext]_viewVars => ViewsInv'
<1> SUFFICES ASSUME ViewsInv, [ViewsNext]_viewVars PROVE ViewsInv'
  OBVIOUS
<1>1. CASE UNCHANGED viewVars
  BY <1>1 DEF viewVars, fileVars, vars, ViewsInv
<1>2. CASE Use
  BY <1>2, UseKeepsInv DEF Use
<1>3. CASE View
  <2>1. /\ UNCHANGED <<delivered, reader, call, feof>>
        /\ other' = [pos |-> 0, len |-> 0]
    BY <1>3 DEF View, FreshView, fileVars, vars
  <2> QED BY <2>1, CapacityAssumption DEF ViewsInv
<1>4. CASE Change
  <2>1. /\ reader' = [data |-> reader.data, pos |-> other.pos, len |-> other.len]
        /\ other' = [pos |-> reader.pos, len |-> reader.len]
        /\ UNCHANGED <<delivered, call, feof>>
    <3>1. reader = [data |-> reader.data, pos |-> reader.pos, len |-> reader.len]
      BY FitsShape DEF ViewsInv
    <3> QED BY <1>4, <3>1 DEF Change
  <2>2. /\ reader.data \in [0 .. Capacity - 1 -> 0 .. StreamLen]
        /\ reader.pos \in 0 .. Capacity /\ reader.len \in 0 .. Capacity
        /\ reader.pos <= reader.len
    BY DEF ViewsInv, Fits, Window
  <2>3. /\ other.pos \in 0 .. Capacity /\ other.len \in 0 .. Capacity
        /\ other.pos <= other.len
    BY DEF ViewsInv
  <2>4. reader' \in Window /\ reader'.pos <= reader'.len
    BY <2>1, <2>2, <2>3 DEF Window
  <2>5. /\ other' \in [pos : 0 .. Capacity, len : 0 .. Capacity]
        /\ other'.pos <= other'.len
    BY <2>1, <2>2
  <2> QED BY <2>1, <2>4, <2>5 DEF ViewsInv, Fits
<1>5. CASE ViewAfterClose
  BY <1>5 DEF ViewAfterClose, vars, ViewsInv
<1> QED BY <1>1, <1>2, <1>3, <1>4, <1>5 DEF ViewsNext

LEMMA ViewsInvIsInvariant == ViewsSpec => []ViewsInv
  BY ViewsInitHasInv, ViewsNextKeepsInv, PTL DEF ViewsSpec

(***************************************************************************)
(* What follows from it.                                                   *)
(***************************************************************************)
\* Every step with one view is one of module Reader, or leaves it alone.
LEMMA OneViewSteps ==
  ASSUME ViewsInv, [ViewsNext]_viewVars, views = 1
  PROVE  [Next]_vars
<1>1. CASE Use
  <2>1. ASSUME FileRead PROVE Next
    <3>1. "EOF" \in SourceStatuses /\ "IO" \in SourceStatuses
      BY DEF SourceStatuses
    <3> QED BY <2>1, <3>1, FileReadCases DEF Next, Ask
  <2>2. ReadAfterClose \/ Close => UNCHANGED vars
    BY DEF ReadAfterClose, Close
  <2> QED BY <1>1, <2>1, <2>2 DEF Use, FileNext, Next
<1>2. CASE UNCHANGED viewVars
  BY <1>2 DEF viewVars, fileVars
<1>3. ~ Change /\ ~ View /\ ~ ViewAfterClose
  BY DEF Change, View, ViewAfterClose
<1> QED BY <1>1, <1>2, <1>3 DEF ViewsNext

(***************************************************************************)
(* One view, as the abstract stream sees it.                               *)
(***************************************************************************)
\* With one view the window shows the stream, as in module Reader.
OneInv == ViewsInv /\ (views = 1 => Inv)

LEMMA OneInvIsInvariant == ViewsSpec => []OneInv
<1>1. ViewsInit => OneInv
  BY ViewsInitHasInv, InitHasInv DEF ViewsInit, FileInit, OneInv
<1>2. ASSUME OneInv, [ViewsNext]_viewVars
      PROVE  OneInv'
  <2>1. ViewsInv'
    BY <1>2, ViewsNextKeepsInv DEF OneInv
  <2>2. views' = views
    BY <1>2 DEF ViewsNext, Use, Change, View, ViewAfterClose, viewVars
  <2>3. ASSUME views = 1 PROVE Inv'
    <3>1. [Next]_vars
      BY <1>2, <2>3, OneViewSteps DEF OneInv
    <3> QED BY <1>2, <2>3, <3>1, NextKeepsInv DEF OneInv
  <2> QED BY <2>1, <2>2, <2>3 DEF OneInv
<1> QED BY <1>1, <1>2, PTL DEF ViewsSpec

\* Where the caller and the file are in the stream.
LEMMA StreamPlace ==
  ASSUME Inv
  PROVE  /\ Stream!Position = Handed /\ Handed \in Nat
         /\ Stream!Ahead = Available(reader) /\ Available(reader) \in 0 .. Capacity
         /\ delivered \in Nat /\ delivered = Handed + Available(reader)
<1>1. /\ delivered \in Nat /\ delivered <= StreamLen /\ Shows(reader, delivered)
  BY StreamLenAssumption DEF Inv
<1>2. Available(reader) \in 0 .. Capacity /\ Available(reader) <= delivered
  BY <1>1, WindowShape
<1>3. Handed \in Nat /\ 0 + Handed <= StreamLen /\ delivered = Handed + Available(reader)
  BY <1>1, <1>2, CapacityAssumption, StreamLenAssumption DEF Handed
<1>4. Len(taken) = Handed
  BY <1>3, StretchIsSeq DEF Inv
<1>5. Stream!Position = Handed
  BY <1>4 DEF Stream!Position
<1>6. Stream!Ahead = delivered - Handed
  BY <1>5 DEF Stream!Ahead
<1> QED BY <1>1, <1>2, <1>3, <1>5, <1>6, CapacityAssumption

\* An unread byte of the window is one of the stream.
LEMMA StreamByte ==
  ASSUME Inv, NEW r, Shows(r, delivered), Available(r) = Available(reader),
         NEW k \in 0 .. Available(reader) - 1
  PROVE  r.data[r.pos + k] = Handed + (k + 1)
<1>1. /\ delivered \in Nat /\ r.pos \in Nat /\ r.len \in Nat
      /\ Available(reader) = r.len - r.pos
  BY StreamPlace, WindowShape, CapacityAssumption
<1>2. Handed = delivered - (r.len - r.pos)
  BY <1>1 DEF Handed
<1>3. r.pos + k \in r.pos .. r.len - 1
  BY <1>1
<1>4. r.data[r.pos + k] = (delivered - r.len) + ((r.pos + k) + 1)
  BY <1>3 DEF Shows
<1> HIDE DEF Handed
<1> QED BY <1>1, <1>2, <1>4

\* memchr finds the delimiters of the stream that are fetched and not read.
LEMMA StreamFound ==
  ASSUME Inv
  PROVE  /\ \A k \in Hits(reader) : Handed + (k + 1) \in Stream!Found
         /\ \A p \in Stream!Found : p - (Handed + 1) \in Hits(reader)
<1>1. /\ Stream!Position = Handed /\ Handed \in Nat
      /\ Available(reader) \in 0 .. Capacity /\ delivered = Handed + Available(reader)
  BY StreamPlace
<1>2. Shows(reader, delivered) /\ delims \subseteq 1 .. StreamLen /\ Capacity \in Nat
  BY CapacityAssumption DEF Inv
<1>3. \A k \in 0 .. Available(reader) - 1 : reader.data[reader.pos + k] = Handed + (k + 1)
  BY <1>2, StreamByte
<1>4. ASSUME NEW k \in Hits(reader)
      PROVE  Handed + (k + 1) \in Stream!Found
  <2>1. k \in 0 .. Available(reader) - 1 /\ Handed + (k + 1) \in delims
    BY <1>3 DEF Hits
  <2>2. Handed < Handed + (k + 1) /\ Handed + (k + 1) <= delivered
    BY <1>1, <2>1, CapacityAssumption
  <2> QED BY <1>1, <2>1, <2>2 DEF Stream!Found
<1>5. ASSUME NEW p \in Stream!Found
      PROVE  p - (Handed + 1) \in Hits(reader)
  <2>1. p \in delims /\ p \in Int /\ Handed < p /\ p <= delivered
    BY <1>1, <1>2 DEF Stream!Found
  <2>2. /\ p - (Handed + 1) \in 0 .. Available(reader) - 1
        /\ Handed + ((p - (Handed + 1)) + 1) = p
    BY <1>1, <1>2, <2>1
  <2> QED BY <1>3, <2>1, <2>2 DEF Hits
<1> QED BY <1>4, <1>5

\* The window is refilled exactly when the stream is asked for more.
LEMMA StreamWanting ==
  ASSUME Inv
  PROVE  Stream!Wanting <=> ~ Ready
<1>1. /\ Stream!Ahead = Available(reader) /\ Available(reader) \in 0 .. Capacity
      /\ Capacity \in Nat /\ call \in Calls
  BY StreamPlace, CapacityAssumption DEF Inv
<1>2. Stream!Found = {} <=> Hits(reader) = {}
  BY StreamFound
<1>3. CASE call.op = "byte"
  BY <1>1, <1>3 DEF Stream!Wanting, Ready
<1>4. CASE call.op = "array"
  <2>1. call.count \in 0 .. Capacity
    BY <1>1 DEF Calls
  <2> QED BY <1>1, <1>4, <2>1 DEF Stream!Wanting, Ready
<1>5. CASE call.op = "delimiter"
  BY <1>1, <1>2, <1>5 DEF Stream!Wanting, Ready
<1>6. CASE call.op = "none"
  BY <1>6 DEF Stream!Wanting, Ready
<1>7. call.op \in {"none", "byte", "array", "delimiter"}
  BY <1>1 DEF Calls
<1> QED BY <1>3, <1>4, <1>5, <1>6, <1>7

\* A cursor over the window is the next bytes of the stream.
LEMMA HandGives ==
  ASSUME Inv, NEW r, Shows(r, delivered), Available(r) = Available(reader),
         NEW n \in 0 .. Available(reader), Hand(r, n),
         UNCHANGED <<delims, delivered, ferror, open, panicked>>
  PROVE  Stream!Give(n)
<1>1. Stream!Position = Handed /\ Handed \in Nat /\ Available(reader) \in 0 .. Capacity
  BY StreamPlace
<1>2. /\ r.pos \in Nat /\ Capacity \in Nat
  BY StreamPlace, WindowShape, CapacityAssumption
<1>3. ASSUME NEW k \in 1 .. n
      PROVE  r.data[r.pos + k - 1] = Handed + k
  <2>1. k - 1 \in 0 .. Available(reader) - 1
    BY <1>1, <1>2
  <2>2. r.data[r.pos + (k - 1)] = Handed + ((k - 1) + 1)
    BY <2>1, StreamByte
  <2>3. r.pos + (k - 1) = r.pos + k - 1 /\ (k - 1) + 1 = k
    BY <1>2
  <2> QED BY <2>2, <2>3
<1>4. [k \in 1 .. n |-> r.data[r.pos + k - 1]] = [k \in 1 .. n |-> Stream!Position + k]
  BY <1>1, <1>3
<1>5. taken' = taken \o [k \in 1 .. n |-> Stream!Position + k]
  BY <1>4 DEF Hand
<1>6. (result.status)' = "OK" /\ call' = Stream!Idle
  BY DEF Hand, Idle, Stream!Idle
<1> QED BY <1>5, <1>6 DEF Stream!Give

LEMMA FailReports ==
  ASSUME NEW r, NEW st, Fail(r, st), UNCHANGED <<delims, delivered, open, panicked>>
  PROVE  Stream!Report(st)
  BY DEF Fail, Idle, Stream!Report, Stream!Idle

\* The beginning of a call.
LEMMA StartStreams ==
  ASSUME Start, UNCHANGED <<ferror, open, panicked>>, ~ panicked
  PROVE  Stream!Next
<1>1. ASSUME NEW op, NEW n, Begin(op, n)
      PROVE  Stream!Begin(op, n)
  BY <1>1 DEF Begin, Idle, Stream!Begin, Stream!Idle
<1>2. ASSUME NEW n, RefuseArray(n)
      PROVE  Stream!Refuse(n)
  BY <1>2 DEF RefuseArray, Idle, Stream!Refuse, Stream!Idle
<1> QED BY <1>1, <1>2 DEF Start, Stream!Next

\* A call that returns what was fetched.
LEMMA ReturnStreams ==
  ASSUME Inv, Return, UNCHANGED <<ferror, open, panicked>>, ~ panicked
  PROVE  Stream!Next
<1>1. /\ Shows(reader, delivered) /\ call \in Calls /\ (call.op = "byte" => call.count = 1)
      /\ Available(reader) \in 0 .. Capacity /\ Capacity \in Nat
      /\ Stream!Position = Handed /\ Handed \in Nat /\ Stream!Ahead = Available(reader)
  BY StreamPlace, CapacityAssumption DEF Inv
<1>2. ASSUME Ready, call.op \in {"byte", "array"}, Hand(reader, call.count),
             UNCHANGED <<delims, delivered>>
      PROVE  Stream!Take
  <2>1. call.count \in 0 .. Available(reader)
    BY <1>1, <1>2 DEF Ready, Calls
  <2>2. Stream!Give(call.count)
    BY <1>1, <1>2, <2>1, HandGives
  <2>3. ~ Stream!Wanting
    BY <1>2, StreamWanting
  <2> QED BY <1>2, <2>2, <2>3 DEF Stream!Take
<1>3. TakeByte => Stream!Take
  BY <1>1, <1>2 DEF TakeByte
<1>4. TakeArray => Stream!Take
  BY <1>2 DEF TakeArray
<1>5. CASE TakeDelimiter
  <2>1. PICK k \in Hits(reader) :
          (\A j \in Hits(reader) : k <= j) /\ Hand(reader, k + 1)
    BY <1>5 DEF TakeDelimiter
  <2>2. k \in 0 .. Available(reader) - 1
    BY <2>1 DEF Hits
  <2>3. /\ Handed + (k + 1) \in Stream!Found
        /\ \A q \in Stream!Found : q - (Handed + 1) \in Hits(reader)
    BY <2>1, StreamFound
  <2>4. ASSUME NEW q \in Stream!Found PROVE Handed + (k + 1) <= q
    <3>1. q \in Int
      BY DEF Inv, Stream!Found
    <3>2. k <= q - (Handed + 1)
      BY <2>1, <2>3, <2>4
    <3> QED BY <1>1, <2>2, <3>1, <3>2
  <2>5. k + 1 \in 0 .. Available(reader)
    BY <1>1, <2>2
  <2>6. Stream!Give(k + 1)
    BY <1>1, <1>5, <2>1, <2>5, HandGives DEF TakeDelimiter
  <2>7. (Handed + (k + 1)) - Stream!Position = k + 1
    BY <1>1, <2>2
  <2>8. Stream!Segment
    BY <1>5, <2>3, <2>4, <2>6, <2>7 DEF TakeDelimiter, Stream!Segment
  <2> QED BY <2>8 DEF Stream!Next
<1>6. CASE DelimiterTooFar
  <2>1. Stream!Found = {}
    BY <1>6, StreamFound DEF DelimiterTooFar
  <2>2. Stream!Report("OVERFLOW")
    BY <1>6, FailReports DEF DelimiterTooFar
  <2> QED BY <1>1, <1>6, <2>1, <2>2 DEF DelimiterTooFar, Stream!TooLong, Stream!Next
<1> QED BY <1>3, <1>4, <1>5, <1>6 DEF Return, Stream!Next

\* A round in which the file delivers bytes.
LEMMA FillStreams ==
  ASSUME Inv, NEW k, Fill(k), ferror' \in {ferror, TRUE}, open, UNCHANGED <<open, panicked>>,
         ~ panicked
  PROVE  Stream!Next
<1> DEFINE q == Rebase(reader, Required(reader))
<1>1. /\ ~ Ready /\ k \in 1 .. Room(q, MaxRead(reader)) /\ delivered + k <= StreamLen
      /\ delivered' = delivered + k /\ UNCHANGED <<delims, call, result, taken>>
  BY DEF Fill
<1>2. /\ Shows(q, delivered) /\ Available(q) = Available(reader)
      /\ Room(q, MaxRead(reader)) \in 1 .. Capacity - q.len
  BY <1>1, AskHasRoom
<1>3. Room(q, MaxRead(reader)) <= MaxRead(reader) \/ call.op # "array"
  <2>1. ASSUME call.op = "array" PROVE MaxRead(reader) \in Int
    BY <2>1, StreamPlace, CapacityAssumption DEF MaxRead, Inv, Calls
  <2>2. q.len \in Int /\ Capacity \in Int
    BY <1>2, StreamPlace, WindowShape, CapacityAssumption
  <2> HIDE DEF q
  <2> QED BY <2>1, <2>2 DEF Room
<1> HIDE DEF q
<1>4. /\ Stream!Ahead = Available(reader) /\ Available(reader) \in 0 .. Capacity
      /\ Capacity \in Nat /\ delivered \in Nat
  BY StreamPlace, CapacityAssumption
<1>5. q.pos \in Nat /\ q.len \in Nat /\ Available(reader) = q.len - q.pos
  BY <1>2, <1>4, WindowShape, CapacityAssumption
<1>6. k \in 1 .. Capacity /\ Available(reader) + k <= Capacity
  BY <1>1, <1>2, <1>4, <1>5
<1>7. ASSUME call.op = "array" PROVE Available(reader) + k <= call.count
  <2>1. MaxRead(reader) = call.count - Available(reader) /\ call.count \in Nat
    BY <1>7, CapacityAssumption DEF MaxRead, Inv, Calls
  <2> QED BY <1>1, <1>2, <1>3, <1>4, <1>5, <1>7, <2>1
<1>8. Stream!Ahead + k <= Stream!Wanted
  BY <1>4, <1>6, <1>7 DEF Stream!Wanted
<1>9. Stream!Wanting
  BY <1>1, StreamWanting
<1>10. ferror => ferror'
  OBVIOUS
<1>11. Stream!Fetch(k)
  BY <1>1, <1>8, <1>9, <1>10 DEF Stream!Fetch
<1> QED BY <1>6, <1>11 DEF Stream!Next

\* A round in which it delivers none.
LEMMA StopStreams ==
  ASSUME Inv, NEW st \in {"EOF", "IO"}, Stop(st), ferror' \in {ferror, TRUE},
         st = "EOF" => ~ ferror' /\ delivered' = StreamLen, st = "IO" => ferror' = TRUE,
         open, UNCHANGED <<open, panicked>>, ~ panicked
  PROVE  Stream!Next
<1> DEFINE q == Rebase(reader, Required(reader))
<1>1. /\ ~ Ready /\ UNCHANGED <<delims, delivered>>
      /\ IF call.op = "delimiter" /\ st = "EOF" /\ Available(q) > 0
         THEN Hand(q, Available(q)) ELSE Fail(q, st)
  BY DEF Stop
<1>2. Shows(q, delivered) /\ Available(q) = Available(reader)
  BY <1>1, AskHasRoom
<1> HIDE DEF q
<1>3. Stream!Wanting
  BY <1>1, StreamWanting
<1>4. /\ Stream!Ahead = Available(reader) /\ Available(reader) \in 0 .. Capacity
      /\ Capacity \in Nat
  BY StreamPlace, CapacityAssumption
<1>5. CASE st = "IO"
  <2>1. Stream!Report(st)
    BY <1>1, <1>5, FailReports
  <2> QED BY <1>3, <1>5, <2>1 DEF Stream!Fault, Stream!Next
<1>6. CASE st = "EOF"
  <2>1. ~ ferror /\ UNCHANGED ferror /\ delivered = StreamLen
    <3>1. ~ ferror' /\ delivered = StreamLen
      BY <1>1, <1>6
    <3>2. ferror' = ferror
      BY <3>1
    <3> QED BY <3>1, <3>2
  <2>2. Stream!AtEnd
    BY <1>3, <2>1 DEF Stream!AtEnd
  <2>3. CASE call.op = "delimiter" /\ Available(q) > 0
    <3>1. Available(q) \in 0 .. Available(reader)
      BY <1>2, <1>4
    <3>2. Stream!Give(Available(q))
      BY <1>1, <1>2, <1>6, <2>1, <2>3, <3>1, HandGives
    <3> QED BY <1>2, <1>4, <2>2, <2>3, <3>2 DEF Stream!LastSegment, Stream!Next
  <2>4. CASE ~ (call.op = "delimiter" /\ Available(q) > 0)
    <3>1. Stream!Report("EOF")
      BY <1>1, <1>6, <2>4, FailReports
    <3>2. call.op = "delimiter" => Stream!Ahead = 0
      BY <1>2, <1>4, <2>4
    <3> QED BY <2>1, <2>2, <3>1, <3>2 DEF Stream!End, Stream!Next
  <2> QED BY <2>3, <2>4
<1> QED BY <1>5, <1>6

LEMMA OneViewStreams ==
  ASSUME OneInv, [ViewsNext]_viewVars, views = 1
  PROVE  [Stream!Next]_(Stream!vars)
<1>1. Inv /\ ViewsInv
  BY DEF OneInv
<1>2. CASE UNCHANGED viewVars
  BY <1>2 DEF viewVars, fileVars, vars, Stream!vars
<1>3. CASE FileNext
  <2>1. CASE Start /\ UNCHANGED <<ferror, open, panicked>> /\ ~ panicked
    BY <2>1, StartStreams
  <2>2. CASE Return /\ UNCHANGED <<ferror, open, panicked>> /\ ~ panicked
    BY <1>1, <2>2, ReturnStreams
  <2>3. CASE FileRead /\ ~ panicked
    <3>1. open /\ UNCHANGED <<open, panicked>> /\ ~ panicked
      BY <2>3 DEF FileRead
    <3>2. ferror' \in {ferror, TRUE}
      BY <1>1, <2>3, FileReadCases
    <3>3. ASSUME NEW k, Fill(k) PROVE Stream!Next
      BY <1>1, <3>1, <3>2, <3>3, FillStreams
    <3>4. ASSUME NEW st \in {"EOF", "IO"}, Stop(st),
                 st = "EOF" => ~ ferror' /\ delivered' = StreamLen,
                 st = "IO" => ferror' = TRUE
          PROVE  Stream!Next
      BY <1>1, <3>1, <3>2, <3>4, StopStreams
    <3> QED BY <1>1, <2>3, <3>3, <3>4, FileReadCases
  <2>4. CASE ReadAfterClose /\ ~ panicked
    <3>1. Stream!Wanting
      BY <1>1, <2>4, StreamWanting DEF ReadAfterClose
    <3> QED BY <2>4, <3>1 DEF ReadAfterClose, vars, Stream!Abort, Stream!Next
  <2>5. CASE Close /\ ~ panicked
    BY <2>5 DEF Close, vars, Idle, Stream!Close, Stream!Idle, Stream!Next
  <2> QED BY <1>3, <2>1, <2>2, <2>3, <2>4, <2>5 DEF FileNext
<1>4. ~ Change /\ ~ View /\ ~ ViewAfterClose
  BY DEF Change, View, ViewAfterClose
<1> QED BY <1>2, <1>3, <1>4 DEF ViewsNext, Use

\* OneViewReadsTheFile of FileReaderViews: through every short read, failure,
\* compaction and close, a caller with one view takes the bytes of the file each
\* once and in order, in the pieces asked for; is told of the end only there and
\* of every fault; and a call that needs what was not fetched before the close
\* aborts, while one that needs nothing more still works.
THEOREM OneView == ViewsSpec => OneViewReadsTheFile
<1>1. ViewsInit => Stream!Init
  BY DEF ViewsInit, FileInit, Init, Idle, Stream!Init, Stream!Idle
<1>2. OneInv /\ [ViewsNext]_viewVars => [views = 1 => Stream!Next]_(Stream!vars)
  BY OneViewStreams
<1> QED BY <1>1, <1>2, OneInvIsInvariant, PTL DEF ViewsSpec, OneViewReadsTheFile

\* What FailureIsNeverTheEnd says of a step.
FailureStep ==
  call # Idle /\ call' = Idle /\ result'.status = "EOF" => ~ ferror' /\ delivered' = StreamLen

LastStep ==
  call.op = "delimiter" /\ call' = Idle /\ result'.status = "OK" =>
    \/ reader'.data[result'.at + result'.n - 1] \in delims
    \/ ~ ferror' /\ delivered' = StreamLen /\ reader'.pos = reader'.len

\* A call that ends without asking the file gives no status "EOF", and its
\* segment, if it is one, ends in a delimiter.
LEMMA ReturnSteps ==
  ASSUME ViewsInv, Return
  PROVE  FailureStep /\ LastStep
<1>1. CASE TakeByte \/ TakeArray
  BY <1>1 DEF TakeByte, TakeArray, Hand, FailureStep, LastStep
<1>2. CASE DelimiterTooFar
  BY <1>2 DEF DelimiterTooFar, Fail, FailureStep, LastStep
<1>3. CASE TakeDelimiter
  <2>1. PICK k \in Hits(reader) : Hand(reader, k + 1)
    BY <1>3 DEF TakeDelimiter
  <2>2. /\ reader = [data |-> reader.data, pos |-> reader.pos, len |-> reader.len]
        /\ reader.pos \in Nat /\ Available(reader) \in Int
    BY FitsShape, CapacityAssumption DEF ViewsInv
  <2>3. k \in Nat /\ reader.data[reader.pos + k] \in delims
    BY <2>1, <2>2 DEF Hits
  <2>4. /\ result'.at = reader.pos /\ result'.n = k + 1 /\ result'.status = "OK"
        /\ reader'.data = reader.data
    BY <2>1, <2>2 DEF Hand
  <2>5. reader.pos + (k + 1) - 1 = reader.pos + k
    BY <2>2, <2>3
  <2> QED BY <2>3, <2>4, <2>5 DEF FailureStep, LastStep
<1> QED BY <1>1, <1>2, <1>3 DEF Return

LEMMA StopSteps ==
  ASSUME ViewsInv, NEW st \in {"EOF", "IO"}, Stop(st),
         st = "EOF" => ~ ferror' /\ delivered' = StreamLen
  PROVE  FailureStep /\ LastStep
<1> DEFINE q == Rebase(reader, Required(reader))
<1>1. /\ ~ Ready
      /\ \/ st = "EOF" /\ Hand(q, Available(q))
         \/ Fail(q, st)
  BY DEF Stop
<1>2. Fits(q)
  BY <1>1, AskedIsRoom
<1> HIDE DEF q
<1>3. CASE Fail(q, st)
  BY <1>3 DEF Fail, FailureStep, LastStep
<1>4. CASE st = "EOF" /\ Hand(q, Available(q))
  <2>1. /\ q.pos \in Nat /\ q.len \in Nat
        /\ Available(q) = q.len - q.pos /\ Available(q) \in 0 .. Available(q)
    BY <1>2, FitsShape, CapacityAssumption
  <2>2. reader'.pos = q.pos + Available(q) /\ reader'.len = q.len
    BY <1>2, <1>4, <2>1, HandFits
  <2>3. reader'.pos = reader'.len
    BY <2>1, <2>2
  <2> QED BY <1>4, <2>3 DEF FailureStep, LastStep
<1> QED BY <1>1, <1>3, <1>4

LEMMA ViewsSteps ==
  ASSUME ViewsInv, [ViewsNext]_viewVars
  PROVE  FailureStep /\ LastStep
<1>1. call = Idle => call.op # "delimiter"
  BY DEF Idle
<1>2. CASE call = Idle \/ call' = call
  BY <1>1, <1>2 DEF FailureStep, LastStep
<1>3. CASE Return
  BY <1>3, ReturnSteps
<1>4. CASE FileRead
  <2>1. ASSUME NEW k, Fill(k) PROVE call' = call
    BY <2>1 DEF Fill
  <2> QED BY <1>2, <1>4, <2>1, FileReadCases, StopSteps
<1>5. Start => call = Idle
  BY DEF Start, Begin, RefuseArray
<1>6. \/ Change \/ View \/ ViewAfterClose \/ Close \/ ReadAfterClose
      \/ UNCHANGED viewVars
      => call' = call
  BY DEF Change, View, ViewAfterClose, Close, ReadAfterClose, viewVars, fileVars, vars
<1> QED BY <1>2, <1>3, <1>4, <1>5, <1>6 DEF ViewsNext, Use, FileNext

\* FailureIsNeverTheEnd of FileReader: however often the file fails and goes on,
\* no view takes its failure for its end, neither as a status nor as a last
\* segment without its delimiter.
THEOREM FailureIsNotTheEnd == ViewsSpec => FailureIsNeverTheEnd
<1>1. ViewsInv /\ [ViewsNext]_viewVars => [FailureStep]_fileVars /\ [LastStep]_fileVars
  BY ViewsSteps
<1>2. ErrorIsNeverEof <=> [][FailureStep]_fileVars
  BY DEF ErrorIsNeverEof, FailureStep
<1>3. LastSegmentIsTheEnd <=> [][LastStep]_fileVars
  BY DEF LastSegmentIsTheEnd, LastStep
<1> QED
  BY <1>1, <1>2, <1>3, ViewsInvIsInvariant, PTL DEF ViewsSpec, FailureIsNeverTheEnd

(***************************************************************************)
(* Which bytes the views have.  t is what was handed out, w the unread     *)
(* window of the view in use and v that of the other one, of the d bytes   *)
(* the file has delivered.                                                 *)
(***************************************************************************)
Rising(w) == \A i, j \in 1 .. Len(w) : i < j => w[i] < w[j]

Apart(s, w) == \A i \in 1 .. Len(s), j \in 1 .. Len(w) : s[i] # w[j]

Has(s, b) == \E i \in 1 .. Len(s) : s[i] = b

Parted(t, w, v, d) ==
  /\ Rising(w) /\ Rising(v)
  /\ Apart(t, w) /\ Apart(t, v) /\ Apart(w, v)
  /\ \A b \in 1 .. d : Has(t, b) \/ Has(w, b) \/ Has(v, b)
  /\ Len(t) + Len(w) + Len(v) = d

\* n bytes of w are handed out.
Handing(t, w, n, tt, ww) ==
  /\ Len(tt) = Len(t) + n /\ Len(ww) = Len(w) - n
  /\ \A i \in 1 .. Len(t) : tt[i] = t[i]
  /\ \A i \in 1 .. n : tt[Len(t) + i] = w[i]
  /\ \A i \in 1 .. Len(ww) : ww[i] = w[n + i]

\* k more bytes come behind w.
Coming(w, d, k, ww) ==
  /\ Len(ww) = Len(w) + k
  /\ \A i \in 1 .. Len(w) : ww[i] = w[i]
  /\ \A i \in 1 .. k : ww[Len(w) + i] = d + i

LEMMA HandingParts ==
  ASSUME NEW d \in Nat, NEW t \in Seq(1 .. d), NEW w \in Seq(1 .. d), NEW v \in Seq(1 .. d),
         Parted(t, w, v, d), NEW n \in 0 .. Len(w),
         NEW tt \in Seq(1 .. d), NEW ww \in Seq(1 .. d), Handing(t, w, n, tt, ww)
  PROVE  Parted(tt, ww, v, d)
<1>1. PICK a, b, c : a = Len(t) /\ b = Len(w) /\ c = Len(v)
  OBVIOUS
<1>2. /\ a \in Nat /\ b \in Nat /\ c \in Nat /\ n \in 0 .. b
      /\ Len(tt) = a + n /\ Len(ww) = b - n
      /\ \A i \in 1 .. b : w[i] \in 1 .. d
  BY <1>1, LenProperties, ElementOfSeq DEF Handing
<1>3. /\ \A i, j \in 1 .. b : i < j => w[i] < w[j]
      /\ \A i \in 1 .. a, j \in 1 .. b : t[i] # w[j]
      /\ \A i \in 1 .. a, j \in 1 .. c : t[i] # v[j]
      /\ \A i \in 1 .. b, j \in 1 .. c : w[i] # v[j]
      /\ \A x \in 1 .. d : Has(t, x) \/ Has(w, x) \/ Has(v, x)
      /\ a + b + c = d
  BY <1>1 DEF Parted, Rising, Apart
<1>4. /\ \A i \in 1 .. a : i \in 1 .. a + n /\ tt[i] = t[i]
      /\ \A i \in 1 .. n : i \in 1 .. b /\ a + i \in 1 .. a + n /\ tt[a + i] = w[i]
      /\ \A i \in 1 .. b - n : n + i \in 1 .. b /\ ww[i] = w[n + i]
  <2>1. /\ \A i \in 1 .. a : i \in 1 .. a + n
        /\ \A i \in 1 .. n : i \in 1 .. b /\ a + i \in 1 .. a + n
        /\ \A i \in 1 .. b - n : n + i \in 1 .. b
    BY <1>2
  <2>2. /\ \A i \in 1 .. a : tt[i] = t[i]
        /\ \A i \in 1 .. n : tt[a + i] = w[i]
        /\ \A i \in 1 .. Len(ww) : ww[i] = w[n + i]
    BY <1>1 DEF Handing
  <2>3. Len(ww) = b - n
    BY <1>2
  <2> QED BY <2>1, <2>2, <2>3
<1>5. \A i \in 1 .. a + n : i \in 1 .. a \/ (i - a \in 1 .. n /\ a + (i - a) = i)
  BY <1>2
<1>6. \A i \in 1 .. a + n :
        \/ i \in 1 .. a /\ tt[i] = t[i]
        \/ \E j \in 1 .. n : j \in 1 .. b /\ tt[i] = w[j]
  BY <1>4, <1>5, ZenonT(30)
<1>7. Rising(ww)
  <2>1. \A i, j \in 1 .. b - n : i < j => n + i < n + j
    BY <1>2
  <2> QED BY <1>2, <1>3, <1>4, <2>1 DEF Rising
<1>8. Apart(ww, v)
  BY <1>1, <1>2, <1>3, <1>4 DEF Apart
<1>9. Apart(tt, v)
  <2>1. ASSUME NEW i \in 1 .. a + n, NEW j \in 1 .. c
        PROVE  tt[i] # v[j]
    BY <1>3, <1>6
  <2>2. Len(tt) = a + n /\ Len(v) = c
    BY <1>1, <1>2
  <2> QED BY <2>1, <2>2 DEF Apart
<1>10. Apart(tt, ww)
  <2>1. ASSUME NEW j \in 1 .. n, NEW i \in 1 .. b - n
        PROVE  w[j] < w[n + i] /\ w[j] \in Int /\ w[n + i] \in Int
    <3>1. j \in 1 .. b /\ n + i \in 1 .. b /\ j < n + i
      BY <1>2
    <3>2. w[j] < w[n + i]
      BY <1>3, <3>1
    <3>3. w[j] \in 1 .. d /\ w[n + i] \in 1 .. d
      BY <1>2, <3>1
    <3> QED BY <3>2, <3>3, SMTT(20)
  <2>2. ASSUME NEW i \in 1 .. a + n, NEW j \in 1 .. b - n
        PROVE  tt[i] # w[n + j]
    <3>1. CASE i \in 1 .. a /\ tt[i] = t[i]
      <4>1. n + j \in 1 .. b
        BY <1>4
      <4> QED BY <1>3, <3>1, <4>1
    <3>2. ASSUME NEW m \in 1 .. n, tt[i] = w[m]
          PROVE  tt[i] # w[n + j]
      <4>1. w[m] < w[n + j] /\ w[m] \in Int /\ w[n + j] \in Int
        BY <2>1
      <4> QED BY <3>2, <4>1
    <3> QED BY <1>6, <3>1, <3>2
  <2>3. Len(tt) = a + n /\ Len(ww) = b - n /\ \A i \in 1 .. b - n : ww[i] = w[n + i]
    BY <1>2, <1>4
  <2> QED BY <2>2, <2>3 DEF Apart
<1>11. \A x : Has(t, x) => Has(tt, x)
  BY <1>1, <1>2, <1>4 DEF Has
<1>12. \A x : Has(w, x) => Has(tt, x) \/ Has(ww, x)
  <2>1. \A i \in 1 .. b : i \in 1 .. n \/ (i - n \in 1 .. b - n /\ n + (i - n) = i)
    BY <1>2
  <2>2. \A i \in 1 .. b : \/ \E j \in 1 .. a + n : tt[j] = w[i]
                          \/ \E j \in 1 .. b - n : ww[j] = w[i]
    BY <1>4, <2>1
  <2> QED BY <1>1, <1>2, <2>2 DEF Has
<1>13. \A x \in 1 .. d : Has(tt, x) \/ Has(ww, x) \/ Has(v, x)
  BY <1>3, <1>11, <1>12
<1>14. Len(tt) + Len(ww) + Len(v) = d
  <2>1. a + b + c = d
    BY <1>3
  <2>2. (a + n) + (b - n) + c = d
    <3>1. a \in Nat /\ b \in Nat /\ c \in Nat /\ n \in Nat
      BY <1>2
    <3> QED BY <2>1, <3>1
  <2>3. Len(tt) = a + n /\ Len(ww) = b - n /\ Len(v) = c
    BY <1>1, <1>2
  <2> QED BY <2>2, <2>3
<1> QED BY <1>7, <1>8, <1>9, <1>10, <1>13, <1>14 DEF Parted

LEMMA ComingParts ==
  ASSUME NEW d \in Nat, NEW t \in Seq(1 .. d), NEW w \in Seq(1 .. d), NEW v \in Seq(1 .. d),
         Parted(t, w, v, d), NEW k \in Nat, NEW ww, Coming(w, d, k, ww)
  PROVE  Parted(t, ww, v, d + k)
<1>1. PICK a, b, c : a = Len(t) /\ b = Len(w) /\ c = Len(v)
  OBVIOUS
<1>2. /\ a \in Nat /\ b \in Nat /\ c \in Nat /\ Len(ww) = b + k
      /\ \A i \in 1 .. a : t[i] \in 1 .. d
      /\ \A i \in 1 .. b : w[i] \in 1 .. d
      /\ \A i \in 1 .. c : v[i] \in 1 .. d
  BY <1>1, LenProperties, ElementOfSeq DEF Coming
<1>3. /\ \A i, j \in 1 .. b : i < j => w[i] < w[j]
      /\ \A i \in 1 .. a, j \in 1 .. b : t[i] # w[j]
      /\ \A i \in 1 .. b, j \in 1 .. c : w[i] # v[j]
      /\ \A x \in 1 .. d : Has(t, x) \/ Has(w, x) \/ Has(v, x)
      /\ a + b + c = d
      /\ Apart(t, v) /\ Rising(v)
  BY <1>1 DEF Parted, Rising, Apart
<1>4. /\ \A i \in 1 .. b : ww[i] = w[i] /\ i \in 1 .. b + k
      /\ \A i \in 1 .. k : ww[b + i] = d + i /\ b + i \in 1 .. b + k
  <2>1. /\ \A i \in 1 .. b : i \in 1 .. b + k
        /\ \A i \in 1 .. k : b + i \in 1 .. b + k
    BY <1>2
  <2>2. /\ \A i \in 1 .. b : ww[i] = w[i]
        /\ \A i \in 1 .. k : ww[b + i] = d + i
    BY <1>1 DEF Coming
  <2> QED BY <2>1, <2>2
<1>5. \A i \in 1 .. b + k :
        \/ i \in 1 .. b /\ ww[i] = w[i] /\ ww[i] \in 1 .. d
        \/ i - b \in 1 .. k /\ ww[i] = d + (i - b)
  <2>1. \A i \in 1 .. b + k : i \in 1 .. b \/ (i - b \in 1 .. k /\ b + (i - b) = i)
    BY <1>2
  <2> QED BY <1>2, <1>4, <2>1
<1>6. Rising(ww)
  <2>1. ASSUME NEW i \in 1 .. b + k, NEW j \in 1 .. b + k, i < j
        PROVE  ww[i] < ww[j]
    <3>1. CASE j \in 1 .. b
      <4>1. i \in 1 .. b
        BY <1>2, <2>1, <3>1
      <4> QED BY <1>3, <1>4, <2>1, <3>1, <4>1
    <3>2. CASE j \notin 1 .. b /\ i \in 1 .. b
      <4>1. ww[i] \in 1 .. d /\ j - b \in 1 .. k /\ ww[j] = d + (j - b)
        BY <1>2, <1>4, <1>5, <3>2
      <4> QED BY <4>1
    <3>3. CASE j \notin 1 .. b /\ i \notin 1 .. b
      <4>1. ww[i] = d + (i - b) /\ ww[j] = d + (j - b)
        BY <1>5, <3>3
      <4> QED BY <1>2, <2>1, <4>1
    <3> QED BY <3>1, <3>2, <3>3
  <2> QED BY <1>2, <2>1 DEF Rising
<1>7. \A i \in 1 .. b + k : \A x \in 1 .. d :
        ww[i] = x => i \in 1 .. b /\ ww[i] = w[i]
  <2>1. \A i \in 1 .. b + k : i - b \in 1 .. k => d + (i - b) \notin 1 .. d
    BY <1>2
  <2> QED BY <1>5, <2>1
<1>8. Apart(t, ww) /\ Apart(ww, v)
  BY <1>1, <1>2, <1>3, <1>7, ZenonT(30) DEF Apart
<1>9. \A x \in 1 .. d + k : Has(t, x) \/ Has(ww, x) \/ Has(v, x)
  <2>1. \A x : Has(w, x) => Has(ww, x)
    BY <1>1, <1>2, <1>4 DEF Has
  <2>2. \A x \in 1 .. d + k : x \in 1 .. d \/ (x - d \in 1 .. k /\ d + (x - d) = x)
    OBVIOUS
  <2>3. \A i \in 1 .. k : Has(ww, d + i)
    BY <1>2, <1>4 DEF Has
  <2> QED BY <1>3, <2>1, <2>2, <2>3, ZenonT(30)
<1>10. Len(t) + Len(ww) + Len(v) = d + k
  <2>1. a + b + c = d /\ a \in Nat /\ b \in Nat /\ c \in Nat
    BY <1>2, <1>3
  <2>2. a + (b + k) + c = d + k
    BY <2>1
  <2>3. Len(t) = a /\ Len(ww) = b + k /\ Len(v) = c
    BY <1>1, <1>2
  <2> QED BY <2>2, <2>3
<1> QED BY <1>3, <1>6, <1>8, <1>9, <1>10 DEF Parted

\* Views change places.
LEMMA ChangeParts ==
  ASSUME NEW d \in Nat, NEW t, NEW w \in Seq(1 .. d), NEW v \in Seq(1 .. d),
         Len(t) \in Nat, Parted(t, w, v, d)
  PROVE  Parted(t, v, w, d)
<1>1. Apart(v, w)
  BY DEF Parted, Apart
<1>2. Len(t) + Len(v) + Len(w) = d
  <2>1. Len(w) \in Nat /\ Len(v) \in Nat
    OBVIOUS
  <2> QED BY <2>1 DEF Parted
<1> QED BY <1>1, <1>2 DEF Parted

LEMMA Least ==
  ASSUME NEW T, T \subseteq Nat, T # {}
  PROVE  \E m \in T : \A k \in T : m <= k
<1>1. PICK m \in T : \A k \in T : <<k, m>> \notin OpToRel(<, Nat)
  BY WFMin, NatLessThanWellFounded, Zenon
<1>2. m \in Nat /\ \A k \in T : k \in Nat
  OBVIOUS
<1>3. \A k \in T : ~ (k < m)
  BY <1>1, <1>2, Zenon DEF OpToRel
<1> QED BY <1>2, <1>3

\* When the other view has nothing to read and the first bytes were handed out,
\* the view in use has those that come next, in order.
LEMMA PartedInOrder ==
  ASSUME NEW d \in Nat, NEW t \in Seq(1 .. d), NEW w \in Seq(1 .. d), NEW v,
         Parted(t, w, v, d), Len(v) = 0, \A i \in 1 .. Len(t) : t[i] = i
  PROVE  \A j \in 1 .. Len(w) : w[j] = Len(t) + j
<1>1. PICK a, b : a = Len(t) /\ b = Len(w)
  OBVIOUS
<1>2. /\ a \in Nat /\ b \in Nat /\ a + b = d
      /\ \A i \in 1 .. b : w[i] \in 1 .. d
      /\ \A i, j \in 1 .. b : i < j => w[i] < w[j]
      /\ \A i \in 1 .. a, j \in 1 .. b : i # w[j]
  <2>1. a \in Nat /\ b \in Nat /\ \A i \in 1 .. b : w[i] \in 1 .. d
    BY <1>1, LenProperties, ElementOfSeq
  <2> QED BY <1>1, <2>1 DEF Parted, Rising, Apart
<1>3. \A x \in a + 1 .. d : \E i \in 1 .. b : w[i] = x
  <2>1. \A x \in 1 .. d : ~ Has(v, x)
    BY DEF Has
  <2>2. \A x \in a + 1 .. d : x \in 1 .. d /\ x \notin 1 .. a
    BY <1>2
  <2>3. \A x : x \notin 1 .. a => ~ Has(t, x)
    BY <1>1 DEF Has
  <2> QED BY <1>1, <2>1, <2>2, <2>3 DEF Parted, Has
<1> DEFINE T == {j \in 1 .. b : w[j] # a + j}
<1>4. ASSUME T # {} PROVE FALSE
  <2>1. T \subseteq Nat
    OBVIOUS
  <2>2. PICK j \in T : \A i \in T : j <= i
    BY <1>4, <2>1, Least
  <2>3. j \in 1 .. b /\ w[j] # a + j
    OBVIOUS
  <2>4. \A i \in 1 .. b : i < j => w[i] = a + i
    BY <2>2, <2>3
  <2> HIDE DEF T
  <2>5. w[j] \in 1 .. d /\ w[j] \notin 1 .. a
    BY <1>2, <2>3
  <2>6. w[j] >= a + j
    <3>1. CASE j = 1
      BY <1>2, <2>5, <3>1
    <3>2. CASE j # 1
      <4>1. j - 1 \in 1 .. b /\ j - 1 < j
        BY <1>2, <2>3, <3>2
      <4>2. w[j - 1] = a + (j - 1) /\ w[j - 1] < w[j]
        BY <1>2, <2>3, <2>4, <4>1
      <4> QED BY <1>2, <2>3, <2>5, <4>2
    <3> QED BY <3>1, <3>2
  <2>7. a + j \in a + 1 .. d /\ a + j < w[j]
    <3>1. PICK x : x = w[j]
      OBVIOUS
    <3>2. x \in 1 .. d /\ x >= a + j /\ x # a + j /\ a \in Nat /\ j \in Nat /\ j > 0
      BY <1>2, <2>3, <2>5, <2>6, <3>1
    <3>3. a + j \in a + 1 .. d /\ a + j < x
      BY <3>2
    <3> QED BY <3>1, <3>3
  <2>8. PICK i \in 1 .. b : w[i] = a + j
    BY <1>3, <2>7
  <2>9. ~ (i < j)
    BY <1>2, <2>3, <2>4, <2>8
  <2>10. i = j \/ w[j] < w[i]
    BY <1>2, <2>3, <2>9
  <2> QED BY <1>2, <2>3, <2>5, <2>7, <2>8, <2>10
<1> QED BY <1>1, <1>4

\* The bytes in the cells from p to l of a buffer.
Cells(data, p, l) == [k \in 1 .. l - p |-> data[p + k - 1]]

LEMMA CellsAt ==
  ASSUME NEW data, NEW p \in Nat, NEW l \in Nat, p <= l
  PROVE  \A k \in 1 .. l - p : Cells(data, p, l)[k] = data[p + (k - 1)]
<1>1. \A k \in 1 .. l - p : p + k - 1 = p + (k - 1)
  OBVIOUS
<1> QED BY <1>1 DEF Cells

LEMMA CellsIn ==
  ASSUME NEW data, NEW p \in Nat, NEW l \in Nat, p <= l, NEW S,
         \A i \in p .. l - 1 : data[i] \in S
  PROVE  Cells(data, p, l) \in Seq(S)
<1>1. \A k \in 1 .. l - p : p + k - 1 \in p .. l - 1
  OBVIOUS
<1>2. Cells(data, p, l) \in [1 .. l - p -> S]
  BY <1>1 DEF Cells
<1>3. l - p \in Nat
  OBVIOUS
<1> QED BY <1>2, <1>3, SeqDef

LEMMA CellsOf ==
  ASSUME NEW data, NEW p \in Nat, NEW l \in Nat, p <= l, NEW S,
         Cells(data, p, l) \in Seq(S)
  PROVE  /\ Len(Cells(data, p, l)) = l - p
         /\ \A i \in p .. l - 1 : data[i] \in S
<1>1. PICK c, n : c = Cells(data, p, l) /\ n = l - p
  OBVIOUS
<1>2. n \in Nat /\ c \in Seq(S)
  BY <1>1
<1>3. Len(c) = n
  <2>1. DOMAIN c = 1 .. n
    BY <1>1 DEF Cells
  <2>2. DOMAIN c = 1 .. Len(c) /\ Len(c) \in Nat
    BY <1>2, LenProperties
  <2> QED BY <1>2, <2>1, <2>2
<1>4. \A k \in 1 .. n : c[k] \in S
  BY <1>2, <1>3, ElementOfSeq
<1>5. \A k \in 1 .. n : c[k] = data[p + (k - 1)]
  BY <1>1, CellsAt
<1>6. \A i \in p .. l - 1 : (i - p) + 1 \in 1 .. n /\ p + (((i - p) + 1) - 1) = i
  BY <1>1
<1> QED BY <1>1, <1>3, <1>4, <1>5, <1>6

\* What a view has to read are the cells of its window.
LEMMA WindowCells ==
  /\ \A r : Buffered(r) = Cells(r.data, r.pos, r.len)
  /\ Waiting = Cells(reader.data, other.pos, other.len)
BY DEF Buffered, Available, Waiting, Cells

LEMMA BufferedAre ==
  ASSUME NEW r, Fits(r), NEW S
  PROVE  /\ (\A i \in r.pos .. r.len - 1 : r.data[i] \in S) => Buffered(r) \in Seq(S)
         /\ Buffered(r) \in Seq(S) => Len(Buffered(r)) = Available(r)
         /\ \A k \in 1 .. Available(r) : Buffered(r)[k] = r.data[r.pos + (k - 1)]
<1>1. /\ r.pos \in Nat /\ r.len \in Nat /\ r.pos <= r.len
      /\ Available(r) = r.len - r.pos
  BY FitsShape, CapacityAssumption
<1>2. PICK p, l, data : p = r.pos /\ l = r.len /\ data = r.data
  OBVIOUS
<1>3. p \in Nat /\ l \in Nat /\ p <= l
  BY <1>1, <1>2
<1>4. Buffered(r) = Cells(data, p, l)
  BY <1>2, WindowCells
<1>5. (\A i \in p .. l - 1 : data[i] \in S) => Cells(data, p, l) \in Seq(S)
  BY <1>3, CellsIn
<1>6. Cells(data, p, l) \in Seq(S) => Len(Cells(data, p, l)) = l - p
  BY <1>3, CellsOf
<1>7. \A k \in 1 .. l - p : Cells(data, p, l)[k] = data[p + (k - 1)]
  BY <1>3, CellsAt
<1> QED BY <1>1, <1>2, <1>4, <1>5, <1>6, <1>7

\* Every cell of a reader q holds what r has there, or a byte of r's window.
MovesWindow(r, q) ==
  \A i \in 0 .. Capacity - 1 :
    q.data[i] = r.data[i] \/ \E j \in r.pos .. r.len - 1 : q.data[i] = r.data[j]

\* Compaction moves bytes of the window only.
LEMMA RebaseMoves ==
  ASSUME NEW r, Fits(r), NEW req \in Nat, NEW q, q = Rebase(r, req)
  PROVE  /\ Fits(q) /\ Buffered(q) = Buffered(r) /\ Available(q) = Available(r)
         /\ MovesWindow(r, q)
<1>1. /\ Fits(q) /\ Available(q) = Available(r)
      /\ \A i \in 0 .. Available(r) - 1 : q.data[q.pos + i] = r.data[r.pos + i]
  BY RebaseFits
<1>2. /\ r.pos \in Nat /\ r.len \in Nat /\ q.pos \in Nat /\ Capacity \in Nat
      /\ Available(r) = r.len - r.pos /\ Available(r) \in 0 .. Capacity
  BY <1>1, FitsShape, CapacityAssumption
<1>3. Buffered(q) = Buffered(r)
  <2>1. \A k \in 1 .. Available(r) : /\ q.pos + k - 1 = q.pos + (k - 1)
                                     /\ r.pos + k - 1 = r.pos + (k - 1)
                                     /\ k - 1 \in 0 .. Available(r) - 1
    BY <1>2
  <2>2. \A k \in 1 .. Available(r) : q.data[q.pos + k - 1] = r.data[r.pos + k - 1]
    BY <1>1, <2>1
  <2> QED BY <1>1, <2>2 DEF Buffered
<1>4. ASSUME NEW i \in 0 .. Capacity - 1
      PROVE  q.data[i] = r.data[i] \/ \E j \in r.pos .. r.len - 1 : q.data[i] = r.data[j]
  <2>1. CASE q = r
    BY <2>1
  <2>2. CASE q # r
    <3>1. q.data = [m \in 0 .. Capacity - 1 |->
                      IF m < Available(r) THEN r.data[r.pos + m] ELSE r.data[m]]
      BY <2>2 DEF Rebase
    <3>2. i < Available(r) => r.pos + i \in r.pos .. r.len - 1
      BY <1>2
    <3> QED BY <3>1, <3>2
  <2> QED BY <2>1, <2>2
<1> QED BY <1>1, <1>3, <1>4 DEF MovesWindow

LEMMA HandParts ==
  ASSUME NEW r, Fits(r), NEW n \in 0 .. Available(r), Hand(r, n), NEW S,
         taken \in Seq(S), Buffered(r) \in Seq(S)
  PROVE  /\ taken' \in Seq(S) /\ Buffered(reader') \in Seq(S)
         /\ Handing(taken, Buffered(r), n, taken', Buffered(reader'))
         /\ reader'.data = r.data
<1>1. /\ r = [data |-> r.data, pos |-> r.pos, len |-> r.len]
      /\ r.pos \in Nat /\ r.len \in Nat /\ r.pos <= r.len
      /\ Available(r) = r.len - r.pos
  BY FitsShape, CapacityAssumption
<1>2. PICK t, w, ww, m, p : /\ t = taken /\ w = Buffered(r) /\ ww = Buffered(reader')
                            /\ m = Available(r) /\ p = r.pos
  OBVIOUS
<1>3. reader' = [data |-> r.data, pos |-> r.pos + n, len |-> r.len]
  BY <1>1 DEF Hand
<1>4. /\ Fits(reader') /\ reader'.pos = p + n /\ reader'.data = r.data
      /\ Available(reader') = m - n
  <2>1. Fits(reader') /\ reader'.pos = r.pos + n /\ reader'.len = r.len
    BY HandFits
  <2> QED BY <1>1, <1>2, <1>3, <2>1 DEF Available
<1>5. /\ m \in Nat /\ n \in 0 .. m /\ p \in Nat /\ t \in Seq(S) /\ w \in Seq(S)
      /\ Len(w) = m /\ Len(t) \in Nat
      /\ \A k \in 1 .. m : w[k] = r.data[p + (k - 1)] /\ w[k] \in S
  <2>1. m \in Nat /\ n \in 0 .. m /\ p \in Nat
    BY <1>1, <1>2
  <2>2. w \in Seq(S) /\ Len(w) = m /\ \A k \in 1 .. m : w[k] = r.data[p + (k - 1)]
    BY <1>2, BufferedAre
  <2>3. \A k \in 1 .. m : w[k] \in S
    BY <2>2, ElementOfSeq
  <2> QED BY <1>2, <2>1, <2>2, <2>3, LenProperties
<1>6. PICK h : h = [k \in 1 .. n |-> r.data[r.pos + k - 1]]
  OBVIOUS
<1>7. h \in Seq(S) /\ Len(h) = n /\ \A k \in 1 .. n : h[k] = w[k]
  <2>1. \A k \in 1 .. n : k \in 1 .. m /\ p + k - 1 = p + (k - 1)
    BY <1>5
  <2>2. \A k \in 1 .. n : r.data[r.pos + k - 1] = w[k] /\ w[k] \in S
    BY <1>2, <1>5, <2>1
  <2>3. h \in [1 .. n -> S] /\ \A k \in 1 .. n : h[k] = w[k]
    BY <1>6, <2>2
  <2>4. n \in Nat
    BY <1>5
  <2>5. h \in Seq(S)
    BY <2>3, <2>4, SeqDef
  <2> QED BY <2>3, <2>4, <2>5, LenProperties
<1>8. taken' = t \o h
  BY <1>2, <1>6 DEF Hand
<1>9. /\ taken' \in Seq(S) /\ Len(taken') = Len(t) + n
      /\ \A i \in 1 .. Len(t) : taken'[i] = t[i]
      /\ \A i \in 1 .. n : taken'[Len(t) + i] = w[i]
  <2>1. /\ t \o h \in Seq(S) /\ Len(t \o h) = Len(t) + Len(h)
        /\ \A i \in 1 .. Len(t) + Len(h) :
             (t \o h)[i] = IF i <= Len(t) THEN t[i] ELSE h[i - Len(t)]
    BY <1>5, <1>7, ConcatProperties
  <2>2. /\ \A i \in 1 .. Len(t) : i \in 1 .. Len(t) + n /\ i <= Len(t)
        /\ \A i \in 1 .. n : /\ Len(t) + i \in 1 .. Len(t) + n /\ ~ (Len(t) + i <= Len(t))
                             /\ (Len(t) + i) - Len(t) = i
    BY <1>5
  <2> QED BY <1>7, <1>8, <2>1, <2>2
<1>10. /\ ww \in Seq(S) /\ Len(ww) = m - n
       /\ \A i \in 1 .. m - n : ww[i] = w[n + i]
  <2>1. \A k \in 1 .. m - n : ww[k] = r.data[(p + n) + (k - 1)]
    <3>1. \A k \in 1 .. Available(reader') :
            Buffered(reader')[k] = reader'.data[reader'.pos + (k - 1)]
      BY <1>4, BufferedAre
    <3> QED BY <1>2, <1>4, <3>1
  <2>2. \A k \in 1 .. m - n : n + k \in 1 .. m /\ p + ((n + k) - 1) = (p + n) + (k - 1)
    BY <1>5
  <2>3. \A k \in 1 .. m - n : ww[k] = w[n + k] /\ ww[k] \in S
    <3>1. \A k \in 1 .. m - n : /\ w[n + k] = r.data[p + ((n + k) - 1)]
                                 /\ w[n + k] \in S
      BY <1>5, <2>2
    <3> QED BY <2>1, <2>2, <3>1
  <2>4. ww = [k \in 1 .. m - n |-> ww[k]]
    BY <1>2, <1>4 DEF Buffered
  <2>5. ww \in [1 .. m - n -> S] /\ m - n \in Nat
    BY <1>5, <2>3, <2>4
  <2>6. ww \in Seq(S)
    BY <2>5, SeqDef
  <2> QED BY <2>3, <2>5, <2>6, LenProperties
<1> QED BY <1>2, <1>4, <1>5, <1>9, <1>10 DEF Handing

(***************************************************************************)
(* The steps of the view in use.                                           *)
(***************************************************************************)
\* What is written into the buffer are bytes of the file.
Moved ==
  \A i \in 0 .. Capacity - 1 : \/ reader'.data[i] = reader.data[i]
                               \/ reader'.data[i] \in 1 .. delivered'

Parts ==
  /\ delivered \in Nat /\ delivered' \in Nat /\ delivered <= delivered'
  /\ taken' \in Seq(1 .. delivered') /\ Buffered(reader') \in Seq(1 .. delivered')
  /\ Moved
  /\ \/ /\ \E n \in 0 .. Len(Buffered(reader)) :
             Handing(taken, Buffered(reader), n, taken', Buffered(reader'))
        /\ delivered' = delivered
     \/ /\ \E k \in Nat : /\ Coming(Buffered(reader), delivered, k, Buffered(reader'))
                          /\ delivered' = delivered + k
        /\ taken' = taken

Delivered ==
  /\ ViewsInv
  /\ taken \in Seq(1 .. delivered)
  /\ Buffered(reader) \in Seq(1 .. delivered) /\ Waiting \in Seq(1 .. delivered)

\* The view reads on in a window with the same bytes to read.
LEMMA HandsOver ==
  ASSUME Delivered, UNCHANGED delivered, NEW r, Fits(r), Buffered(r) = Buffered(reader),
         \A i \in 0 .. Capacity - 1 : \/ r.data[i] = reader.data[i]
                                      \/ r.data[i] \in 1 .. delivered,
         \/ \E n \in 0 .. Available(r) : Hand(r, n)
         \/ \E st : Fail(r, st)
  PROVE  Parts
<1>1. /\ delivered \in Nat /\ taken \in Seq(1 .. delivered)
      /\ Buffered(r) \in Seq(1 .. delivered)
  BY StreamLenAssumption DEF Delivered, ViewsInv
<1>2. Len(Buffered(r)) = Available(r)
  BY <1>1, BufferedAre
<1>3. ASSUME NEW n \in 0 .. Available(r), Hand(r, n)
      PROVE  Parts
  <2>1. /\ taken' \in Seq(1 .. delivered) /\ Buffered(reader') \in Seq(1 .. delivered)
        /\ Handing(taken, Buffered(r), n, taken', Buffered(reader'))
        /\ reader'.data = r.data
    BY <1>1, <1>3, HandParts
  <2>2. Moved
    BY <2>1 DEF Moved
  <2> QED BY <1>1, <1>2, <1>3, <2>1, <2>2 DEF Parts
<1>4. ASSUME NEW st, Fail(r, st)
      PROVE  Parts
  <2>1. reader' = r /\ taken' = taken
    BY <1>4 DEF Fail
  <2>2. Moved
    BY <2>1 DEF Moved
  <2>3. PICK t, w : t = taken /\ w = Buffered(r)
    OBVIOUS
  <2>4. Len(t) \in Nat /\ Len(w) \in Nat
    BY <1>1, <2>3
  <2>5. 0 \in 0 .. Len(w) /\ Handing(t, w, 0, t, w)
    BY <2>4 DEF Handing
  <2> QED BY <1>1, <2>1, <2>2, <2>3, <2>5 DEF Parts
<1> QED BY <1>3, <1>4

LEMMA FillDelivers ==
  ASSUME Delivered, NEW k, Fill(k)
  PROVE  Parts
<1>1. PICK q : q = Rebase(reader, Required(reader))
  OBVIOUS
<1>2. PICK d : d = delivered
  OBVIOUS
<1>3. /\ ~ Ready /\ k \in 1 .. Room(q, MaxRead(reader)) /\ d + k <= StreamLen
      /\ reader' = Filled(q, d, k) /\ delivered' = d + k /\ taken' = taken
  BY <1>1, <1>2 DEF Fill
<1>4. /\ d \in Nat /\ taken \in Seq(1 .. d) /\ Buffered(reader) \in Seq(1 .. d)
      /\ Fits(reader) /\ ViewsInv /\ Capacity \in Nat
  BY <1>2, StreamLenAssumption, CapacityAssumption DEF Delivered, ViewsInv
<1>5. /\ Fits(q) /\ Room(q, MaxRead(reader)) \in 1 .. Capacity - q.len
      /\ Required(reader) \in Nat
  <2>1. /\ Required(reader) \in Available(reader) .. Capacity
        /\ Fits(q) /\ Room(q, MaxRead(reader)) \in 1 .. Capacity - q.len
    BY <1>1, <1>3, <1>4, AskFits DEF ViewsInv
  <2>2. Available(reader) \in Nat
    BY <1>4, FitsShape
  <2> QED BY <2>1, <2>2
<1>6. /\ Buffered(q) = Buffered(reader) /\ Available(q) = Available(reader)
      /\ MovesWindow(reader, q)
  <2>1. PICK req : req = Required(reader)
    OBVIOUS
  <2>2. Fits(reader) /\ req \in Nat /\ q = Rebase(reader, req)
    BY <1>1, <1>4, <1>5, <2>1
  <2>3. /\ Fits(q) /\ Buffered(q) = Buffered(reader) /\ Available(q) = Available(reader)
        /\ MovesWindow(reader, q)
    BY <2>2, RebaseMoves
  <2> QED BY <2>3
<1>7. /\ q.pos \in Nat /\ q.len \in Nat /\ q.len <= Capacity /\ q.pos <= q.len
      /\ Available(q) = q.len - q.pos
  BY <1>4, <1>5, FitsShape
<1>8. k \in 1 .. Capacity - q.len /\ k \in Nat
  BY <1>3, <1>4, <1>5, <1>7
<1>9. /\ Fits(reader') /\ reader'.pos = q.pos /\ reader'.len = q.len + k
      /\ Available(reader') = Available(q) + k
      /\ \A i \in q.len .. q.len + k - 1 : reader'.data[i] = d + 1 + (i - q.len)
      /\ \A i \in 0 .. q.len - 1 : reader'.data[i] = q.data[i]
  BY <1>3, <1>4, <1>5, <1>8, FilledFits
<1>10. PICK w, ww, a, p : /\ w = Buffered(reader) /\ ww = Buffered(reader')
                          /\ a = Available(q) /\ p = q.pos
  OBVIOUS
<1>11. /\ a \in Nat /\ p \in Nat /\ q.len = p + a /\ Len(w) = a
       /\ \A i \in 1 .. a : w[i] = q.data[p + (i - 1)] /\ w[i] \in 1 .. d
  <2>1. /\ Len(w) = a /\ \A i \in 1 .. a : w[i] = q.data[p + (i - 1)]
    BY <1>4, <1>5, <1>6, <1>10, BufferedAre
  <2>2. \A i \in 1 .. a : w[i] \in 1 .. d
    BY <1>4, <1>10, <2>1, ElementOfSeq
  <2> QED BY <1>7, <1>10, <2>1, <2>2
<1>12. \A i \in 1 .. a + k : ww[i] = reader'.data[p + (i - 1)]
  <2>1. \A i \in 1 .. Available(reader') :
          Buffered(reader')[i] = reader'.data[reader'.pos + (i - 1)]
    BY <1>9, BufferedAre
  <2> QED BY <1>9, <1>10, <2>1
<1>13. \A i \in 1 .. a : i \in 1 .. a + k /\ ww[i] = w[i]
  <2>1. \A i \in 1 .. a : i \in 1 .. a + k /\ p + (i - 1) \in 0 .. q.len - 1
    BY <1>8, <1>11
  <2> QED BY <1>9, <1>11, <1>12, <2>1
<1>14. \A i \in 1 .. k : a + i \in 1 .. a + k /\ ww[a + i] = d + i
  <2>1. \A i \in 1 .. k : /\ a + i \in 1 .. a + k
                          /\ p + ((a + i) - 1) \in q.len .. q.len + k - 1
                          /\ d + 1 + ((p + ((a + i) - 1)) - q.len) = d + i
    BY <1>4, <1>8, <1>11
  <2>2. \A i \in 1 .. k : reader'.data[p + ((a + i) - 1)]
                            = d + 1 + ((p + ((a + i) - 1)) - q.len)
    BY <1>9, <2>1
  <2> QED BY <1>12, <2>1, <2>2
<1>15. ww \in Seq(1 .. d + k) /\ Len(ww) = a + k
  <2>1. \A i \in 1 .. a + k : i \in 1 .. a \/ (i - a \in 1 .. k /\ a + (i - a) = i)
    BY <1>8, <1>11
  <2>2. \A x \in 1 .. d : x \in 1 .. d + k
    BY <1>4, <1>8
  <2>3. \A i \in 1 .. k : d + i \in 1 .. d + k
    BY <1>4, <1>8
  <2>4. \A i \in 1 .. a + k : ww[i] \in 1 .. d + k
    BY <1>11, <1>13, <1>14, <2>1, <2>2, <2>3
  <2>5. ww = [i \in 1 .. a + k |-> ww[i]]
    BY <1>9, <1>10 DEF Buffered
  <2>6. ww \in [1 .. a + k -> 1 .. d + k] /\ a + k \in Nat
    BY <1>8, <1>11, <2>4, <2>5
  <2>7. ww \in Seq(1 .. d + k)
    BY <2>6, SeqDef
  <2> QED BY <2>6, <2>7, LenProperties
<1>16. Coming(w, d, k, ww)
  BY <1>11, <1>13, <1>14, <1>15 DEF Coming
<1>17. taken' \in Seq(1 .. d + k)
  <2>1. \A i \in 1 .. Len(taken) : taken[i] \in 1 .. d
    BY <1>4, ElementOfSeq
  <2>2. \A x \in 1 .. d : x \in 1 .. d + k
    BY <1>4, <1>8
  <2>3. taken \in [1 .. Len(taken) -> 1 .. d + k] /\ Len(taken) \in Nat
    BY <1>4, <2>1, <2>2, LenProperties
  <2> QED BY <1>3, <2>3, SeqDef
<1>18. Moved
  <2>1. \A j \in reader.pos .. reader.len - 1 : reader.data[j] \in 1 .. d
    <3>1. /\ reader.pos \in Nat /\ reader.len \in Nat /\ reader.pos <= reader.len
      BY <1>4, FitsShape
    <3>2. Cells(reader.data, reader.pos, reader.len) \in Seq(1 .. d)
      BY <1>4, WindowCells
    <3> QED BY <3>1, <3>2, CellsOf
  <2>2. \A x \in 1 .. d : x \in 1 .. d + k
    BY <1>4, <1>8
  <2>3. \A i \in 0 .. Capacity - 1 : q.data[i] = reader.data[i] \/ q.data[i] \in 1 .. d + k
    BY <1>6, <2>1, <2>2 DEF MovesWindow
  <2>4. \A i \in 0 .. Capacity - 1 :
          reader'.data[i] = IF i \in q.len .. q.len + k - 1 THEN d + 1 + (i - q.len)
                            ELSE q.data[i]
    BY <1>3 DEF Filled
  <2>5. \A i \in q.len .. q.len + k - 1 : d + 1 + (i - q.len) \in 1 .. d + k
    <3>1. PICK l : l = q.len
      OBVIOUS
    <3>2. l \in Nat /\ d \in Nat /\ k \in Nat
      BY <1>4, <1>7, <1>8, <3>1
    <3>3. \A i \in l .. l + k - 1 : d + 1 + (i - l) \in 1 .. d + k
      BY <3>2
    <3> QED BY <3>1, <3>3
  <2> QED BY <1>3, <2>3, <2>4, <2>5 DEF Moved
<1>19. d + k \in Nat /\ d <= d + k
  BY <1>4, <1>8
<1> QED BY <1>2, <1>3, <1>4, <1>8, <1>10, <1>15, <1>16, <1>17, <1>18, <1>19 DEF Parts

LEMMA UseDelivers ==
  ASSUME Delivered, FileNext
  PROVE  Parts
<1>1. /\ delivered \in Nat /\ Fits(reader) /\ ViewsInv /\ call \in Calls
      /\ Available(reader) \in Nat
  BY StreamLenAssumption, CapacityAssumption, FitsShape DEF Delivered, ViewsInv
<1>2. ASSUME UNCHANGED <<reader, delivered, taken>>
      PROVE  Parts
  <2>1. Moved
    BY <1>2 DEF Moved
  <2>2. PICK t, w : t = taken /\ w = Buffered(reader)
    OBVIOUS
  <2>3. Len(t) \in Nat /\ Len(w) \in Nat /\ t \in Seq(1 .. delivered)
        /\ w \in Seq(1 .. delivered)
    BY <2>2 DEF Delivered
  <2>4. 0 \in 0 .. Len(w) /\ Handing(t, w, 0, t, w)
    BY <2>3 DEF Handing
  <2> QED BY <1>1, <1>2, <2>1, <2>2, <2>3, <2>4 DEF Parts
<1>3. ASSUME UNCHANGED delivered,
             \/ \E n \in 0 .. Available(reader) : Hand(reader, n)
             \/ \E st : Fail(reader, st)
      PROVE  Parts
  BY <1>1, <1>3, HandsOver
<1>4. CASE Start
  <2>1. UNCHANGED <<reader, delivered, taken>>
    BY <1>4 DEF Start, Begin, RefuseArray
  <2> QED BY <1>2, <2>1
<1>5. CASE Return
  <2>1. CASE TakeByte
    <3>1. 1 \in 0 .. Available(reader)
      BY <1>1, <2>1, CapacityAssumption DEF TakeByte, Ready
    <3> QED BY <1>3, <2>1, <3>1 DEF TakeByte
  <2>2. CASE TakeArray
    <3>1. call.count \in 0 .. Available(reader)
      BY <1>1, <2>2, CapacityAssumption DEF TakeArray, Ready, Calls
    <3> QED BY <1>3, <2>2, <3>1 DEF TakeArray
  <2>3. CASE TakeDelimiter
    <3>1. PICK k \in Hits(reader) : Hand(reader, k + 1) /\ UNCHANGED delivered
      BY <2>3 DEF TakeDelimiter
    <3>2. k + 1 \in 0 .. Available(reader)
      BY <1>1, <3>1 DEF Hits
    <3> QED BY <1>3, <3>1, <3>2
  <2>4. CASE DelimiterTooFar
    BY <1>3, <2>4 DEF DelimiterTooFar
  <2> QED BY <1>5, <2>1, <2>2, <2>3, <2>4 DEF Return
<1>6. CASE FileRead
  <2>1. ASSUME NEW k \in 1 .. Capacity, Fill(k)
        PROVE  Parts
    BY <2>1, FillDelivers
  <2>2. ASSUME NEW st, Stop(st)
        PROVE  Parts
    <3>1. PICK q : q = Rebase(reader, Required(reader))
      OBVIOUS
    <3>2. /\ ~ Ready /\ UNCHANGED delivered
          /\ \/ Hand(q, Available(q))
             \/ \E s : Fail(q, s)
      BY <2>2, <3>1 DEF Stop
    <3>3. Required(reader) \in Nat
      <4>1. Required(reader) \in Available(reader) .. Capacity
        BY <1>1, <3>2, AskFits DEF ViewsInv
      <4> QED BY <1>1, <4>1
    <3>4. /\ Fits(q) /\ Buffered(q) = Buffered(reader) /\ MovesWindow(reader, q)
      <4>1. PICK req : req = Required(reader)
        OBVIOUS
      <4>2. Fits(reader) /\ req \in Nat /\ q = Rebase(reader, req)
        BY <1>1, <3>1, <3>3, <4>1
      <4>3. /\ Fits(q) /\ Buffered(q) = Buffered(reader) /\ Available(q) = Available(reader)
            /\ MovesWindow(reader, q)
        BY <4>2, RebaseMoves
      <4> QED BY <4>3
    <3>5. \A j \in reader.pos .. reader.len - 1 : reader.data[j] \in 1 .. delivered
      <4>1. /\ reader.pos \in Nat /\ reader.len \in Nat /\ reader.pos <= reader.len
        BY <1>1, FitsShape, CapacityAssumption
      <4>2. Cells(reader.data, reader.pos, reader.len) \in Seq(1 .. delivered)
        BY WindowCells DEF Delivered
      <4> QED BY <4>1, <4>2, CellsOf
    <3>6. \A i \in 0 .. Capacity - 1 : \/ q.data[i] = reader.data[i]
                                       \/ q.data[i] \in 1 .. delivered
      BY <3>4, <3>5 DEF MovesWindow
    <3>7. Available(q) \in 0 .. Available(q)
      BY <3>4, FitsShape, CapacityAssumption
    <3> QED BY <3>2, <3>4, <3>6, <3>7, HandsOver
  <2> QED BY <1>1, <1>6, <2>1, <2>2, FileReadCases
<1>7. ReadAfterClose \/ Close => UNCHANGED <<reader, delivered, taken>>
  BY DEF ReadAfterClose, Close, vars
<1> QED BY <1>2, <1>4, <1>5, <1>6, <1>7 DEF FileNext
(***************************************************************************)
(* The invariant of views that share a buffer: what a window holds was     *)
(* delivered by the file, and while no view wrote over bytes the other had *)
(* yet to read, each byte was handed out or is in one of the windows.      *)
(***************************************************************************)
SharedInv ==
  /\ Delivered /\ overwritten \in BOOLEAN
  /\ ~ overwritten => Parted(taken, Buffered(reader), Waiting, delivered)

LEMMA ViewsInitShares == ViewsInit => SharedInv
<1> SUFFICES ASSUME ViewsInit PROVE SharedInv
  OBVIOUS
<1>1. ViewsInv
  BY ViewsInitHasInv
<1>2. /\ reader.pos = 0 /\ reader.len = 0 /\ other.pos = 0 /\ other.len = 0
      /\ taken = <<>> /\ delivered = 0 /\ overwritten = FALSE
  BY DEF ViewsInit, FileInit, Init, FreshView
<1>3. Buffered(reader) = <<>> /\ Waiting = <<>>
  BY <1>2 DEF Buffered, Available, Waiting
<1>4. Len(<<>>) = 0 /\ \A S : <<>> \in Seq(S)
  OBVIOUS
<1>5. Parted(<<>>, <<>>, <<>>, 0)
  BY <1>4 DEF Parted, Rising, Apart
<1> QED BY <1>1, <1>2, <1>3, <1>4, <1>5 DEF SharedInv, Delivered

\* A window the view in use does not write into stays as it is; one it writes
\* into holds bytes of the file.
LEMMA WaitingStays ==
  ASSUME Delivered, Parts, UNCHANGED other
  PROVE  /\ Waiting' \in Seq(1 .. delivered')
         /\ (\A i \in WaitingCells : reader'.data[i] = reader.data[i]) => Waiting' = Waiting
<1>1. PICK p, l, d, e : p = other.pos /\ l = other.len /\ d = delivered /\ e = delivered'
  OBVIOUS
<1>2. /\ p \in 0 .. Capacity /\ l \in 0 .. Capacity /\ p <= l /\ Capacity \in Nat
      /\ p \in Nat /\ l \in Nat
  BY <1>1, CapacityAssumption DEF Delivered, ViewsInv
<1>3. d \in Nat /\ e \in Nat /\ d <= e
  BY <1>1 DEF Parts
<1>4. Cells(reader.data, p, l) \in Seq(1 .. d)
  BY <1>1, WindowCells DEF Delivered
<1>5. \A i \in p .. l - 1 : reader.data[i] \in 1 .. d
  BY <1>2, <1>4, CellsOf
<1>6. \A i \in p .. l - 1 : reader'.data[i] \in 1 .. e
  <2>1. \A i \in p .. l - 1 : i \in 0 .. Capacity - 1
    BY <1>2
  <2>2. \A x \in 1 .. d : x \in 1 .. e
    BY <1>3
  <2> QED BY <1>1, <1>5, <2>1, <2>2 DEF Parts, Moved
<1>7. Waiting' = [k \in 1 .. l - p |-> reader'.data[p + k - 1]]
  BY <1>1 DEF Waiting
<1>8. Waiting' = Cells(reader'.data, p, l)
  BY <1>7 DEF Cells
<1>9. Waiting' \in Seq(1 .. e)
  <2>1. PICK data : data = reader'.data
    OBVIOUS
  <2>2. Cells(data, p, l) \in Seq(1 .. e)
    BY <1>2, <1>6, <2>1, CellsIn
  <2> QED BY <1>8, <2>1, <2>2
<1>10. ASSUME \A i \in WaitingCells : reader'.data[i] = reader.data[i]
       PROVE  Waiting' = Waiting
  <2>1. \A k \in 1 .. l - p : p + k - 1 \in p .. l - 1
    BY <1>2
  <2>2. \A k \in 1 .. l - p : reader'.data[p + k - 1] = reader.data[p + k - 1]
    BY <1>1, <1>10, <2>1 DEF WaitingCells
  <2>3. Waiting = [k \in 1 .. l - p |-> reader.data[p + k - 1]]
    BY <1>1 DEF Waiting
  <2> QED BY <1>7, <2>2, <2>3
<1> QED BY <1>1, <1>9, <1>10

\* The bytes are handed out or come in one way or another, but stay parted.
LEMMA PartsArePutBack ==
  ASSUME Delivered, Parts, NEW v, v \in Seq(1 .. delivered),
         Parted(taken, Buffered(reader), v, delivered)
  PROVE  Parted(taken', Buffered(reader'), v, delivered')
<1>1. PICK t, w, tt, ww, d :
        /\ t = taken /\ w = Buffered(reader) /\ tt = taken' /\ ww = Buffered(reader')
        /\ d = delivered
  OBVIOUS
<1>2. d \in Nat /\ t \in Seq(1 .. d) /\ w \in Seq(1 .. d) /\ v \in Seq(1 .. d)
      /\ Parted(t, w, v, d)
  BY <1>1 DEF Delivered, Parts
<1>3. ASSUME NEW n \in 0 .. Len(w), Handing(t, w, n, tt, ww), delivered' = d
      PROVE  Parted(tt, ww, v, d)
  <2>1. tt \in Seq(1 .. d) /\ ww \in Seq(1 .. d)
    BY <1>1, <1>3 DEF Parts
  <2> QED BY <1>2, <1>3, <2>1, HandingParts
<1>4. ASSUME NEW k \in Nat, Coming(w, d, k, ww)
      PROVE  Parted(t, ww, v, d + k)
  BY <1>2, <1>4, ComingParts
<1>5. \/ /\ \E n \in 0 .. Len(w) : Handing(t, w, n, tt, ww)
         /\ delivered' = d
      \/ /\ \E k \in Nat : Coming(w, d, k, ww) /\ delivered' = d + k
         /\ tt = t
  BY <1>1 DEF Parts
<1> QED BY <1>1, <1>3, <1>4, <1>5

LEMMA ViewsNextShares == SharedInv /\ [ViewsNext]_viewVars => SharedInv'
<1> SUFFICES ASSUME SharedInv, [ViewsNext]_viewVars PROVE SharedInv'
  OBVIOUS
<1>1. ViewsInv'
  BY ViewsNextKeepsInv DEF SharedInv, Delivered
<1>2. ASSUME UNCHANGED <<reader, taken, delivered, overwritten>>, Waiting' = Waiting
      PROVE  SharedInv'
  BY <1>1, <1>2 DEF SharedInv, Delivered
<1>3. CASE Use
  <2>1. FileNext /\ UNCHANGED other
        /\ overwritten' = (overwritten
             \/ \E i \in WaitingCells : reader'.data[i] # reader.data[i])
    BY <1>3 DEF Use
  <2>2. Parts
    BY <2>1, UseDelivers DEF SharedInv
  <2>3. /\ Waiting' \in Seq(1 .. delivered')
        /\ (\A i \in WaitingCells : reader'.data[i] = reader.data[i]) => Waiting' = Waiting
    BY <2>1, <2>2, WaitingStays DEF SharedInv
  <2>4. Delivered'
    BY <1>1, <2>2, <2>3 DEF Delivered, Parts
  <2>5. ASSUME ~ overwritten'
        PROVE  Parted(taken', Buffered(reader'), Waiting', delivered')
    <3>1. ~ overwritten /\ \A i \in WaitingCells : reader'.data[i] = reader.data[i]
      BY <2>1, <2>5
    <3>2. Waiting' = Waiting
      BY <2>3, <3>1
    <3>3. PICK v : v = Waiting
      OBVIOUS
    <3>4. v \in Seq(1 .. delivered) /\ Parted(taken, Buffered(reader), v, delivered)
      BY <3>1, <3>3 DEF SharedInv, Delivered
    <3>5. Parted(taken', Buffered(reader'), v, delivered')
      BY <2>2, <3>4, PartsArePutBack DEF SharedInv
    <3> QED BY <3>2, <3>3, <3>5
  <2> QED BY <2>1, <2>4, <2>5 DEF SharedInv
<1>4. CASE Change
  <2>1. /\ UNCHANGED <<delivered, taken, overwritten>>
        /\ other' = [pos |-> reader.pos, len |-> reader.len]
        /\ reader' = [data |-> reader.data, pos |-> other.pos, len |-> other.len]
    <3>1. reader = [data |-> reader.data, pos |-> reader.pos, len |-> reader.len]
      BY FitsShape DEF SharedInv, Delivered, ViewsInv
    <3> QED BY <1>4, <3>1 DEF Change
  <2>2. Buffered(reader') = Waiting /\ Waiting' = Buffered(reader)
    BY <2>1 DEF Buffered, Waiting, Available
  <2>3. Delivered'
    BY <1>1, <2>1, <2>2 DEF SharedInv, Delivered
  <2>4. ASSUME ~ overwritten
        PROVE  Parted(taken, Waiting, Buffered(reader), delivered)
    <3>1. PICK t, w, v, d : /\ t = taken /\ w = Buffered(reader) /\ v = Waiting
                            /\ d = delivered
      OBVIOUS
    <3>2. /\ d \in Nat /\ w \in Seq(1 .. d) /\ v \in Seq(1 .. d) /\ Len(t) \in Nat
          /\ Parted(t, w, v, d)
      BY <2>4, <3>1, StreamLenAssumption DEF SharedInv, Delivered, ViewsInv
    <3>3. Parted(t, v, w, d)
      BY <3>2, ChangeParts
    <3> QED BY <3>1, <3>3
  <2> QED BY <2>1, <2>2, <2>3, <2>4 DEF SharedInv
<1>5. CASE View
  <2>1. /\ UNCHANGED <<reader, taken, delivered, overwritten>>
        /\ other' = [pos |-> 0, len |-> 0] /\ WaitingCells = {}
    BY <1>5 DEF View, FreshView, fileVars, vars
  <2>2. Waiting = <<>> /\ Waiting' = <<>>
    <3>1. other.pos \in Nat /\ other.len \in Nat
      BY CapacityAssumption DEF SharedInv, Delivered, ViewsInv
    <3>2. 1 .. other.len - other.pos = {}
      BY <2>1, <3>1 DEF WaitingCells
    <3> QED BY <2>1, <3>2 DEF Waiting
  <2> QED BY <1>2, <2>1, <2>2
<1>6. CASE UNCHANGED viewVars
  BY <1>2, <1>6 DEF viewVars, fileVars, vars, Waiting
<1>7. CASE ViewAfterClose
  BY <1>2, <1>7 DEF ViewAfterClose, vars, Waiting
<1> QED BY <1>3, <1>4, <1>5, <1>6, <1>7 DEF ViewsNext

LEMMA SharedInvIsInvariant == ViewsSpec => []SharedInv
  BY ViewsInitShares, ViewsNextShares, PTL DEF ViewsSpec

\* What a sequence has are the bytes in it.
LEMMA BytesAre ==
  ASSUME NEW S, NEW s \in Seq(S)
  PROVE  Bytes(s) \subseteq S /\ \A x : x \in Bytes(s) <=> Has(s, x)
<1>1. DOMAIN s = 1 .. Len(s) /\ \A i \in 1 .. Len(s) : s[i] \in S
  BY LenProperties, ElementOfSeq
<1> QED BY <1>1 DEF Bytes, Has

LEMMA SharedInvParts == SharedInv => EachByteToOneView
<1> SUFFICES ASSUME SharedInv PROVE EachByteToOneView
  OBVIOUS
<1>1. PICK t, w, v, S : /\ t = taken /\ w = Buffered(reader) /\ v = Waiting
                        /\ S = 1 .. delivered
  OBVIOUS
<1>2. t \in Seq(S) /\ w \in Seq(S) /\ v \in Seq(S)
  BY <1>1 DEF SharedInv, Delivered
<1>3. /\ Bytes(t) \subseteq S /\ Bytes(w) \subseteq S /\ Bytes(v) \subseteq S
      /\ \A x : /\ x \in Bytes(t) <=> Has(t, x)
                /\ x \in Bytes(w) <=> Has(w, x)
                /\ x \in Bytes(v) <=> Has(v, x)
  BY <1>2, BytesAre
<1>4. OnlyDelivered
  <2>1. /\ reader.pos <= reader.len /\ reader.len <= Capacity
        /\ other.pos <= other.len /\ other.len <= Capacity
    BY FitsShape, CapacityAssumption DEF SharedInv, Delivered, ViewsInv
  <2> QED BY <1>1, <1>3, <2>1 DEF OnlyDelivered
<1>5. ASSUME ~ overwritten
      PROVE  /\ Bytes(t) \cup Bytes(w) \cup Bytes(v) = S
             /\ Len(t) + Len(w) + Len(v) = delivered
  <2>1. Parted(t, w, v, delivered)
    BY <1>1, <1>5 DEF SharedInv
  <2>2. \A x \in S : Has(t, x) \/ Has(w, x) \/ Has(v, x)
    BY <1>1, <2>1 DEF Parted
  <2>3. Len(t) + Len(w) + Len(v) = delivered
    BY <2>1 DEF Parted
  <2> QED BY <1>3, <2>2, <2>3
<1> QED BY <1>1, <1>4, <1>5 DEF EachByteToOneView

\* EachByteToOneView of FileReaderViews: whatever views of one file reader read,
\* refill and compact in the buffer they share, they hand out bytes the file has
\* delivered; and as long as none wrote over bytes the other had yet to read, each
\* byte the file has delivered was handed out once or is in one window still.
THEOREM ViewsShareTheFile == ViewsSpec => []EachByteToOneView
  BY SharedInvIsInvariant, SharedInvParts, PTL

(***************************************************************************)
(* A caller that drains a view before it changes.                          *)
(***************************************************************************)
\* A sequence that counts from one.
LEMMA Counting ==
  ASSUME NEW S, NEW s \in Seq(S)
  PROVE  s = [k \in 1 .. Len(s) |-> k] <=> \A i \in 1 .. Len(s) : s[i] = i
<1>1. s = [k \in 1 .. Len(s) |-> s[k]]
  BY LenProperties
<1> QED BY <1>1

DrainedStep ==
  /\ ~ overwritten /\ WaitingCells = {}
  /\ taken = [k \in 1 .. Len(taken) |-> k] /\ ~ overwritten'
  => taken' = [k \in 1 .. Len(taken') |-> k]

LEMMA DrainedSteps == SharedInv /\ [ViewsNext]_viewVars => DrainedStep
<1> SUFFICES ASSUME SharedInv, [ViewsNext]_viewVars, ~ overwritten, WaitingCells = {},
                    taken = [k \in 1 .. Len(taken) |-> k]
             PROVE  taken' = [k \in 1 .. Len(taken') |-> k]
  BY DEF DrainedStep
<1>1. CASE taken' = taken
  BY <1>1
<1>2. CASE Use
  <2>1. Parts /\ Delivered
    BY <1>2, UseDelivers DEF SharedInv, Use
  <2>2. PICK t, w, v, d, tt, ww :
          /\ t = taken /\ w = Buffered(reader) /\ v = Waiting /\ d = delivered
          /\ tt = taken' /\ ww = Buffered(reader')
    OBVIOUS
  <2>3. /\ d \in Nat /\ t \in Seq(1 .. d) /\ w \in Seq(1 .. d) /\ tt \in Seq(1 .. delivered')
        /\ Parted(t, w, v, d)
    BY <2>1, <2>2 DEF SharedInv, Delivered, Parts
  <2>4. Len(v) = 0
    <3>1. other.pos \in Nat /\ other.len \in Nat
      BY <2>1, CapacityAssumption DEF Delivered, ViewsInv
    <3>2. 1 .. other.len - other.pos = {}
      BY <3>1 DEF WaitingCells
    <3>3. v = <<>>
      BY <2>2, <3>2 DEF Waiting
    <3> QED BY <3>3
  <2>5. \A i \in 1 .. Len(t) : t[i] = i
    BY <2>2, <2>3, Counting
  <2>6. \A j \in 1 .. Len(w) : w[j] = Len(t) + j
    BY <2>3, <2>4, <2>5, PartedInOrder
  <2>7. ASSUME NEW n \in 0 .. Len(w), Handing(t, w, n, tt, ww)
        PROVE  \A i \in 1 .. Len(tt) : tt[i] = i
    <3>1. PICK a, b : a = Len(t) /\ b = Len(w)
      OBVIOUS
    <3>2. a \in Nat /\ b \in Nat /\ n \in 0 .. b /\ Len(tt) = a + n
      BY <2>3, <2>7, <3>1, LenProperties DEF Handing
    <3>3. \A i \in 1 .. a + n : \/ i \in 1 .. a
                                \/ i - a \in 1 .. n /\ i - a \in 1 .. b /\ a + (i - a) = i
      BY <3>2
    <3>4. /\ \A i \in 1 .. a : tt[i] = i
          /\ \A j \in 1 .. n : tt[a + j] = w[j]
          /\ \A j \in 1 .. b : w[j] = a + j
      BY <2>5, <2>6, <2>7, <3>1 DEF Handing
    <3>5. \A i \in 1 .. a + n : tt[i] = i
      BY <3>3, <3>4
    <3> QED BY <3>2, <3>5
  <2>8. tt = t \/ \E n \in 0 .. Len(w) : Handing(t, w, n, tt, ww)
    BY <2>1, <2>2 DEF Parts
  <2>9. \A i \in 1 .. Len(tt) : tt[i] = i
    BY <2>5, <2>7, <2>8
  <2>10. tt = [k \in 1 .. Len(tt) |-> k]
    BY <2>3, <2>9, Counting
  <2> QED BY <2>2, <2>10
<1>3. Change \/ View \/ ViewAfterClose \/ UNCHANGED viewVars => taken' = taken
  BY DEF Change, View, ViewAfterClose, viewVars, fileVars, vars
<1> QED BY <1>1, <1>2, <1>3 DEF ViewsNext

\* DrainedInOrder of FileReaderViews: a caller that goes on with the other view
\* when the one in use has nothing left to read gets the bytes of the file in
\* order, whichever view it reads with.
THEOREM DrainedReadsInOrder == ViewsSpec => DrainedInOrder
<1>1. SharedInv /\ [ViewsNext]_viewVars => DrainedStep
  BY DrainedSteps
<1>2. DrainedInOrder <=> [][DrainedStep]_viewVars
  BY DEF DrainedInOrder, DrainedStep
<1> QED BY <1>1, <1>2, SharedInvIsInvariant, PTL DEF ViewsSpec


=============================================================================
