---------------------------- MODULE ImportJobProofs ----------------------------
(***************************************************************************)
(* The safety properties of ImportJob and its refinement of JobContract,   *)
(* proved for every file, every size of a batch and every number of        *)
(* crashes.                                                                *)
(*                                                                         *)
(* That a batch is as good as its lines one by one is the heart of it.     *)
(* After(i) is what the lines of the batch up to i make of the accounts    *)
(* and the counters, in closed form; LineByLine shows that one line makes  *)
(* After(i) of After(i - 1), and WholeBatch that the last After(i) is what *)
(* the statement of upsert_accounts and the counters of process_import     *)
(* make of them.                                                           *)
(***************************************************************************)
EXTENDS ImportJob, IdLemmas

(* The file has been written, and an accepted import knows its length. *)
Row ==
    /\ job.status # "none" => job.total = Len(file)
    /\ job.status = "none" => job.cursor = 0 /\ wpc \in {"free", "down"}
    /\ job.cursor <= Len(file)

(* The lines of a file of n lines that a batch of k lines takes after line c. *)
Following(n, c, k) == {i \in 1 .. n : c < i /\ i <= c + k}

BatchOf(n, c, k) == IF c + k > n THEN n - c ELSE k

(* The batch read is the stretch after the offset; it has met the end of the  *)
(* file if and only if it reaches past it.                                   *)
Stretch ==
    /\ wpc \in {"claimed", "read"} => job.status = "running"
    /\ wpc = "failing" => job.status \in {"queued", "running", "completed", "cancelled"}
    /\ wpc = "read" =>
          /\ read = Following(Len(file), job.cursor, BatchSize)
          /\ eof <=> job.cursor + BatchSize > Len(file)

(* The inductive invariant. *)
IInv ==
    /\ TypeOK
    /\ Row
    /\ Stretch
    /\ CountsAddUp
    /\ AsIfLineByLine

-----------------------------------------------------------------------------
(* The lines of a batch are an interval. *)
LEMMA LinesOfBatch ==
    ASSUME NEW n \in Nat, NEW c \in 0 .. n, NEW k \in Nat \ {0}
    PROVE  /\ Following(n, c, k) = c + 1 .. c + BatchOf(n, c, k)
           /\ Cardinality(Following(n, c, k)) = BatchOf(n, c, k)
           /\ BatchOf(n, c, k) \in Nat /\ c + BatchOf(n, c, k) <= n
<1> USE DEF BatchOf
<1> DEFINE R == Following(n, c, k)
           last == IF c + k > n THEN n ELSE c + k
<1>1. last \in Int /\ c + 1 \in Int /\ last >= c
  OBVIOUS
<1>2. R = c + 1 .. last
  <2>1. \A i \in Int : (i \in 1 .. n /\ c < i /\ i <= c + k) <=> i \in c + 1 .. last
    OBVIOUS
  <2>2. R \subseteq Int /\ (c + 1 .. last) \subseteq Int
    BY <1>1 DEF Following
  <2>3. \A i \in Int : i \in R <=> i \in c + 1 .. last
    BY <2>1 DEF Following
  <2> HIDE DEF last, R
  <2> QED BY <2>2, <2>3
<1>3. Cardinality(c + 1 .. last) = IF c + 1 > last THEN 0 ELSE last - (c + 1) + 1
  <2> HIDE DEF last
  <2> QED BY <1>1, FS_Interval
<1>4. CASE c + k > n
  <2>1. last = n /\ c + (n - c) = n
    BY <1>4
  <2> QED BY <1>2, <1>3, <1>4, <2>1
<1>5. CASE ~(c + k > n)
  <2>1. last = c + k
    BY <1>5
  <2>2. ~(c + 1 > c + k) /\ c + k - (c + 1) + 1 = k
    OBVIOUS
  <2> QED BY <1>2, <1>3, <1>5, <2>1, <2>2
<1> QED BY <1>4, <1>5

-----------------------------------------------------------------------------
(* One line after the other.                                                *)

(* The lines of a batch whose account is written: of equal emails the first.  *)
Writers ==
    {i \in Parsed : /\ mode = "skip" => file[i] \notin table
                    /\ \A k \in Parsed : file[k] = file[i] => i <= k}

(* The lines that are skipped. *)
Rest == read \ (Writers \cup Failed)

UpTo(S, i) == {k \in S : k <= i}

(* What the lines of the batch up to i make of the accounts and the counters. *)
After(i) ==
    [table |-> table \cup {file[k] : k \in UpTo(Writers, i)},
     writer |-> [e \in Emails |->
                    IF \E k \in UpTo(Writers, i) : file[k] = e THEN LineOf(e) ELSE writer[e]],
     counts |-> [succeeded |-> job.counts.succeeded + Cardinality(UpTo(Writers, i)),
                 failed |-> job.counts.failed + Cardinality(UpTo(Failed, i)),
                 skipped |-> job.counts.skipped + Cardinality(UpTo(Rest, i))]]

(* If After(i) is After(i - 1) and one line, it is what ImportLines computes: *)
(* a first line where the two differ would not.                              *)
LEMMA ImportLinesIs ==
    ASSUME NEW c \in Nat, NEW l \in Nat, c <= l,
           \A i \in c + 1 .. l : After(i) = ImportLine(After(i - 1), i)
    PROVE  ImportLines(After(c), c, l) = After(l)
<1> DEFINE r == After(c)
           g == [i \in c .. l |-> After(i)]
           Made(f) == f = [i \in c .. l |-> IF i = c THEN r ELSE ImportLine(f[i - 1], i)]
           made == CHOOSE f : Made(f)
<1>1. Made(g)
  <2>1. ASSUME NEW i \in c .. l
        PROVE  g[i] = IF i = c THEN r ELSE ImportLine(g[i - 1], i)
    <3>1. CASE i = c
      BY <3>1
    <3>2. CASE i # c
      <4>1. i \in c + 1 .. l /\ i - 1 \in c .. l
        BY <3>2
      <4> QED BY <3>2, <4>1
    <3> QED BY <3>1, <3>2
  <2> QED BY <2>1
<1>2. Made(made)
  <2> HIDE DEF Made
  <2> QED BY <1>1
<1>3. \A i \in c .. l : made[i] = g[i]
  <2> DEFINE Wrong == {i \in c .. l : made[i] # g[i]}
  <2> SUFFICES ASSUME Wrong # {} PROVE FALSE
    OBVIOUS
  <2>1. Wrong \subseteq Nat
    OBVIOUS
  <2>2. PICK i \in Wrong : \A k \in Wrong : i <= k
    <3> HIDE DEF Wrong
    <3> QED BY <2>1, LeastElement
  <2>3. i # c
    BY <1>2
  <2>4. i \in c + 1 .. l /\ i - 1 \in c .. l /\ ~(i <= i - 1)
    BY <2>3
  <2>5. made[i - 1] = After(i - 1)
    BY <2>2, <2>4
  <2>6. made[i] = ImportLine(made[i - 1], i)
    BY <1>2, <2>3
  <2> QED BY <2>2, <2>4, <2>5, <2>6
<1>4. ImportLines(r, c, l) = made[l]
  BY DEF ImportLines
<1> QED BY <1>3, <1>4

(* One more line is one more element, if it is one. *)
LEMMA UpToNext ==
    ASSUME NEW n \in Nat, NEW S, S \subseteq 1 .. n, NEW i \in 1 .. n
    PROVE  /\ UpTo(S, i) = IF i \in S THEN UpTo(S, i - 1) \cup {i} ELSE UpTo(S, i - 1)
           /\ Cardinality(UpTo(S, i)) = Cardinality(UpTo(S, i - 1)) + IF i \in S THEN 1 ELSE 0
           /\ Cardinality(UpTo(S, i - 1)) \in Nat
<1>1. S \subseteq Int
  OBVIOUS
<1>2. \A k \in S : k <= i <=> k <= i - 1 \/ k = i
  BY <1>1
<1>3. UpTo(S, i) = IF i \in S THEN UpTo(S, i - 1) \cup {i} ELSE UpTo(S, i - 1)
  <2>1. \A k : k \in UpTo(S, i) <=> k \in S /\ (k \in UpTo(S, i - 1) \/ k = i)
    BY <1>2 DEF UpTo
  <2>2. \A k : k \in UpTo(S, i - 1) => k \in S
    BY DEF UpTo
  <2> QED BY <2>1, <2>2
<1>4. UpTo(S, i - 1) \subseteq 1 .. n /\ i \notin UpTo(S, i - 1)
  <2>1. ~(i <= i - 1)
    OBVIOUS
  <2> QED BY <2>1 DEF UpTo
<1>5. IsFiniteSet(UpTo(S, i - 1)) /\ Cardinality(UpTo(S, i - 1)) \in Nat
  BY <1>4, FiniteStretch
<1>6. Cardinality(UpTo(S, i - 1) \cup {i}) = Cardinality(UpTo(S, i - 1)) + 1
  BY <1>4, <1>5, FS_AddElement
<1> QED BY <1>3, <1>5, <1>6

(* One field of three. *)
LEMMA OneOfThree ==
    ASSUME NEW x, NEW y, NEW z, NEW new
    PROVE  /\ [[succeeded |-> x, failed |-> y, skipped |-> z] EXCEPT !["succeeded"] = new]
                = [succeeded |-> new, failed |-> y, skipped |-> z]
           /\ [[succeeded |-> x, failed |-> y, skipped |-> z] EXCEPT !["failed"] = new]
                = [succeeded |-> x, failed |-> new, skipped |-> z]
           /\ [[succeeded |-> x, failed |-> y, skipped |-> z] EXCEPT !["skipped"] = new]
                = [succeeded |-> x, failed |-> y, skipped |-> new]
           /\ [[table |-> x, writer |-> y, counts |-> z] EXCEPT !.counts = new]
                = [table |-> x, writer |-> y, counts |-> new]
<1>1. [[succeeded |-> x, failed |-> y, skipped |-> z] EXCEPT !.succeeded = new]
        = [succeeded |-> new, failed |-> y, skipped |-> z]
  OBVIOUS
<1>2. [[succeeded |-> x, failed |-> y, skipped |-> z] EXCEPT !.failed = new]
        = [succeeded |-> x, failed |-> new, skipped |-> z]
  OBVIOUS
<1>3. [[succeeded |-> x, failed |-> y, skipped |-> z] EXCEPT !.skipped = new]
        = [succeeded |-> x, failed |-> y, skipped |-> new]
  OBVIOUS
<1>4. [[table |-> x, writer |-> y, counts |-> z] EXCEPT !.counts = new]
        = [table |-> x, writer |-> y, counts |-> new]
  OBVIOUS
<1> QED BY <1>1, <1>2, <1>3, <1>4

(* A batch has no two lines to write one row, or equal emails are skipped. *)
LEMMA WritersAre ==
    ASSUME read \subseteq 1 .. Len(file), Len(file) \in Nat, ~Conflict, mode \in {"update", "skip"}
    PROVE  /\ Writers \subseteq Parsed
           /\ \A i, k \in Writers : file[i] = file[k] => i = k
           /\ \A i \in Writers : LineOf(file[i]) = i
           /\ {file[i] : i \in Writers} = Written
           /\ \A i \in Parsed : mode = "skip" /\ file[i] \notin table =>
                 \E k \in Writers : file[k] = file[i] /\ k <= i
<1>1. \A i \in Parsed : i \in Nat
  BY DEF Parsed
<1>2. \A i, k \in Nat : i <= k /\ k <= i => i = k
  OBVIOUS
<1>3. \A i, k \in Writers : file[i] = file[k] => i = k
  BY <1>1, <1>2 DEF Writers
<1>4. ASSUME NEW i \in Writers PROVE LineOf(file[i]) = i
  <2> DEFINE Fits(k) == k \in Parsed /\ file[k] = file[i] /\ \A m \in Parsed : file[m] = file[i] => k <= m
  <2>1. Fits(i)
    BY DEF Writers
  <2>2. \A k : Fits(k) => k = i
    BY <1>1, <1>2, <2>1
  <2>3. LineOf(file[i]) = CHOOSE k \in Parsed : file[k] = file[i] /\ \A m \in Parsed : file[m] = file[i] => k <= m
    BY DEF LineOf
  <2> QED BY <2>1, <2>2, <2>3
<1>5. ASSUME NEW i \in Parsed, mode = "skip", file[i] \notin table
      PROVE  \E k \in Writers : file[k] = file[i] /\ k <= i
  <2> DEFINE Same == {k \in Parsed : file[k] = file[i]}
  <2>1. (\A k \in Same : k \in Nat) /\ i \in Same
    BY <1>1
  <2>2. PICK k \in Same : \A m \in Same : k <= m
    <3> HIDE DEF Same
    <3>1. Same \subseteq Nat
      BY <2>1
    <3> QED BY <2>1, <3>1, LeastElement
  <2>3. k \in Writers /\ k <= i
    BY <1>5, <2>1, <2>2 DEF Writers
  <2> QED BY <2>2, <2>3
<1>6. {file[i] : i \in Writers} = Written
  <2>1. CASE mode = "update"
    <3>1. Writers = Parsed
      <4>1. ASSUME NEW i \in Parsed, NEW k \in Parsed, file[k] = file[i] PROVE i <= k
        BY <1>1, <2>1, <4>1 DEF Conflict
      <4> QED BY <2>1, <4>1 DEF Writers
    <3> QED BY <2>1, <3>1 DEF Written, ParsedEmails
  <2>2. CASE mode = "skip"
    <3>1. ASSUME NEW i \in Writers PROVE file[i] \in Written
      BY <2>2, <3>1 DEF Writers, Written, ParsedEmails
    <3>2. ASSUME NEW e \in Written PROVE \E i \in Writers : file[i] = e
      <4>1. PICK i \in Parsed : file[i] = e /\ file[i] \notin table
        BY <2>2 DEF Written, ParsedEmails
      <4> QED BY <1>5, <2>2, <4>1
    <3> QED BY <3>1, <3>2
  <2> QED BY <2>1, <2>2
<1> QED BY <1>3, <1>4, <1>5, <1>6 DEF Writers

(* A line makes of After(i - 1) what After(i) says. *)
LEMMA LineByLine ==
    ASSUME TypeOK, read \subseteq 1 .. Len(file), ~Conflict, NEW i \in read
    PROVE  After(i) = ImportLine(After(i - 1), i)
<1> DEFINE r == After(i - 1)
           W == UpTo(Writers, i - 1)
<1>1. /\ Len(file) \in Nat /\ i \in 1 .. Len(file)
      /\ mode \in {"update", "skip"} /\ table \subseteq Emails
      /\ "bad" \notin Emails /\ "blank" \notin Emails /\ file[i] \in Lines
      /\ job.counts \in Counters
  <2>1. file \in Seq(Lines) /\ Len(file) \in 1 .. MaxLines
    BY DEF TypeOK
  <2>2. Len(file) \in Nat /\ file[i] \in Lines
    BY <2>1, ImportJobAssumption
  <2> QED BY <2>2, ImportJobAssumption DEF TypeOK
<1>2. /\ Writers \subseteq Parsed /\ Parsed \subseteq read /\ Failed \subseteq read
      /\ Rest \subseteq read
      /\ Writers \subseteq 1 .. Len(file) /\ Failed \subseteq 1 .. Len(file)
      /\ Rest \subseteq 1 .. Len(file)
  BY DEF Writers, Parsed, Failed, Rest
<1>3. /\ r.table = table \cup {file[k] : k \in W}
      /\ r.writer = [e \in Emails |-> IF \E k \in W : file[k] = e THEN LineOf(e) ELSE writer[e]]
      /\ r.counts = [succeeded |-> job.counts.succeeded + Cardinality(W),
                     failed |-> job.counts.failed + Cardinality(UpTo(Failed, i - 1)),
                     skipped |-> job.counts.skipped + Cardinality(UpTo(Rest, i - 1))]
      /\ r = [table |-> r.table, writer |-> r.writer, counts |-> r.counts]
  BY DEF After
<1>4. /\ UpTo(Writers, i) = IF i \in Writers THEN W \cup {i} ELSE W
      /\ Cardinality(UpTo(Writers, i)) = Cardinality(W) + IF i \in Writers THEN 1 ELSE 0
      /\ Cardinality(W) \in Nat
  BY <1>1, <1>2, UpToNext
<1>5. /\ Cardinality(UpTo(Failed, i)) = Cardinality(UpTo(Failed, i - 1)) + IF i \in Failed THEN 1 ELSE 0
      /\ Cardinality(UpTo(Failed, i - 1)) \in Nat
  <2> HIDE DEF r, W
  <2> DEFINE S == Failed
  <2> HIDE DEF S
  <2>1. S \subseteq 1 .. Len(file)
    BY <1>2 DEF S
  <2>2. /\ UpTo(S, i) = IF i \in S THEN UpTo(S, i - 1) \cup {i} ELSE UpTo(S, i - 1)
        /\ Cardinality(UpTo(S, i)) = Cardinality(UpTo(S, i - 1)) + IF i \in S THEN 1 ELSE 0
        /\ Cardinality(UpTo(S, i - 1)) \in Nat
    BY <1>1, <2>1, UpToNext
  <2> QED BY <2>2 DEF S
<1>6. /\ Cardinality(UpTo(Rest, i)) = Cardinality(UpTo(Rest, i - 1)) + IF i \in Rest THEN 1 ELSE 0
      /\ Cardinality(UpTo(Rest, i - 1)) \in Nat
  <2> HIDE DEF r, W
  <2> DEFINE S == Rest
  <2> HIDE DEF S
  <2>1. S \subseteq 1 .. Len(file)
    BY <1>2 DEF S
  <2>2. /\ UpTo(S, i) = IF i \in S THEN UpTo(S, i - 1) \cup {i} ELSE UpTo(S, i - 1)
        /\ Cardinality(UpTo(S, i)) = Cardinality(UpTo(S, i - 1)) + IF i \in S THEN 1 ELSE 0
        /\ Cardinality(UpTo(S, i - 1)) \in Nat
    BY <1>1, <2>1, UpToNext
  <2> QED BY <2>2 DEF S
<1>7. job.counts.succeeded \in Nat /\ job.counts.failed \in Nat /\ job.counts.skipped \in Nat
  BY <1>1 DEF Counters
<1>17. r.table \subseteq Emails
  <2>1. \A k \in W : file[k] \in Emails
    BY <1>2 DEF UpTo, Parsed
  <2> QED BY <1>1, <1>3, <2>1
<1> DEFINE add(f) == [r.counts EXCEPT ![f] = @ + 1]
           write == [table |-> r.table \cup {file[i]},
                     writer |-> [r.writer EXCEPT ![file[i]] = i],
                     counts |-> add("succeeded")]
<1>8. /\ i \in Writers => i \notin Failed /\ i \notin Rest
      /\ i \in Failed => i \notin Rest /\ i \notin Writers
      /\ i \notin Writers /\ i \notin Failed => i \in Rest
      /\ i \in Failed <=> file[i] = "bad"
      /\ i \in Parsed <=> file[i] \in Emails
  BY <1>1, <1>2 DEF Rest, Failed, Parsed
<1>9. /\ add("succeeded") = [succeeded |-> r.counts.succeeded + 1, failed |-> r.counts.failed,
                              skipped |-> r.counts.skipped]
      /\ add("failed") = [succeeded |-> r.counts.succeeded, failed |-> r.counts.failed + 1,
                           skipped |-> r.counts.skipped]
      /\ add("skipped") = [succeeded |-> r.counts.succeeded, failed |-> r.counts.failed,
                            skipped |-> r.counts.skipped + 1]
  <2> DEFINE x == r.counts.succeeded
             y == r.counts.failed
             z == r.counts.skipped
             c == [succeeded |-> x, failed |-> y, skipped |-> z]
  <2>1. r.counts = c
    BY <1>3
  <2>2. /\ r.counts["succeeded"] = x /\ r.counts["failed"] = y /\ r.counts["skipped"] = z
    BY <2>1
  <2>3. /\ add("succeeded") = [c EXCEPT !["succeeded"] = x + 1]
        /\ add("failed") = [c EXCEPT !["failed"] = y + 1]
        /\ add("skipped") = [c EXCEPT !["skipped"] = z + 1]
    BY <2>1, <2>2
  <2> HIDE DEF x, y, z
  <2>4. /\ [c EXCEPT !["succeeded"] = x + 1] = [succeeded |-> x + 1, failed |-> y, skipped |-> z]
        /\ [c EXCEPT !["failed"] = y + 1] = [succeeded |-> x, failed |-> y + 1, skipped |-> z]
        /\ [c EXCEPT !["skipped"] = z + 1] = [succeeded |-> x, failed |-> y, skipped |-> z + 1]
    <3> DEFINE a == x + 1
               b == y + 1
               d == z + 1
    <3> HIDE DEF a, b, d
    <3>1. [c EXCEPT !["succeeded"] = a] = [succeeded |-> a, failed |-> y, skipped |-> z]
      BY OneOfThree
    <3>2. [c EXCEPT !["failed"] = b] = [succeeded |-> x, failed |-> b, skipped |-> z]
      BY OneOfThree
    <3>3. [c EXCEPT !["skipped"] = d] = [succeeded |-> x, failed |-> y, skipped |-> d]
      BY OneOfThree
    <3> QED BY <3>1, <3>2, <3>3 DEF a, b, d
  <2> HIDE DEF add, c
  <2>5. /\ add("succeeded") = [succeeded |-> x + 1, failed |-> y, skipped |-> z]
        /\ add("failed") = [succeeded |-> x, failed |-> y + 1, skipped |-> z]
        /\ add("skipped") = [succeeded |-> x, failed |-> y, skipped |-> z + 1]
    BY <2>3, <2>4
  <2> QED BY <2>5 DEF x, y, z
<1>10. After(i).counts = IF i \in Writers THEN add("succeeded")
                         ELSE IF i \in Failed THEN add("failed") ELSE add("skipped")
  <2>1. After(i).counts = [succeeded |-> job.counts.succeeded + Cardinality(UpTo(Writers, i)),
                           failed |-> job.counts.failed + Cardinality(UpTo(Failed, i)),
                           skipped |-> job.counts.skipped + Cardinality(UpTo(Rest, i))]
    BY DEF After
  <2>2. \A a, b \in Nat : a + (b + 1) = (a + b) + 1 /\ a + (b + 0) = a + b
    OBVIOUS
  <2>3. /\ job.counts.succeeded + Cardinality(UpTo(Writers, i))
             = r.counts.succeeded + IF i \in Writers THEN 1 ELSE 0
        /\ job.counts.failed + Cardinality(UpTo(Failed, i))
             = r.counts.failed + IF i \in Failed THEN 1 ELSE 0
        /\ job.counts.skipped + Cardinality(UpTo(Rest, i))
             = r.counts.skipped + IF i \in Rest THEN 1 ELSE 0
        /\ r.counts.succeeded \in Nat /\ r.counts.failed \in Nat /\ r.counts.skipped \in Nat
    <3> HIDE DEF W
    <3>1. /\ r.counts.succeeded = job.counts.succeeded + Cardinality(W)
          /\ r.counts.failed = job.counts.failed + Cardinality(UpTo(Failed, i - 1))
          /\ r.counts.skipped = job.counts.skipped + Cardinality(UpTo(Rest, i - 1))
      BY <1>3
    <3> DEFINE a == Cardinality(W)
               b == Cardinality(UpTo(Failed, i - 1))
               d == Cardinality(UpTo(Rest, i - 1))
               x == job.counts.succeeded
               y == job.counts.failed
               z == job.counts.skipped
    <3>2. a \in Nat /\ b \in Nat /\ d \in Nat /\ x \in Nat /\ y \in Nat /\ z \in Nat
      BY <1>4, <1>5, <1>6, <1>7
    <3> HIDE DEF r, a, b, d, x, y, z
    <3>3. /\ x + (a + IF i \in Writers THEN 1 ELSE 0) = x + a + IF i \in Writers THEN 1 ELSE 0
          /\ y + (b + IF i \in Failed THEN 1 ELSE 0) = y + b + IF i \in Failed THEN 1 ELSE 0
          /\ z + (d + IF i \in Rest THEN 1 ELSE 0) = z + d + IF i \in Rest THEN 1 ELSE 0
          /\ x + a \in Nat /\ y + b \in Nat /\ z + d \in Nat
      BY <3>2
    <3> QED BY <1>4, <1>5, <1>6, <3>1, <3>3 DEF a, b, d, x, y, z
  <2>4. \A n \in Nat : n + 0 = n
    OBVIOUS
  <2> HIDE DEF r, W, add
  <2> QED BY <1>8, <1>9, <2>1, <2>3, <2>4
<1>11. After(i) = [table |-> After(i).table, writer |-> After(i).writer, counts |-> After(i).counts]
  BY DEF After
<1>12. i \notin Writers => After(i).table = r.table /\ After(i).writer = r.writer
  BY <1>4 DEF After
<1>13. i \in Writers => /\ After(i).table = r.table \cup {file[i]}
                        /\ After(i).writer = [r.writer EXCEPT ![file[i]] = i]
  <2> SUFFICES ASSUME i \in Writers
               PROVE  /\ After(i).table = r.table \cup {file[i]}
                      /\ After(i).writer = [r.writer EXCEPT ![file[i]] = i]
    OBVIOUS
  <2>1. UpTo(Writers, i) = W \cup {i}
    BY <1>4
  <2>2. After(i).table = r.table \cup {file[i]}
    BY <2>1 DEF After
  <2>3. LineOf(file[i]) = i
    BY <1>1, WritersAre
  <2>4. After(i).writer = [e \in Emails |->
                              IF \E k \in W \cup {i} : file[k] = e THEN LineOf(e) ELSE writer[e]]
    BY <2>1 DEF After
  <2>5. ASSUME NEW e \in Emails
        PROVE  After(i).writer[e] = [r.writer EXCEPT ![file[i]] = i][e]
    <3> HIDE DEF W, r
    <3> QED BY <1>3, <2>3, <2>4
  <2>6. After(i).writer = [r.writer EXCEPT ![file[i]] = i]
    <3> HIDE DEF W, r
    <3> QED BY <1>3, <2>4, <2>5
  <2> QED BY <2>2, <2>6
<1>14. /\ file[i] \in Emails /\ i \in Writers => ~(file[i] \in r.table /\ mode = "skip")
       /\ file[i] \in Emails /\ i \notin Writers => file[i] \in r.table /\ mode = "skip"
  <2>1. ASSUME file[i] \in Emails, i \in Writers, file[i] \in r.table, mode = "skip" PROVE FALSE
    <3>1. PICK k \in W : file[k] = file[i]
      BY <1>3, <2>1 DEF Writers
    <3>2. k \in Writers /\ k <= i - 1
      BY <3>1 DEF UpTo
    <3>3. k = i
      BY <1>1, <2>1, <3>1, <3>2, WritersAre
    <3> QED BY <1>1, <3>2, <3>3
  <2>2. ASSUME file[i] \in Emails, i \notin Writers PROVE file[i] \in r.table /\ mode = "skip"
    <3>1. i \in Parsed
      BY <1>8, <2>2
    <3>2. PICK k \in Parsed :
              \/ mode = "skip" /\ file[i] \in table
              \/ file[k] = file[i] /\ ~(i <= k)
      BY <2>2, <3>1 DEF Writers
    <3>3. i \in Nat /\ k \in Nat
      BY <1>1, <1>2
    <3>4. mode = "skip"
      BY <1>1, <3>1, <3>2, <3>3 DEF Conflict
    <3>5. CASE file[i] \in table
      BY <1>3, <3>4, <3>5
    <3>6. CASE file[i] \notin table
      <4>1. file[k] = file[i] /\ k <= i - 1
        BY <3>2, <3>3, <3>6
      <4>2. PICK m \in Writers : file[m] = file[k] /\ m <= k
        BY <1>1, <3>4, <3>6, <4>1, WritersAre
      <4>3. m \in Nat
        BY <1>2
      <4>4. m \in W
        BY <3>3, <4>1, <4>2, <4>3 DEF UpTo
      <4> QED BY <1>3, <3>4, <4>1, <4>2, <4>4
    <3> QED BY <3>5, <3>6
  <2> QED BY <2>1, <2>2
<1>15. file[i] = "bad" \/ file[i] = "blank" \/ file[i] \in Emails
  BY <1>1 DEF Lines
<1>18. \A c : [r EXCEPT !.counts = c] = [table |-> r.table, writer |-> r.writer, counts |-> c]
  <2> DEFINE x == r.table
             y == r.writer
             z == r.counts
  <2>1. r = [table |-> x, writer |-> y, counts |-> z]
    BY <1>3
  <2> HIDE DEF r, x, y, z
  <2> SUFFICES ASSUME NEW c
               PROVE  [r EXCEPT !.counts = c] = [table |-> x, writer |-> y, counts |-> c]
    BY DEF x, y, z
  <2> QED BY <2>1, OneOfThree
<1>16. CASE file[i] = "bad"
  <2>1. ImportLine(r, i) = [r EXCEPT !.counts = add("failed")]
    <3> HIDE DEF r
    <3> QED BY <1>1, <1>16, <1>17 DEF ImportLine
  <2>2. After(i) = [table |-> r.table, writer |-> r.writer, counts |-> add("failed")]
    <3> HIDE DEF r, add
    <3> QED BY <1>8, <1>10, <1>11, <1>12, <1>16
  <2> QED BY <1>18, <2>1, <2>2
<1>19. CASE file[i] = "blank"
  <2>1. ImportLine(r, i) = [r EXCEPT !.counts = add("skipped")]
    <3> HIDE DEF r
    <3> QED BY <1>1, <1>19, <1>17 DEF ImportLine
  <2>2. i \notin Writers /\ i \notin Failed
    BY <1>1, <1>2, <1>8, <1>19
  <2>3. After(i) = [table |-> r.table, writer |-> r.writer, counts |-> add("skipped")]
    <3> HIDE DEF r, add
    <3> QED BY <1>10, <1>11, <1>12, <2>2
  <2> QED BY <1>18, <2>1, <2>3
<1>20. CASE file[i] \in Emails /\ i \notin Writers
  <2>1. ImportLine(r, i) = [r EXCEPT !.counts = add("skipped")]
    <3> HIDE DEF r
    <3> QED BY <1>1, <1>14, <1>20 DEF ImportLine
  <2>2. i \notin Failed
    BY <1>1, <1>8, <1>20
  <2>3. After(i) = [table |-> r.table, writer |-> r.writer, counts |-> add("skipped")]
    <3> HIDE DEF r, add
    <3> QED BY <1>10, <1>11, <1>12, <1>20, <2>2
  <2> QED BY <1>18, <2>1, <2>3
<1>21. CASE file[i] \in Emails /\ i \in Writers
  <2>1. ImportLine(r, i) = write
    <3> HIDE DEF r
    <3> QED BY <1>1, <1>14, <1>21 DEF ImportLine
  <2>2. After(i) = write
    <3> HIDE DEF r, add
    <3> QED BY <1>10, <1>11, <1>13, <1>21
  <2> QED BY <2>1, <2>2
<1> QED BY <1>15, <1>16, <1>19, <1>20, <1>21

(* Every line of a batch is a written account, an error or skipped. *)
LEMMA BatchSizes ==
    ASSUME TypeOK, read \subseteq 1 .. Len(file), ~Conflict
    PROVE  /\ Cardinality(Writers) = Inserted
           /\ Cardinality(read) = Inserted + Cardinality(Failed) + Cardinality(Rest)
           /\ Cardinality(read) \in Nat /\ Cardinality(Parsed) \in Nat
           /\ Cardinality(Failed) \in Nat /\ Cardinality(Rest) \in Nat /\ Inserted \in Nat
<1>1. Len(file) \in Nat /\ mode \in {"update", "skip"}
  BY ImportJobAssumption DEF TypeOK
<1>2. /\ \A i \in read : file[i] \in Emails => file[i] # "bad"
      /\ Writers \subseteq Parsed /\ Parsed \subseteq read /\ Failed \subseteq read /\ Rest \subseteq read
  BY ImportJobAssumption DEF Writers, Parsed, Failed, Rest
<1>3. IsFiniteSet(read)
  BY <1>1, FiniteStretch
<1>4. IsFiniteSet(Writers) /\ IsFiniteSet(Parsed) /\ IsFiniteSet(Failed) /\ IsFiniteSet(Rest)
  BY <1>2, <1>3, FS_Subset
<1>5. Cardinality(Writers) = Inserted /\ IsFiniteSet(Written)
  <2> DEFINE f == [i \in Writers |-> file[i]]
             S == Writers
             T == {file[i] : i \in S}
  <2>1. \A i, k \in S : f[i] = f[k] => i = k
    BY <1>1, WritersAre
  <2>2. f \in Surjection(S, T) /\ f \in Injection(S, T)
    <3> HIDE DEF S
    <3>1. f \in [S -> T]
      BY DEF S
    <3>2. \A t \in T : \E i \in S : f[i] = t
      BY DEF S
    <3> HIDE DEF T, f
    <3> QED BY <2>1, <3>1, <3>2 DEF Surjection, Injection, IsInjective
  <2>3. IsFiniteSet(T) /\ Cardinality(T) = Cardinality(S)
    <3> HIDE DEF T, f, S
    <3>1. IsFiniteSet(S)
      BY <1>4 DEF S
    <3> QED BY <2>2, <3>1, FS_Surjection
  <2>4. T = Written
    BY <1>1, WritersAre
  <2> QED BY <2>3, <2>4 DEF Inserted
<1>6. Cardinality(Writers \cup Failed) = Cardinality(Writers) + Cardinality(Failed)
  <2>1. \A i \in Writers : i \notin Failed
    BY <1>2 DEF Parsed, Failed
  <2> QED BY <1>4, <2>1, DisjointUnion
<1>7. Cardinality((Writers \cup Failed) \cup Rest) = Cardinality(Writers \cup Failed) + Cardinality(Rest)
  <2>1. \A i \in Writers \cup Failed : i \notin Rest
    BY DEF Rest
  <2>2. IsFiniteSet(Writers \cup Failed)
    BY <1>4, FS_Union
  <2> QED BY <1>4, <2>1, <2>2, DisjointUnion
<1>8. (Writers \cup Failed) \cup Rest = read
  BY <1>2 DEF Rest
<1>9. /\ Cardinality(read) \in Nat /\ Cardinality(Parsed) \in Nat /\ Cardinality(Failed) \in Nat
      /\ Cardinality(Rest) \in Nat /\ Inserted \in Nat
  BY <1>3, <1>4, <1>5, FS_CardinalityType DEF Inserted
<1> QED BY <1>5, <1>6, <1>7, <1>8, <1>9

(* The batch is as good as its lines one by one. *)
LEMMA WholeBatch ==
    ASSUME TypeOK, Row, Stretch, AsIfLineByLine, wpc = "read", ~Conflict
    PROVE  ImportLines(ref, job.cursor, job.cursor + Cardinality(read)) =
              [table |-> table \cup Written,
               writer |-> [e \in Emails |-> IF e \in Written THEN LineOf(e) ELSE writer[e]],
               counts |-> AddBatch(job.counts)]
<1> DEFINE c == job.cursor
           l == job.cursor + Cardinality(read)
<1>1. /\ Len(file) \in Nat /\ c \in 0 .. Len(file) /\ mode \in {"update", "skip"}
      /\ job.counts \in Counters
      /\ writer \in [Emails -> 0 .. MaxLines]
  <2>1. file \in Seq(Lines) /\ job.cursor \in 0 .. MaxLines
    BY DEF TypeOK
  <2>2. Len(file) \in Nat
    BY <2>1
  <2> QED BY <2>1, <2>2, ImportJobAssumption DEF Row, TypeOK
<1>2. /\ read = c + 1 .. l
      /\ l \in Nat /\ c \in Nat /\ c <= l /\ l <= Len(file)
      /\ read \subseteq 1 .. Len(file)
  <2>1. read = Following(Len(file), c, BatchSize)
    BY DEF Stretch
  <2> DEFINE size == BatchOf(Len(file), c, BatchSize)
  <2>2. read = c + 1 .. c + size /\ Cardinality(read) = size /\ size \in Nat /\ c + size <= Len(file)
    <3>1. BatchSize \in Nat \ {0}
      BY ImportJobAssumption
    <3>2. Len(file) \in Nat /\ c \in 0 .. Len(file)
      BY <1>1
    <3> HIDE DEF c
    <3> DEFINE R == Following(Len(file), c, BatchSize)
    <3>3. R = c + 1 .. c + size /\ Cardinality(R) = size /\ size \in Nat /\ c + size <= Len(file)
      BY <3>1, <3>2, LinesOfBatch
    <3> HIDE DEF size, R
    <3>4. read = R
      BY <2>1 DEF R
    <3> QED BY <3>3, <3>4
  <2> HIDE DEF size
  <2>3. read \subseteq 1 .. Len(file)
    BY <1>1, <2>2
  <2> QED BY <1>1, <2>2, <2>3
<1>3. /\ Writers \subseteq read /\ Failed \subseteq read /\ Rest \subseteq read
  BY DEF Writers, Parsed, Failed, Rest
<1>4. \A S : S \subseteq read => UpTo(S, c) = {} /\ UpTo(S, l) = S
  <2>1. \A k \in read : ~(k <= c) /\ k <= l
    <3> HIDE DEF c, l
    <3> QED BY <1>2
  <2> QED BY <2>1 DEF UpTo
<1>5. /\ job.counts.succeeded \in Nat /\ job.counts.failed \in Nat /\ job.counts.skipped \in Nat
      /\ job.counts = [succeeded |-> job.counts.succeeded, failed |-> job.counts.failed,
                        skipped |-> job.counts.skipped]
  BY <1>1 DEF Counters
<1>6. After(c) = ref
  <2>1. UpTo(Writers, c) = {} /\ UpTo(Failed, c) = {} /\ UpTo(Rest, c) = {}
    BY <1>3, <1>4
  <2>2. After(c) = [table |-> table \cup {},
                    writer |-> [e \in Emails |-> writer[e]],
                    counts |-> [succeeded |-> job.counts.succeeded + 0,
                                failed |-> job.counts.failed + 0,
                                skipped |-> job.counts.skipped + 0]]
    <3>1. {file[k] : k \in {}} = {} /\ \A e : ~\E k \in {} : file[k] = e
      OBVIOUS
    <3> QED BY <2>1, <3>1, FS_EmptySet DEF After
  <2>3. [e \in Emails |-> writer[e]] = writer
    BY <1>1
  <2>4. /\ job.counts.succeeded + 0 = job.counts.succeeded
        /\ job.counts.failed + 0 = job.counts.failed
        /\ job.counts.skipped + 0 = job.counts.skipped
    BY <1>5
  <2>5. After(c) = [table |-> table, writer |-> writer, counts |-> job.counts]
    BY <1>5, <2>2, <2>3, <2>4
  <2> QED BY <2>5 DEF AsIfLineByLine
<1>7. After(l) = [table |-> table \cup Written,
                  writer |-> [e \in Emails |-> IF e \in Written THEN LineOf(e) ELSE writer[e]],
                  counts |-> AddBatch(job.counts)]
  <2>1. UpTo(Writers, l) = Writers /\ UpTo(Failed, l) = Failed /\ UpTo(Rest, l) = Rest
    BY <1>3, <1>4
  <2>2. {file[i] : i \in Writers} = Written
    BY <1>1, <1>2, WritersAre
  <2>3. \A e : (\E k \in Writers : file[k] = e) <=> e \in Written
    BY <2>2
  <2>4. AddBatch(job.counts) =
           [succeeded |-> job.counts.succeeded + Cardinality(Writers),
            failed |-> job.counts.failed + Cardinality(Failed),
            skipped |-> job.counts.skipped + Cardinality(Rest)]
    <3> DEFINE n == Cardinality(read)
               p == Cardinality(Parsed)
               f == Cardinality(Failed)
               s == Cardinality(Rest)
               w == Inserted
               x == job.counts.skipped
    <3>1. /\ n = w + f + s /\ Cardinality(Writers) = w
          /\ n \in Nat /\ p \in Nat /\ f \in Nat /\ s \in Nat /\ w \in Nat /\ x \in Nat
      BY <1>2, <1>5, BatchSizes
    <3>2. AddBatch(job.counts) = [succeeded |-> job.counts.succeeded + w,
                                  failed |-> job.counts.failed + f,
                                  skipped |-> x + (p - w) + (n - p - f)]
      BY DEF AddBatch
    <3> HIDE DEF n, p, f, s, w, x
    <3>3. x + (p - w) + (n - p - f) = x + s
      BY <3>1
    <3> QED BY <3>1, <3>2, <3>3 DEF f, s, x
  <2> HIDE DEF c, l
  <2>5. After(l).table = table \cup Written
    BY <2>1, <2>2 DEF After
  <2>6. After(l).writer = [e \in Emails |-> IF e \in Written THEN LineOf(e) ELSE writer[e]]
    BY <2>1, <2>3 DEF After
  <2>7. After(l).counts = AddBatch(job.counts)
    BY <2>1, <2>4 DEF After
  <2>8. After(l) = [table |-> After(l).table, writer |-> After(l).writer, counts |-> After(l).counts]
    BY DEF After
  <2> QED BY <2>5, <2>6, <2>7, <2>8
<1>8. ImportLines(After(c), c, l) = After(l)
  <2>1. ASSUME NEW i \in c + 1 .. l PROVE After(i) = ImportLine(After(i - 1), i)
    BY <1>2, LineByLine
  <2> HIDE DEF c, l
  <2> QED BY <1>2, <2>1, ImportLinesIs
<1> QED BY <1>6, <1>7, <1>8

-----------------------------------------------------------------------------
LEMMA Initially == Init => IInv
<1> SUFFICES ASSUME Init PROVE IInv
  OBVIOUS
<1>1. file \in Seq(Lines) /\ Len(file) \in 1 .. MaxLines
  <2>1. file \in BoundedSeq(Lines, MaxLines) /\ file # <<>>
    BY DEF Init
  <2>3. PICK n \in 0 .. MaxLines : file \in [1 .. n -> Lines]
    BY <2>1 DEF BoundedSeq, SeqOf
  <2>4. n \in Nat /\ MaxLines \in Nat
    BY ImportJobAssumption
  <2>5. file \in Seq(Lines) /\ Len(file) = n
    BY <2>3, <2>4
  <2>6. n # 0
    BY <2>1, <2>5
  <2> QED BY <2>4, <2>5, <2>6
<1>2. TypeOK
  <2>1. NoCount \in Counters
    BY DEF NoCount, Counters
  <2>2. /\ MaxLines \in Nat /\ MaxCrashes \in Nat /\ 0 \in 0 .. MaxLines /\ 0 \in 0 .. MaxCrashes
    BY ImportJobAssumption
  <2>3. /\ mode \in Modes /\ table \subseteq Emails /\ writer \in [Emails -> 0 .. MaxLines]
        /\ wpc \in {"free", "claimed", "read", "failing", "down"}
        /\ read \subseteq 1 .. MaxLines /\ eof \in BOOLEAN /\ crashes \in 0 .. MaxCrashes
    BY <2>2 DEF Init
  <2>4. job \in [status: JobStatuses,
                 cancel: BOOLEAN, cursor: 0 .. MaxLines, processed: 0 .. MaxLines,
                 counts: Counters, total: 0 .. MaxLines, cause: {"none", "duplicate", "other"}]
    BY <2>1, <2>2 DEF Init, JobStatuses
  <2>5. ref \in [table: SUBSET Emails, writer: [Emails -> 0 .. MaxLines], counts: Counters]
    BY <2>1, <2>3 DEF Init
  <2> QED BY <1>1, <2>3, <2>4, <2>5 DEF TypeOK
<1>3. Row /\ Stretch
  BY <1>1, ImportJobAssumption DEF Init, Row, Stretch
<1>4. CountsAddUp /\ AsIfLineByLine
  BY DEF Init, CountsAddUp, AsIfLineByLine, NoCount
<1> QED BY <1>2, <1>3, <1>4 DEF IInv

(* The offset and the counters move together, and never past the end. *)
LEMMA WriteBatchKeeps == IInv /\ WriteBatch => IInv'
<1> SUFFICES ASSUME IInv, WriteBatch PROVE IInv'
  OBVIOUS
<1>1. /\ TypeOK /\ Row /\ Stretch /\ CountsAddUp /\ AsIfLineByLine
      /\ wpc = "read" /\ ~Conflict
  BY DEF IInv, WriteBatch
<1>2. /\ job.status = "running" /\ job.total = Len(file) /\ job.processed = job.cursor
      /\ read = Following(Len(file), job.cursor, BatchSize)
      /\ eof <=> job.cursor + BatchSize > Len(file)
  BY <1>1 DEF Row, Stretch, CountsAddUp
<1>3. /\ Len(file) \in Nat /\ Len(file) <= MaxLines /\ MaxLines \in Nat
      /\ job.cursor \in 0 .. Len(file) /\ BatchSize \in Nat \ {0}
  BY <1>1, ImportJobAssumption DEF TypeOK, Row
<1> DEFINE lines == Cardinality(read)
<1>4. /\ lines = BatchOf(Len(file), job.cursor, BatchSize)
      /\ lines \in Nat /\ job.cursor + lines <= Len(file)
  BY <1>2, <1>3, LinesOfBatch
<1>5. eof => job.cursor + lines = Len(file)
  <2> HIDE DEF lines
  <2> QED BY <1>2, <1>3, <1>4 DEF BatchOf
<1>6. PICK lost \in BOOLEAN :
        /\ wpc' = IF lost THEN "failing" ELSE "free"
        /\ job' = [job EXCEPT !.cursor = @ + lines,
                              !.processed = @ + lines,
                              !.counts = AddBatch(job.counts),
                              !.status = AfterBatch,
                              !.cause = IF lost THEN "other" ELSE @]
  BY DEF WriteBatch
<1>7. /\ AfterBatch \in {"cancelled", "completed", "queued"}
      /\ AfterBatch = "completed" => job.cursor + lines = Len(file)
  BY <1>5 DEF AfterBatch
<1> HIDE DEF lines
<1> DEFINE new == AddBatch(job.counts)
<1>8. new \in Counters /\ new.succeeded + new.failed + new.skipped = job.processed + lines
  <2> DEFINE p == Cardinality(Parsed)
             f == Cardinality(Failed)
             s == Cardinality(Rest)
             w == Inserted
             c == job.counts
  <2>1. read \subseteq 1 .. Len(file)
    BY <1>2 DEF Following
  <2>2. /\ lines = w + f + s
        /\ lines \in Nat /\ p \in Nat /\ f \in Nat /\ s \in Nat /\ w \in Nat
    BY <1>1, <2>1, BatchSizes DEF lines
  <2>3. /\ c.succeeded \in Nat /\ c.failed \in Nat /\ c.skipped \in Nat
        /\ job.processed = c.succeeded + c.failed + c.skipped
    BY <1>1 DEF TypeOK, Counters, CountsAddUp
  <2>4. new = [succeeded |-> c.succeeded + w, failed |-> c.failed + f,
               skipped |-> c.skipped + (p - w) + (lines - p - f)]
    BY DEF AddBatch, lines
  <2> HIDE DEF p, f, s, w, c, new
  <2>5. c.skipped + (p - w) + (lines - p - f) = c.skipped + s
    BY <2>2, <2>3
  <2>6. new = [succeeded |-> c.succeeded + w, failed |-> c.failed + f, skipped |-> c.skipped + s]
    BY <2>4, <2>5
  <2>7. c.succeeded + w \in Nat /\ c.failed + f \in Nat /\ c.skipped + s \in Nat
    BY <2>2, <2>3
  <2>8. new \in Counters
    BY <2>6, <2>7 DEF Counters
  <2>9. (c.succeeded + w) + (c.failed + f) + (c.skipped + s) = job.processed + lines
    BY <2>2, <2>3
  <2> QED BY <2>6, <2>8, <2>9
<1>9. /\ job'.cursor = job.cursor + lines /\ job'.processed = job.processed + lines
      /\ job'.counts = new /\ job'.status = AfterBatch /\ job'.total = job.total
      /\ job'.cancel = job.cancel
      /\ wpc' \in {"failing", "free"} /\ read' = {} /\ eof' = FALSE
      /\ UNCHANGED <<file, mode, crashes>>
  BY <1>1, <1>6 DEF TypeOK, new, WriteBatch, LetGo, spool
<1>10. /\ table' = table \cup Written
       /\ writer' = [e \in Emails |-> IF e \in Written THEN LineOf(e) ELSE writer[e]]
       /\ ref' = [table |-> table', writer |-> writer', counts |-> new]
  <2>1. ref' = ImportLines(ref, job.cursor, job.cursor + Cardinality(read))
    BY DEF WriteBatch
  <2> QED BY <1>1, <2>1, WholeBatch DEF WriteBatch
<1>11. AsIfLineByLine'
  BY <1>9, <1>10 DEF AsIfLineByLine
<1>12. table' \subseteq Emails /\ writer' \in [Emails -> 0 .. MaxLines]
  <2>1. /\ table \subseteq Emails /\ writer \in [Emails -> 0 .. MaxLines] /\ mode \in {"update", "skip"}
        /\ read \subseteq 1 .. Len(file)
    BY <1>1, <1>2, ImportJobAssumption DEF TypeOK, Following
  <2>2. Written \subseteq Emails
    BY DEF Written, ParsedEmails, Parsed
  <2>3. ASSUME NEW e \in Written PROVE LineOf(e) \in 0 .. MaxLines
    <3>1. PICK i \in Writers : file[i] = e
      BY <1>1, <1>3, <2>1, WritersAre
    <3>2. LineOf(e) = i
      BY <1>1, <1>3, <2>1, <3>1, WritersAre
    <3> QED BY <1>3, <2>1, <3>2 DEF Writers, Parsed
  <2> QED BY <1>10, <2>1, <2>2, <2>3
<1>13. TypeOK'
  <2>1. job.cursor + lines \in 0 .. MaxLines /\ job.processed + lines \in 0 .. MaxLines
    BY <1>2, <1>3, <1>4
  <2>2. (IF lost THEN "other" ELSE job.cause) \in {"none", "duplicate", "other"}
    BY <1>1 DEF TypeOK
  <2>3. AfterBatch \in JobStatuses
    BY <1>7 DEF JobStatuses
  <2>4. job' \in [status: JobStatuses,
                  cancel: BOOLEAN, cursor: 0 .. MaxLines, processed: 0 .. MaxLines,
                  counts: Counters, total: 0 .. MaxLines, cause: {"none", "duplicate", "other"}]
    <3> HIDE DEF AfterBatch, new
    <3> QED BY <1>1, <1>6, <1>8, <2>1, <2>2, <2>3 DEF TypeOK, new
  <2>5. ref' \in [table: SUBSET Emails, writer: [Emails -> 0 .. MaxLines], counts: Counters]
    BY <1>8, <1>10, <1>12
  <2> QED BY <1>1, <1>9, <1>12, <2>4, <2>5 DEF TypeOK
<1>14. Row' /\ Stretch'
  BY <1>2, <1>3, <1>4, <1>7, <1>9 DEF Row, Stretch
<1>15. CountsAddUp'
  BY <1>2, <1>7, <1>8, <1>9 DEF CountsAddUp
<1> QED BY <1>11, <1>13, <1>14, <1>15 DEF IInv

(* Deleting an account deletes it from the history too. *)
LEMMA DeleteAccountKeeps ==
    ASSUME IInv, NEW e \in Emails, DeleteAccount(e)
    PROVE  IInv'
<1>1. /\ TypeOK /\ Row /\ Stretch /\ CountsAddUp /\ AsIfLineByLine
      /\ UNCHANGED <<file, mode, job, wpc, read, eof, crashes>>
      /\ table' = table \ {e} /\ writer' = [writer EXCEPT ![e] = 0]
  BY DEF IInv, DeleteAccount, spool, memory
<1>2. ref' = [table |-> table', writer |-> writer', counts |-> job.counts]
  <2>1. ref' = [ref EXCEPT !.table = @ \ {e}, !.writer = [@ EXCEPT ![e] = 0]]
    BY DEF DeleteAccount
  <2>2. ref = [table |-> table, writer |-> writer, counts |-> job.counts]
    BY <1>1 DEF AsIfLineByLine
  <2>3. ref.table = table /\ ref.writer = writer
    BY <2>2
  <2> DEFINE t == table \ {e}
             w == [writer EXCEPT ![e] = 0]
             n == job.counts
  <2>4. ref' = [[table |-> table, writer |-> writer, counts |-> n] EXCEPT !.table = t, !.writer = w]
    BY <2>1, <2>2, <2>3
  <2>5. table' = t /\ writer' = w
    BY <1>1
  <2> HIDE DEF t, w, n
  <2> QED BY <2>4, <2>5 DEF n
<1>3. MaxLines \in Nat /\ job.counts \in Counters
  BY <1>1, ImportJobAssumption DEF TypeOK
<1>4. table' \subseteq Emails /\ writer' \in [Emails -> 0 .. MaxLines]
  BY <1>1, <1>3 DEF TypeOK
<1>5. ref' \in [table: SUBSET Emails, writer: [Emails -> 0 .. MaxLines], counts: Counters]
  BY <1>2, <1>3, <1>4
<1>6. TypeOK'
  BY <1>1, <1>4, <1>5 DEF TypeOK
<1>7. Row' /\ Stretch' /\ CountsAddUp' /\ AsIfLineByLine'
  BY <1>1, <1>2 DEF Row, Stretch, CountsAddUp, AsIfLineByLine
<1> QED BY <1>6, <1>7 DEF IInv

(* What the steps that neither commit a batch nor read one do to the job. *)
LEMMA JobKeeps ==
    ASSUME IInv,
           CreateImport \/ CancelJob \/ Claim \/ RaiseConflict \/ RaiseOther \/ FailJob \/ Recover
    PROVE  IInv'
<1>1. TypeOK /\ Row /\ Stretch /\ CountsAddUp /\ AsIfLineByLine
  BY DEF IInv
<1>2. /\ Len(file) \in 0 .. MaxLines /\ MaxLines \in Nat
      /\ job \in [status: JobStatuses,
                  cancel: BOOLEAN, cursor: 0 .. MaxLines, processed: 0 .. MaxLines,
                  counts: Counters, total: 0 .. MaxLines, cause: {"none", "duplicate", "other"}]
  BY <1>1, ImportJobAssumption DEF TypeOK
<1>3. /\ UNCHANGED <<file, mode, table, writer, crashes, ref>>
      /\ \/ UNCHANGED <<read, eof>>
         \/ read' = {} /\ eof' = FALSE
      /\ wpc' \in {"free", "claimed", "read", "failing", "down"}
  BY <1>1 DEF CreateImport, CancelJob, Claim, RaiseConflict, RaiseOther, FailJob, Recover,
              spool, accounts, memory, LetGo, TypeOK
<1>4. /\ job'.cursor = job.cursor /\ job'.processed = job.processed /\ job'.counts = job.counts
      /\ job' \in [status: JobStatuses,
                   cancel: BOOLEAN, cursor: 0 .. MaxLines, processed: 0 .. MaxLines,
                   counts: Counters, total: 0 .. MaxLines, cause: {"none", "duplicate", "other"}]
      /\ \/ job'.total = job.total
         \/ job.status = "none" /\ job'.total = Len(file)
      /\ job'.status = "completed" => job.status = "completed" /\ job'.total = job.total
  <2>1. CASE CreateImport
    BY <1>2, <2>1 DEF CreateImport, JobStatuses
  <2>2. CASE CancelJob
    BY <1>2, <2>2 DEF CancelJob
  <2>3. CASE Claim
    BY <1>2, <2>3 DEF Claim, JobStatuses
  <2>4. CASE RaiseConflict \/ RaiseOther
    BY <1>2, <2>4 DEF RaiseConflict, RaiseOther
  <2>5. CASE FailJob
    BY <1>2, <2>5 DEF FailJob, JobStatuses
  <2>6. CASE Recover
    BY <1>2, <2>6 DEF Recover, RecoveredJob, JobStatuses
  <2> QED BY <2>1, <2>2, <2>3, <2>4, <2>5, <2>6
<1>5. TypeOK'
  BY <1>1, <1>3, <1>4 DEF TypeOK
<1>6. Row' /\ Stretch'
  <2>1. CASE CreateImport
    BY <1>1, <1>2, <1>3, <2>1 DEF CreateImport, Row, Stretch, spool, accounts, memory
  <2>2. CASE CancelJob
    BY <1>1, <1>2, <1>3, <2>2 DEF CancelJob, Row, Stretch, spool, accounts, memory
  <2>3. CASE Claim
    BY <1>1, <1>2, <1>3, <2>3 DEF Claim, Row, Stretch, spool, accounts, memory
  <2>4. CASE RaiseConflict \/ RaiseOther
    BY <1>1, <1>2, <1>3, <2>4 DEF RaiseConflict, RaiseOther, Row, Stretch, spool, accounts, memory
  <2>5. CASE FailJob
    BY <1>1, <1>2, <1>3, <2>5 DEF FailJob, Row, Stretch, spool, accounts, memory
  <2>6. CASE Recover
    BY <1>1, <1>2, <1>3, <2>6 DEF Recover, RecoveredJob, Row, Stretch, spool, accounts, memory
  <2> QED BY <2>1, <2>2, <2>3, <2>4, <2>5, <2>6
<1>7. CountsAddUp' /\ AsIfLineByLine'
  BY <1>1, <1>3, <1>4 DEF CountsAddUp, AsIfLineByLine
<1> QED BY <1>5, <1>6, <1>7 DEF IInv

(* A batch is read, the worker dies, or nothing happens. *)
LEMMA OthersKeep ==
    ASSUME IInv, ReadBatch \/ Crash \/ ClaimNothing \/ UNCHANGED vars
    PROVE  IInv'
<1>1. TypeOK /\ Row /\ Stretch /\ CountsAddUp /\ AsIfLineByLine
  BY DEF IInv
<1>2. CASE ReadBatch
  <2>1. /\ wpc = "claimed" /\ wpc' = "read"
        /\ UNCHANGED <<file, mode, table, writer, job, crashes, ref>>
        /\ read' = Following(Len(file), job.cursor, BatchSize)
        /\ eof' = (job.cursor + BatchSize > Len(file))
    BY <1>2 DEF ReadBatch, SeesEnd, spool, accounts, Following
  <2>2. Len(file) <= MaxLines /\ Len(file) \in Nat /\ MaxLines \in Nat
    BY <1>1, ImportJobAssumption DEF TypeOK
  <2>3. Following(Len(file), job.cursor, BatchSize) \subseteq 1 .. MaxLines
    BY <2>2 DEF Following
  <2>4. TypeOK'
    BY <1>1, <2>1, <2>3 DEF TypeOK
  <2>5. Row' /\ Stretch'
    <3>1. job.status = "running"
      BY <1>1, <2>1 DEF Stretch
    <3> QED BY <1>1, <2>1, <3>1 DEF Row, Stretch
  <2>6. CountsAddUp' /\ AsIfLineByLine'
    BY <1>1, <2>1 DEF CountsAddUp, AsIfLineByLine
  <2> QED BY <2>4, <2>5, <2>6 DEF IInv
<1>3. CASE Crash
  <2>1. /\ UNCHANGED <<file, mode, table, writer, job, ref>>
        /\ wpc' = "down" /\ read' = {} /\ eof' = FALSE /\ crashes' \in 0 .. MaxCrashes
    BY <1>1, <1>3, ImportJobAssumption DEF Crash, LetGo, spool, accounts, TypeOK
  <2> QED BY <1>1, <2>1 DEF IInv, TypeOK, Row, Stretch, CountsAddUp, AsIfLineByLine
<1>4. CASE ClaimNothing \/ UNCHANGED vars
  <2>1. UNCHANGED <<file, mode, table, writer, job, wpc, read, eof, crashes, ref>>
    BY <1>4 DEF ClaimNothing, vars, spool, accounts, memory
  <2> QED BY <1>1, <2>1 DEF IInv, TypeOK, Row, Stretch, CountsAddUp, AsIfLineByLine
<1> QED BY <1>2, <1>3, <1>4

-----------------------------------------------------------------------------
(* Every step preserves the invariant, so it holds throughout. *)
LEMMA Inductive == IInv /\ [Next]_vars => IInv'
  BY WriteBatchKeeps, DeleteAccountKeeps, JobKeeps, OthersKeep DEF Next, WorkerStep

LEMMA Invariance == Spec => []IInv
  BY Initially, Inductive, PTL DEF Spec

(* The variables stay in their types: no counter goes below zero and the      *)
(* offset never passes the end of the file (process_import).                 *)
THEOREM TypeCorrect == Spec => []TypeOK
<1>1. IInv => TypeOK
  BY DEF IInv
<1> QED BY <1>1, Invariance, PTL

(* At every commit the accounts and the counters are what importing the lines *)
(* before the offset one by one would have given, whatever the size of a     *)
(* batch, the file, the crashes and the accounts deleted in between          *)
(* (process_import, upsert_accounts).                                        *)
THEOREM BatchesAreLines == Spec => []AsIfLineByLine
<1>1. IInv => AsIfLineByLine
  BY DEF IInv
<1> QED BY <1>1, Invariance, PTL

(* The counters of an import add up to the lines before its offset, and a job *)
(* that says "completed" has done every line of its file (process_import).   *)
THEOREM EveryLineCounted == Spec => []CountsAddUp
<1>1. IInv => CountsAddUp
  BY DEF IInv
<1> QED BY <1>1, Invariance, PTL

-----------------------------------------------------------------------------
(* The import is a job of JobContract. *)
Still == UNCHANGED <<job.status, job.cancel, BatchesLeft>>

(* The three columns the contract sees, as the functions it takes them for. *)
LEMMA SeenAs ==
    /\ \A from, to : job.status \in from /\ job'.status = to
          => Contract!Move("import", from, to)
    /\ BatchesLeft' = BatchesLeft - 1 => Contract!CommitOne("import")
<1>1. ASSUME NEW from, NEW to, job.status \in from, job'.status = to
      PROVE  Contract!Move("import", from, to)
  BY <1>1, OneValue DEF Contract!Move
<1>2. ASSUME BatchesLeft' = BatchesLeft - 1 PROVE Contract!CommitOne("import")
  <2> HIDE DEF BatchesLeft
  <2> QED BY <1>2, OneValue DEF Contract!CommitOne
<1> QED BY <1>1, <1>2

(* A batch that goes on commits one of at least two that were left; the last  *)
(* one commits what was left, or the empty batch.                            *)
LEMMA BatchCounts ==
    ASSUME IInv, WriteBatch
    PROVE  /\ job.status = "running" /\ job'.cancel = job.cancel /\ job'.status = AfterBatch
           /\ ~eof => BatchesLeft > 1 /\ BatchesLeft' = BatchesLeft - 1
           /\ eof => BatchesLeft' \in {BatchesLeft, BatchesLeft - 1}
<1> DEFINE n == Len(file)
           c == job.cursor
           b == BatchSize
           lines == Cardinality(read)
<1>1. /\ TypeOK /\ Row /\ Stretch /\ wpc = "read"
  BY DEF IInv, WriteBatch
<1>2. /\ n \in Nat /\ c \in 0 .. n /\ b \in Nat \ {0}
      /\ job.status = "running" /\ job.total = n
      /\ read = Following(n, c, b)
      /\ eof <=> c + b > n
  BY <1>1, ImportJobAssumption DEF TypeOK, Row, Stretch
<1>3. lines = BatchOf(n, c, b)
  <2> HIDE DEF n, c, b
  <2> QED BY <1>2, LinesOfBatch
<1>4. /\ job'.cursor = c + lines /\ job'.total = job.total
      /\ job'.cancel = job.cancel /\ job'.status = AfterBatch
  BY <1>1 DEF WriteBatch, TypeOK
<1>5. AfterBatch # "none"
  BY DEF AfterBatch
<1>6. /\ BatchesLeft = n \div b + 1 - c \div b
      /\ BatchesLeft' = n \div b + 1 - (c + lines) \div b
  BY <1>2, <1>4, <1>5 DEF BatchesLeft
<1>7. c \in Nat /\ c + b \in Nat
  BY <1>2
<1> HIDE DEF n, c, b, lines
<1>8. ASSUME ~eof PROVE BatchesLeft > 1 /\ BatchesLeft' = BatchesLeft - 1
  <2>1. lines = b /\ c + b <= n
    BY <1>2, <1>3, <1>8 DEF BatchOf
  <2>2. /\ (c + b) \div b = c \div b + 1 /\ (c + b) \div b <= n \div b
        /\ c \div b \in Nat /\ n \div b \in Nat
    <3>1. (c + b) \div b <= n \div b /\ n \div b \in Nat
      BY <1>2, <1>7, <2>1, Quotients
    <3>2. c <= c
      BY <1>7
    <3>3. (c + b) \div b = c \div b + 1 /\ c \div b \in Nat
      BY <1>2, <1>7, <3>2, Quotients
    <3> QED BY <3>1, <3>3
  <2> QED BY <1>6, <2>1, <2>2
<1>9. ASSUME eof PROVE BatchesLeft' \in {BatchesLeft, BatchesLeft - 1}
  <2>1. c + lines = n /\ n <= c + b /\ c <= n
    BY <1>2, <1>3, <1>9 DEF BatchOf
  <2>2. /\ (c + b) \div b = c \div b + 1 /\ n \div b <= (c + b) \div b /\ c \div b <= n \div b
        /\ c \div b \in Nat /\ n \div b \in Nat
    BY <1>2, <1>7, <2>1, Quotients
  <2>3. n \div b = c \div b \/ n \div b = c \div b + 1
    BY <2>2
  <2> QED BY <1>6, <2>1, <2>2, <2>3
<1> QED BY <1>2, <1>4, <1>8, <1>9 DEF c

LEMMA WriteBatchRefines ==
    ASSUME IInv, WriteBatch PROVE Contract!Next
<1>1. /\ job.status = "running" /\ job'.cancel = job.cancel /\ job'.status = AfterBatch
      /\ ~eof => BatchesLeft > 1 /\ BatchesLeft' = BatchesLeft - 1
      /\ eof => BatchesLeft' \in {BatchesLeft, BatchesLeft - 1}
  BY BatchCounts
<1> HIDE DEF BatchesLeft
<1>2. BatchesLeft' \in {BatchesLeft, BatchesLeft - 1}
  BY <1>1
<1>3. CASE job.cancel
  <2>1. Contract!Move("import", {"running"}, "cancelled") /\ Contract!Move("import", {"queued", "running"}, "cancelled")
    BY <1>1, <1>3, SeenAs DEF AfterBatch
  <2> QED BY <1>1, <1>2, <1>3, <2>1, SeenAs DEF Contract!Next, Contract!Stop
<1>4. CASE ~job.cancel /\ eof
  <2>1. Contract!Move("import", {"running"}, "completed")
    BY <1>1, <1>4, SeenAs DEF AfterBatch
  <2> QED BY <1>1, <1>2, <1>4, <2>1, SeenAs DEF Contract!Next, Contract!Complete
<1>5. CASE ~job.cancel /\ ~eof
  <2>1. Contract!Move("import", {"running"}, "queued")
    BY <1>1, <1>5, SeenAs DEF AfterBatch
  <2> QED BY <1>1, <1>5, <2>1, SeenAs DEF Contract!Next, Contract!Yield
<1> QED BY <1>3, <1>4, <1>5

(* A new import has its lines, and the empty batch, to do. *)
LEMMA CreateImportRefines ==
    ASSUME IInv, CreateImport PROVE Contract!Next
<1>1. /\ job.status = "none" /\ job.cursor = 0 /\ Len(file) \in Nat /\ BatchSize \in Nat \ {0}
      /\ job \in [status: JobStatuses,
                  cancel: BOOLEAN, cursor: 0 .. MaxLines, processed: 0 .. MaxLines,
                  counts: Counters, total: 0 .. MaxLines, cause: {"none", "duplicate", "other"}]
  BY ImportJobAssumption DEF IInv, TypeOK, Row, CreateImport
<1>2. /\ job'.status = "queued" /\ job'.total = Len(file) /\ job'.cursor = 0
      /\ job'.cancel = job.cancel
  BY <1>1 DEF CreateImport
<1>3. BatchesLeft' = Len(file) \div BatchSize + 1 - 0 \div BatchSize
  BY <1>2 DEF BatchesLeft
<1>4. BatchesLeft' \in Nat \ {0}
  <2>1. Len(file) \div BatchSize \in Nat /\ 0 \div BatchSize = 0
    <3> DEFINE n == Len(file)
               b == BatchSize
    <3>1. n \in Nat /\ n <= n /\ b \in Nat \ {0}
      BY <1>1
    <3> HIDE DEF n, b
    <3>2. n \div b \in Nat /\ 0 \div b = 0
      BY <3>1, Quotients
    <3> QED BY <3>2 DEF n, b
  <2> QED BY <1>3, <2>1
<1> HIDE DEF BatchesLeft
<1>5. Contract!Move("import", {"none"}, "queued")
  BY <1>1, <1>2, SeenAs
<1>6. Contract!Submit("import")
  BY <1>2, <1>4, <1>5, OneValue DEF Contract!Submit
<1> QED BY <1>6 DEF Contract!Next

LEMMA StepRefines ==
    ASSUME IInv, [Next]_vars PROVE Contract!Next \/ Still
<1>1. /\ job \in [status: JobStatuses,
                  cancel: BOOLEAN, cursor: 0 .. MaxLines, processed: 0 .. MaxLines,
                  counts: Counters, total: 0 .. MaxLines, cause: {"none", "duplicate", "other"}]
      /\ wpc = "failing" => job.status \in {"queued", "running", "completed", "cancelled"}
  BY DEF IInv, TypeOK, Stretch
<1>2. ASSUME UNCHANGED <<job.cursor, job.total>>, job.status # "none", job'.status # "none"
      PROVE  UNCHANGED BatchesLeft
  BY <1>2 DEF BatchesLeft
<1>3. CASE CancelJob
  <2>1. /\ job.status # "none" /\ job'.cancel = TRUE
        /\ UNCHANGED <<job.cursor, job.total, job.status>>
    BY <1>1, <1>3 DEF CancelJob
  <2>2. UNCHANGED BatchesLeft
    BY <1>2, <2>1
  <2> HIDE DEF BatchesLeft
  <2> QED BY <2>1, <2>2, OneValue DEF Contract!Next, Contract!Cancel
<1>4. CASE Claim
  <2>1. /\ job.status = "queued" /\ job'.status = IF job.cancel THEN "cancelled" ELSE "running"
        /\ UNCHANGED <<job.cursor, job.total, job.cancel>>
    BY <1>1, <1>4 DEF Claim
  <2>2. UNCHANGED BatchesLeft
    BY <1>2, <2>1
  <2> HIDE DEF BatchesLeft
  <2>3. CASE job.cancel
    <3>1. Contract!Move("import", {"queued", "running"}, "cancelled")
      BY <2>1, <2>3, SeenAs
    <3> QED BY <2>1, <2>2, <2>3, <3>1 DEF Contract!Next, Contract!Stop
  <2>4. CASE ~job.cancel
    <3>1. Contract!Move("import", {"queued"}, "running")
      BY <2>1, <2>4, SeenAs
    <3> QED BY <2>1, <2>2, <2>4, <3>1 DEF Contract!Next, Contract!Start
  <2> QED BY <2>3, <2>4
<1>5. CASE FailJob
  <2>1. /\ job.status \in {"queued", "running", "completed", "cancelled"} /\ job'.status = "failed"
        /\ UNCHANGED <<job.cursor, job.total, job.cancel>>
    BY <1>1, <1>5 DEF FailJob
  <2>2. UNCHANGED BatchesLeft
    BY <1>2, <2>1
  <2> HIDE DEF BatchesLeft
  <2>3. Contract!Move("import", {"queued", "running", "completed", "cancelled"}, "failed")
    BY <2>1, SeenAs
  <2> QED BY <2>1, <2>2, <2>3 DEF Contract!Next, Contract!Fail
<1>6. CASE Recover
  <2>1. /\ UNCHANGED <<job.cursor, job.total, job.cancel>>
        /\ job'.status = IF job.status = "running" THEN "queued" ELSE job.status
    BY <1>1, <1>6 DEF Recover, RecoveredJob
  <2>2. CASE job.status = "running"
    <3>1. UNCHANGED BatchesLeft
      BY <1>2, <2>1, <2>2
    <3> HIDE DEF BatchesLeft
    <3>2. Contract!Move("import", {"running"}, "queued")
      BY <2>1, <2>2, SeenAs
    <3> QED BY <2>1, <3>1, <3>2 DEF Contract!Next, Contract!Interrupt
  <2>3. CASE job.status # "running"
    <3>1. UNCHANGED BatchesLeft
      BY <2>1, <2>3 DEF BatchesLeft
    <3> QED BY <2>1, <2>3, <3>1 DEF Still
  <2> QED BY <2>2, <2>3
<1>7. CASE \/ \E e \in Emails : DeleteAccount(e)
           \/ RaiseOther \/ RaiseConflict \/ Crash \/ ClaimNothing \/ ReadBatch \/ UNCHANGED vars
  <2>1. UNCHANGED <<job.status, job.cancel, job.cursor, job.total>>
    BY <1>1, <1>7 DEF DeleteAccount, RaiseOther, RaiseConflict, Crash, ClaimNothing, ReadBatch, vars
  <2> QED BY <2>1 DEF Still, BatchesLeft
<1> QED BY <1>3, <1>4, <1>5, <1>6, <1>7, WriteBatchRefines, CreateImportRefines DEF Next, WorkerStep

(* An import is a job of JobContract: from its insertion to its end it commits *)
(* the batches its lines are worth, each once, and at most the one in work    *)
(* after a cancellation; this is what JobQueue takes it for (process_import). *)
THEOREM Refinement == Spec => ContractSpec
<1>1. Init => Contract!Init
  BY DEF Init, Contract!Init, BatchesLeft
<1>2. IInv /\ [Next]_vars => [Contract!Next]_(Contract!vars)
  BY StepRefines DEF Still, Contract!vars
<1> QED
  BY <1>1, <1>2, Invariance, PTL DEF Spec, ContractSpec, Contract!Spec
=============================================================================
