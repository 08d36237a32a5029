--------------------------- MODULE WebAccessProofs ---------------------------
(***************************************************************************)
(* What WebAccess promises of logins and logouts, proved for any requests, *)
(* addresses and limits.                                                   *)
(*                                                                         *)
(* IInv is inductive.  It says that the attempts a window still holds are  *)
(* the verifications an address was granted (Granted), that the attempts   *)
(* of an address are held oldest first (OldestFirst), that the tracked     *)
(* addresses are in one line and within their bound (InLine), that no      *)
(* cookie of plain HTTP is a secure one (PlainCookie), and that only a     *)
(* login is verified and every login is of some address (ProperRequests).  *)
(***************************************************************************)
EXTENDS WebAccess, IdLemmas, SequenceTheorems

Granted ==
    /\ attempts \in [Addresses -> Seq(Ages)]
    /\ tries = [a \in Addresses |-> Recent(attempts[a])]
    /\ \A a \in Addresses : Len(tries[a]) <= MaxFailed

(* Times are taken from one clock and appended. *)
Descending(ages) == \A i, j \in 1 .. Len(ages) : i <= j => ages[j] <= ages[i]

OldestFirst == \A a \in Addresses : Descending(attempts[a])

(* R puts the members of S in a line. *)
Line(S, R) ==
    /\ R \subseteq S \X S
    /\ \A a, b \in S : <<a, b>> \in R <=> a # b /\ <<b, a>> \notin R
    /\ \A a, b, c \in S : <<a, b>> \in R /\ <<b, c>> \in R => <<a, c>> \in R

InLine ==
    /\ Line(Tracked, order)
    /\ IsFiniteSet(Tracked)
    /\ Cardinality(Tracked) <= MaxTracked

Limiter == Granted /\ OldestFirst /\ InLine

Cookies == [life: Lives, secure: BOOLEAN]

PlainCookie ==
    /\ jar \in [Names -> Cookies]
    /\ ~jar["http"].secure

(* Only a login is verified, and a login is of some address.                  *)
Proper(q) ==
    /\ q.at = "verifying" => q.path = "/login"
    /\ q.path = "/login" /\ q.at # "idle" => q.addr \in Addresses

ProperRequests ==
    /\ req \in [Requests -> RequestRecords]
    /\ \A r \in Requests : Proper(req[r])

(* The inductive invariant. *)
IInv == Limiter /\ PlainCookie /\ ProperRequests

-----------------------------------------------------------------------------
LEMMA Limits ==
    /\ Window \in Nat /\ MaxFailed \in Nat \ {0} /\ MaxTracked \in Nat \ {0}
    /\ SessionLife \in Nat \ {0} /\ BodyLimit \in Nat \ {0}
  BY WebAccessAssumption

(* The loop of _prune_attempts stops at one place.                            *)
LEMMA StaleIs ==
    ASSUME NEW s \in Seq(Ages)
    PROVE  /\ Stale(s) \in 0 .. Len(s)
           /\ \A i \in 1 .. Stale(s) : s[i] > Window
           /\ Stale(s) < Len(s) => s[Stale(s) + 1] <= Window
<1> DEFINE Fits(n) == /\ n \in 0 .. Len(s)
                      /\ \A i \in 1 .. n : s[i] > Window
                      /\ n < Len(s) => s[n + 1] <= Window
<1> USE Limits DEF Ages
<1>1. \E n \in 0 .. Len(s) : Fits(n)
  <2> DEFINE Keep == {i \in 1 .. Len(s) : s[i] <= Window}
  <2>1. CASE Keep = {}
    <3>1. Fits(Len(s))
      BY <2>1, ElementOfSeq
    <3> QED BY <3>1
  <2>2. CASE Keep # {}
    <3> Keep \subseteq Nat
      OBVIOUS
    <3>1. PICK k \in Keep : \A i \in Keep : k <= i
      <4> HIDE DEF Keep
      <4> QED BY <2>2, LeastElement
    <3>2. Fits(k - 1)
      <4> SUFFICES ASSUME NEW i \in 1 .. k - 1 PROVE s[i] > Window
        BY <3>1
      <4>1. i \notin Keep /\ i \in 1 .. Len(s)
        BY <3>1
      <4>2. s[i] \in Nat /\ Window \in Nat
        BY <4>1, ElementOfSeq
      <4> QED BY <4>1, <4>2
    <3> QED BY <3>1, <3>2
  <2> QED BY <2>1, <2>2
<1> QED BY <1>1 DEF Stale

(* Nowhere else does it fit. *)
LEMMA StaleUnique ==
    ASSUME NEW s \in Seq(Ages), NEW n \in 0 .. Len(s),
           \A i \in 1 .. n : s[i] > Window,
           n < Len(s) => s[n + 1] <= Window
    PROVE  Stale(s) = n
<1> DEFINE k == Stale(s)
<1>1. /\ k \in 0 .. Len(s)
      /\ \A i \in 1 .. k : s[i] > Window
      /\ k < Len(s) => s[k + 1] <= Window
  BY StaleIs
<1>2. Window \in Nat /\ \A i \in 1 .. Len(s) : s[i] \in Nat
  BY Limits, ElementOfSeq DEF Ages
<1> HIDE DEF k
<1>3. ~ (k < n)
  <2> SUFFICES ASSUME k < n PROVE FALSE
    OBVIOUS
  <2>1. k + 1 \in 1 .. n /\ k + 1 \in 1 .. Len(s)
    BY <1>1
  <2> QED BY <1>1, <1>2, <2>1
<1>4. ~ (n < k)
  <2> SUFFICES ASSUME n < k PROVE FALSE
    OBVIOUS
  <2>1. n + 1 \in 1 .. k /\ n + 1 \in 1 .. Len(s)
    BY <1>1
  <2> QED BY <1>1, <1>2, <2>1
<1>5. k = n
  BY <1>1, <1>3, <1>4
<1> QED BY <1>5 DEF k

(* What is left of a window is a sequence of ages, and starts with a recent   *)
(* one.                                                                      *)
LEMMA RecentIs ==
    ASSUME NEW s \in Seq(Ages)
    PROVE  /\ Recent(s) \in Seq(Ages)
           /\ Len(Recent(s)) = Len(s) - Stale(s)
           /\ \A i \in 1 .. Len(Recent(s)) : Recent(s)[i] = s[Stale(s) + i]
           /\ Recent(s) # <<>> => Recent(s)[1] <= Window
<1>1. Stale(s) \in 0 .. Len(s) /\ (Stale(s) < Len(s) => s[Stale(s) + 1] <= Window)
  BY StaleIs
<1>2. \A i \in Stale(s) + 1 .. Len(s) : s[i] \in Ages
  BY <1>1, ElementOfSeq
<1>3. /\ Recent(s) \in Seq(Ages)
      /\ Len(Recent(s)) = Len(s) - Stale(s)
      /\ \A i \in 1 .. Len(Recent(s)) : Recent(s)[i] = s[Stale(s) + i]
  BY <1>1, <1>2, SubSeqProperties DEF Recent
<1>4. Recent(s) # <<>> => 1 \in 1 .. Len(Recent(s)) /\ Stale(s) < Len(s)
  BY <1>1, <1>3
<1> QED BY <1>1, <1>3, <1>4

(* Nothing is dropped from a window that starts with a recent attempt. *)
LEMMA AllRecent ==
    ASSUME NEW s \in Seq(Ages), s # <<>> => s[1] <= Window
    PROVE  Recent(s) = s
<1>1. Stale(s) = 0
  BY StaleUnique
<1> QED BY <1>1, SubSeqFull DEF Recent

LEMMA NoneRecent == <<>> \in Seq(Ages) /\ Recent(<<>>) = <<>> /\ Len(<<>>) = 0
<1>1. <<>> \in Seq(Ages) /\ Len(<<>>) = 0
  BY EmptySeq
<1> QED BY <1>1, AllRecent

(* Pruning twice is pruning once. *)
LEMMA RecentTwice ==
    ASSUME NEW s \in Seq(Ages)
    PROVE  Recent(Recent(s)) = Recent(s)
  BY RecentIs, AllRecent

(* An attempt that is recorded in a pruned window is the newest of it. *)
LEMMA RecentRecorded ==
    ASSUME NEW s \in Seq(Ages)
    PROVE  /\ Recorded(Recent(s)) \in Seq(Ages)
           /\ Recent(Recorded(Recent(s))) = Append(Recent(s), 0)
           /\ Len(Append(Recent(s), 0)) = Len(Recent(s)) + 1
<1> DEFINE t == Append(Recent(s), 0)
<1>1. 0 \in Ages /\ Window \in Nat
  BY Limits DEF Ages
<1>2. t \in Seq(Ages) /\ Len(t) = Len(Recent(s)) + 1
  BY <1>1, RecentIs, AppendProperties
<1>3. t[1] <= Window
  BY <1>1, RecentIs, AppendProperties
<1>4. Recent(t) = t
  BY <1>2, <1>3, AllRecent
<1> QED BY <1>2, <1>4 DEF Recorded

LEMMA OlderIs ==
    ASSUME NEW s \in Seq(Ages)
    PROVE  /\ Older(s) \in Seq(Ages)
           /\ Len(Older(s)) = Len(s)
           /\ \A i \in 1 .. Len(s) : /\ s[i] > Window => Older(s)[i] > Window
                                     /\ Older(s)[i] = IF s[i] <= Window THEN s[i] + 1 ELSE s[i]
<1>1. Window \in Nat /\ \A i \in 1 .. Len(s) : s[i] \in Ages
  BY Limits, ElementOfSeq
<1>2. \A i \in 1 .. Len(s) : (IF s[i] <= Window THEN s[i] + 1 ELSE s[i]) \in Ages
  BY <1>1 DEF Ages
<1> QED BY <1>1, <1>2 DEF Older, Ages

(* It does not matter whether a window is pruned before time passes. *)
LEMMA RecentOlder ==
    ASSUME NEW s \in Seq(Ages)
    PROVE  Recent(Older(Recent(s))) = Recent(Older(s))
<1> DEFINE n == Stale(s)
           u == Older(s)
           v == Older(Recent(s))
           m == Stale(v)
<1>1. /\ n \in 0 .. Len(s) /\ \A i \in 1 .. n : s[i] > Window
      /\ Recent(s) \in Seq(Ages) /\ Len(Recent(s)) = Len(s) - n
      /\ \A i \in 1 .. Len(s) - n : Recent(s)[i] = s[n + i]
  BY StaleIs, RecentIs
<1>2. /\ u \in Seq(Ages) /\ Len(u) = Len(s)
      /\ \A i \in 1 .. n : u[i] > Window
  BY <1>1, OlderIs
<1>3. /\ v \in Seq(Ages) /\ Len(v) = Len(s) - n
      /\ \A i \in 1 .. Len(s) - n : v[i] = u[n + i]
  <2>1. v \in Seq(Ages) /\ Len(v) = Len(s) - n
    BY <1>1, OlderIs
  <2>2. ASSUME NEW i \in 1 .. Len(s) - n PROVE v[i] = u[n + i]
    <3>1. n + i \in 1 .. Len(s) /\ Recent(s)[i] = s[n + i]
      BY <1>1
    <3>2. i \in 1 .. Len(Recent(s))
      BY <1>1
    <3> HIDE DEF n
    <3>3. /\ v[i] = IF Recent(s)[i] <= Window THEN Recent(s)[i] + 1 ELSE Recent(s)[i]
          /\ u[n + i] = IF s[n + i] <= Window THEN s[n + i] + 1 ELSE s[n + i]
      BY <1>1, <3>1, <3>2, OlderIs
    <3> QED BY <3>1, <3>3
  <2> QED BY <2>1, <2>2
<1>4. /\ m \in 0 .. Len(v) /\ \A i \in 1 .. m : v[i] > Window
      /\ m < Len(v) => v[m + 1] <= Window
  BY <1>3, StaleIs
<1> HIDE DEF n, u, v, m
<1>5. Stale(u) = n + m
  <2>1. n + m \in 0 .. Len(u)
    BY <1>1, <1>2, <1>3, <1>4
  <2>2. ASSUME NEW i \in 1 .. n + m PROVE u[i] > Window
    <3>1. CASE i <= n
      BY <3>1, <1>1, <1>2, <1>4
    <3>2. CASE i > n
      <4>1. i - n \in 1 .. m /\ i - n \in 1 .. Len(s) - n /\ n + (i - n) = i
        BY <3>2, <1>1, <1>3, <1>4
      <4> QED BY <4>1, <1>3, <1>4
    <3> QED BY <3>1, <3>2, <1>1, <1>4
  <2>3. n + m < Len(u) => u[n + m + 1] <= Window
    <3> SUFFICES ASSUME n + m < Len(u) PROVE u[n + m + 1] <= Window
      OBVIOUS
    <3>1. m + 1 \in 1 .. Len(s) - n /\ m < Len(v) /\ n + (m + 1) = n + m + 1
      BY <1>1, <1>2, <1>3, <1>4
    <3> QED BY <3>1, <1>3, <1>4
  <2> QED BY <1>2, <2>1, <2>2, <2>3, StaleUnique
<1>6. /\ Recent(u) \in Seq(Ages) /\ Recent(v) \in Seq(Ages)
      /\ Len(Recent(u)) = Len(s) - (n + m) /\ Len(Recent(v)) = Len(s) - n - m
      /\ \A i \in 1 .. Len(Recent(u)) : Recent(u)[i] = u[n + m + i]
      /\ \A i \in 1 .. Len(Recent(v)) : Recent(v)[i] = v[m + i]
  BY <1>2, <1>3, <1>5, RecentIs DEF m
<1>7. ASSUME NEW i \in 1 .. Len(Recent(u)) PROVE Recent(v)[i] = Recent(u)[i]
  <2>1. /\ i \in 1 .. Len(Recent(v)) /\ m + i \in 1 .. Len(s) - n
        /\ n + (m + i) = n + m + i
    BY <1>1, <1>3, <1>4, <1>6
  <2> QED BY <2>1, <1>3, <1>6
<1>8. Len(Recent(v)) = Len(Recent(u))
  BY <1>1, <1>3, <1>4, <1>6
<1>9. Recent(v) = Recent(u)
  BY <1>6, <1>7, <1>8, SeqEqual
<1> QED BY <1>9 DEF u, v

(* Time only shortens what is left of a window. *)
LEMMA RecentShorter ==
    ASSUME NEW s \in Seq(Ages)
    PROVE  Len(Recent(Older(s))) <= Len(Recent(s))
<1>1. /\ Recent(s) \in Seq(Ages)
      /\ Older(Recent(s)) \in Seq(Ages) /\ Len(Older(Recent(s))) = Len(Recent(s))
  BY RecentIs, OlderIs
<1>2. Len(Recent(Older(Recent(s)))) <= Len(Older(Recent(s)))
  BY <1>1, RecentIs, StaleIs
<1> QED BY <1>1, <1>2, RecentOlder

(* The browser keeps cookies apart. *)
LEMMA SetIsCookies ==
    ASSUME NEW cookies \in [Names -> Cookies], ~cookies["http"].secure,
           NEW name \in Names, NEW scheme \in Schemes, NEW life \in Lives,
           name = "http" => scheme = "http"
    PROVE  /\ Set(cookies, name, scheme, life) \in [Names -> Cookies]
           /\ ~Set(cookies, name, scheme, life)["http"].secure
<1>1. 0 \in Lives
  BY Limits DEF Lives
<1> QED BY <1>1 DEF Set, Names, Cookies, NoCookie, Schemes

(* A request between two others. *)
LEMMA IdleIsProper == Idle \in RequestRecords /\ Proper(Idle)
<1>1. 0 \in Lives /\ 0 \in 0 .. BodyLimit
  BY Limits DEF Lives
<1> QED BY <1>1 DEF Idle, RequestRecords, Proper, Schemes

LEMMA OneChanges ==
    ASSUME ProperRequests, NEW r \in Requests,
           NEW q \in RequestRecords, Proper(q), req' = [req EXCEPT ![r] = q]
    PROVE  ProperRequests'
  BY DEF ProperRequests

(* Time keeps the order of ages, and so do pruning and recording. *)
LEMMA DescendingKept ==
    ASSUME NEW s \in Seq(Ages), Descending(s)
    PROVE  /\ Descending(Recent(s))
           /\ Descending(Recorded(Recent(s)))
           /\ Descending(Older(s))
<1>1. /\ \A i \in 1 .. Len(s) : s[i] \in Nat
      /\ Window \in Nat
  BY Limits, ElementOfSeq DEF Ages
<1>2. Descending(Recent(s))
  <2> SUFFICES ASSUME NEW i \in 1 .. Len(Recent(s)), NEW j \in 1 .. Len(Recent(s)), i <= j
               PROVE  Recent(s)[j] <= Recent(s)[i]
    BY DEF Descending
  <2>1. /\ Recent(s)[i] = s[Stale(s) + i] /\ Recent(s)[j] = s[Stale(s) + j]
        /\ Stale(s) \in 0 .. Len(s) /\ Len(Recent(s)) = Len(s) - Stale(s)
    BY RecentIs, StaleIs
  <2> QED BY <2>1 DEF Descending
<1>3. Descending(Recorded(Recent(s)))
  <2> DEFINE r == Recent(s)
             t == Append(r, 0)
  <2>1. r \in Seq(Ages) /\ Descending(r) /\ \A i \in 1 .. Len(r) : r[i] \in Nat
    BY <1>2, RecentIs, ElementOfSeq, Limits DEF Ages
  <2>2. /\ Len(t) = Len(r) + 1 /\ t[Len(r) + 1] = 0 /\ Len(r) \in Nat
        /\ \A i \in 1 .. Len(r) : t[i] = r[i]
    BY <2>1, AppendProperties, LenProperties, Limits DEF Ages
  <2> HIDE DEF r, t
  <2>3. Descending(t)
    BY <2>1, <2>2 DEF Descending
  <2> QED BY <2>3 DEF Recorded, r, t
<1>4. Descending(Older(s))
  <2> SUFFICES ASSUME NEW i \in 1 .. Len(s), NEW j \in 1 .. Len(s), i <= j
               PROVE  Older(s)[j] <= Older(s)[i]
    BY OlderIs DEF Descending
  <2>1. /\ Older(s)[i] = IF s[i] <= Window THEN s[i] + 1 ELSE s[i]
        /\ Older(s)[j] = IF s[j] <= Window THEN s[j] + 1 ELSE s[j]
    BY OlderIs
  <2>2. s[j] <= s[i] /\ s[i] \in Nat /\ s[j] \in Nat
    BY <1>1 DEF Descending
  <2> QED BY <1>1, <2>1, <2>2
<1> QED BY <1>2, <1>3, <1>4

(* What is left of a window is recent as a whole, and there is something left *)
(* if the newest attempt is recent.                                          *)
LEMMA AllOfRecent ==
    ASSUME NEW s \in Seq(Ages), Descending(s)
    PROVE  /\ Recent(s) \in Seq(0 .. Window)
           /\ Recent(s) # <<>> <=> s # <<>> /\ ~(Last(s) > Window)
<1>1. /\ \A i \in 1 .. Len(s) : s[i] \in Nat
      /\ Window \in Nat /\ Len(s) \in Nat
  BY Limits, ElementOfSeq, LenProperties DEF Ages
<1>2. /\ Recent(s) \in Seq(Ages) /\ Len(Recent(s)) = Len(s) - Stale(s)
      /\ \A i \in 1 .. Len(Recent(s)) : Recent(s)[i] = s[Stale(s) + i]
      /\ Stale(s) \in 0 .. Len(s)
      /\ \A i \in 1 .. Stale(s) : s[i] > Window
      /\ Stale(s) < Len(s) => s[Stale(s) + 1] <= Window
  BY RecentIs, StaleIs
<1>3. \A i \in 1 .. Len(Recent(s)) : Recent(s)[i] \in 0 .. Window
  <2> TAKE i \in 1 .. Len(Recent(s))
  <2>1. /\ Stale(s) + 1 \in 1 .. Len(s) /\ Stale(s) + i \in 1 .. Len(s)
        /\ Stale(s) + 1 <= Stale(s) + i /\ Stale(s) < Len(s)
    BY <1>1, <1>2
  <2>2. s[Stale(s) + i] <= s[Stale(s) + 1]
    BY <2>1 DEF Descending
  <2> QED BY <1>1, <1>2, <2>1, <2>2
<1>4. Recent(s) \in Seq(0 .. Window)
  <2> DEFINE t == Recent(s)
  <2>1. t = [i \in 1 .. Len(t) |-> t[i]] /\ Len(t) \in Nat
    BY <1>2, LenProperties
  <2> HIDE DEF t
  <2>2. t \in [1 .. Len(t) -> 0 .. Window]
    BY <1>3, <2>1 DEF t
  <2>3. t \in UNION {[1 .. n -> 0 .. Window] : n \in Nat}
    BY <2>1, <2>2
  <2>4. Seq(0 .. Window) = UNION {[1 .. n -> 0 .. Window] : n \in Nat}
    BY SeqDef, Zenon
  <2> QED BY <2>3, <2>4 DEF t
<1>5. ASSUME Recent(s) # <<>> PROVE s # <<>> /\ ~(Last(s) > Window)
  <2>1. Stale(s) < Len(s)
    BY <1>1, <1>2, <1>5, EmptySeq
  <2>2. /\ Stale(s) + 1 \in 1 .. Len(s) /\ Len(s) \in 1 .. Len(s)
        /\ Stale(s) + 1 <= Len(s)
    BY <1>1, <1>2, <2>1
  <2>3. s[Len(s)] <= s[Stale(s) + 1]
    BY <2>2 DEF Descending
  <2> QED BY <1>1, <1>2, <2>1, <2>2, <2>3, EmptySeq DEF Last
<1>6. ASSUME s # <<>>, ~(Last(s) > Window) PROVE Recent(s) # <<>>
  <2>1. Len(s) \in 1 .. Len(s) /\ ~(s[Len(s)] > Window)
    BY <1>1, <1>6, EmptySeq DEF Last
  <2>2. Stale(s) # Len(s)
    BY <1>2, <2>1
  <2> QED BY <1>1, <1>2, <2>2, EmptySeq
<1> QED BY <1>4, <1>5, <1>6

-----------------------------------------------------------------------------
(* The line of addresses.                                                   *)

(* No more than k of a line have fewer than k behind them: the first of them  *)
(* has all the others behind it.                                             *)
LEMMA FewAtTheEnd ==
    ASSUME NEW S, IsFiniteSet(S), NEW R, Line(S, R), NEW k \in Nat
    PROVE  Cardinality({b \in S : Cardinality({c \in S : <<b, c>> \in R}) < k}) <= k
<1> DEFINE behind == [b \in S |-> {c \in S : <<b, c>> \in R}]
           size == [b \in S |-> Cardinality(behind[b])]
           T == {b \in S : size[b] < k}
<1>1. T = {b \in S : Cardinality({c \in S : <<b, c>> \in R}) < k}
  OBVIOUS
<1>2. ASSUME NEW b \in S
      PROVE  /\ behind[b] = {c \in S : <<b, c>> \in R}
             /\ IsFiniteSet(behind[b])
             /\ size[b] = Cardinality(behind[b]) /\ size[b] \in Nat
  BY FS_Subset, FS_CardinalityType
<1>3. T \subseteq S /\ IsFiniteSet(T) /\ \A b \in T : size[b] < k
  <2>1. T \subseteq S
    OBVIOUS
  <2> HIDE DEF size
  <2> QED BY <2>1, FS_Subset
<1> HIDE DEF behind, size, T
<1> SUFFICES Cardinality(T) <= k
  BY <1>1
<1>4. CASE T = {}
  BY <1>4, FS_EmptySet
<1>5. CASE T # {}
  <2> DEFINE Rest == {k - size[b] : b \in T}
  <2>1. Rest \subseteq Nat /\ Rest # {}
    BY <1>2, <1>3, <1>5
  <2>2. PICK n \in Rest : \A i \in Rest : n <= i
    <3> HIDE DEF Rest
    <3> QED BY <2>1, LeastElement
  <2>3. PICK m \in T : n = k - size[m]
    BY <2>2
  <2>4. ASSUME NEW b \in T PROVE size[b] <= size[m]
    <3>1. n <= k - size[b]
      BY <2>2
    <3>2. size[b] \in Nat /\ size[m] \in Nat
      BY <1>2, <1>3
    <3> QED BY <2>3, <3>1, <3>2
  <2>5. ASSUME NEW b \in T, b # m PROVE b \in behind[m]
    <3> SUFFICES ASSUME b \notin behind[m] PROVE FALSE
      OBVIOUS
    <3>1. b \in S /\ m \in S
      BY <1>3
    <3>2. <<b, m>> \in R /\ <<m, b>> \notin R /\ <<m, m>> \notin R
      BY <1>2, <2>5, <3>1 DEF Line
    <3>3. behind[m] \cup {m} \subseteq behind[b] /\ m \notin behind[m]
      <4>1. ASSUME NEW c \in behind[m] PROVE c \in behind[b]
        <5>1. c \in S /\ <<m, c>> \in R
          BY <1>2, <3>1
        <5>2. <<b, c>> \in R
          BY <3>1, <3>2, <5>1 DEF Line
        <5> QED BY <1>2, <3>1, <5>1, <5>2
      <4> QED BY <1>2, <3>1, <3>2, <4>1
    <3>4. Cardinality(behind[m] \cup {m}) = Cardinality(behind[m]) + 1
      BY <1>2, <3>1, <3>3, FS_AddElement
    <3>5. Cardinality(behind[m] \cup {m}) <= Cardinality(behind[b])
      BY <1>2, <3>1, <3>3, FS_Subset
    <3>6. size[b] <= size[m] /\ size[m] = Cardinality(behind[m]) /\ size[m] \in Nat
          /\ size[b] = Cardinality(behind[b]) /\ size[b] \in Nat
      BY <1>2, <2>4, <3>1
    <3> QED BY <3>4, <3>5, <3>6
  <2>6. T \ {m} \subseteq behind[m] /\ m \in S
    BY <1>3, <2>5
  <2>7. Cardinality(T \ {m}) = Cardinality(T) - 1
    BY <1>3, FS_RemoveElement
  <2>8. Cardinality(T \ {m}) <= size[m] /\ size[m] < k /\ size[m] \in Nat
    BY <1>2, <1>3, <2>6, FS_Subset
  <2>9. Cardinality(T) \in Nat
    BY <1>3, FS_CardinalityType
  <2> QED BY <2>7, <2>8, <2>9
<1> QED BY <1>4, <1>5

(* A part of a line is a line, and so is one with a member more at its end.  *)
LEMMA LinePart ==
    ASSUME NEW S, NEW R, Line(S, R), NEW T, T \subseteq S
    PROVE  Line(T, R \cap (T \X T))
  BY DEF Line

LEMMA LineLonger ==
    ASSUME NEW S, NEW R, Line(S, R), NEW a, a \notin S
    PROVE  Line(S \cup {a}, R \cup {<<b, a>> : b \in S})
  BY DEF Line

-----------------------------------------------------------------------------
LEMMA Initially == Init => IInv
<1> SUFFICES ASSUME Init PROVE IInv
  OBVIOUS
<1>1. Granted
  <2>1. tries = [a \in Addresses |-> Recent(attempts[a])]
    BY NoneRecent DEF Init
  <2>2. attempts \in [Addresses -> Seq(Ages)]
    BY NoneRecent DEF Init
  <2>3. \A a \in Addresses : Len(tries[a]) = 0
    BY NoneRecent DEF Init
  <2> QED BY <2>1, <2>2, <2>3, Limits DEF Granted
<1>2. OldestFirst /\ InLine
  <2>1. Tracked = {} /\ order = {} /\ \A a \in Addresses : attempts[a] = <<>>
    BY DEF Init, Tracked
  <2>2. OldestFirst
    BY <2>1, NoneRecent DEF OldestFirst, Descending
  <2>3. IsFiniteSet({}) /\ Cardinality({}) = 0
    BY FS_EmptySet
  <2> QED BY <2>1, <2>2, <2>3, Limits DEF InLine, Line
<1>3. PlainCookie
  <2>1. NoCookie \in Cookies /\ [life |-> SessionLife, secure |-> FALSE] \in Cookies
    BY Limits DEF NoCookie, Cookies, Lives
  <2>2. jar \in [Names -> Cookies]
    BY <2>1 DEF Init
  <2>3. ~jar["http"].secure
    BY DEF Init, NoCookie
  <2> QED BY <2>2, <2>3 DEF PlainCookie
<1>4. ProperRequests
  BY IdleIsProper DEF Init, ProperRequests
<1> QED BY <1>1, <1>2, <1>3, <1>4 DEF IInv, Limiter

(* What reserving does, without the abbreviations of it. *)
LEMMA ReserveIs ==
    ASSUME NEW a \in Addresses, Reserve(a)
    PROVE  /\ Len(Recent(attempts[a])) < MaxFailed
           /\ \E kept \in SUBSET Tracked, stay \in SUBSET Tracked :
                 /\ kept = IF Recent(attempts[a]) = <<>> THEN Tracked \ {a} ELSE Tracked
                 /\ stay = IF a \in kept THEN kept ELSE MakeRoom(kept)
                 /\ stay \subseteq kept
                 /\ order' = (order \cap (stay \X stay))
                                \cup {<<b, a>> : b \in IF a \in kept THEN {} ELSE stay}
                 /\ attempts' = [b \in Addresses |->
                       IF b = a THEN Recorded(Recent(attempts[a]))
                       ELSE IF b \in stay THEN attempts[b] ELSE <<>>]
                 /\ tries' = [b \in Addresses |->
                       IF b = a THEN Append(tries[a], 0)
                       ELSE IF b \in stay THEN tries[b] ELSE <<>>]
<1> DEFINE kept == IF Recent(attempts[a]) = <<>> THEN Tracked \ {a} ELSE Tracked
           stay == IF a \in kept THEN kept ELSE MakeRoom(kept)
<1>1. kept \subseteq Tracked
  OBVIOUS
<1>2. stay \subseteq kept
  <2> HIDE DEF kept
  <2>1. MakeRoom(kept) \subseteq kept
    BY DEF MakeRoom
  <2> QED BY <2>1
<1>3. /\ Len(Recent(attempts[a])) < MaxFailed
      /\ order' = (order \cap (stay \X stay))
                     \cup {<<b, a>> : b \in IF a \in kept THEN {} ELSE stay}
      /\ attempts' = [b \in Addresses |->
            IF b = a THEN Recorded(Recent(attempts[a]))
            ELSE IF b \in stay THEN attempts[b] ELSE <<>>]
      /\ tries' = [b \in Addresses |->
            IF b = a THEN Append(tries[a], 0)
            ELSE IF b \in stay THEN tries[b] ELSE <<>>]
  BY DEF Reserve
<1>4. /\ kept = IF Recent(attempts[a]) = <<>> THEN Tracked \ {a} ELSE Tracked
      /\ stay = IF a \in kept THEN kept ELSE MakeRoom(kept)
  OBVIOUS
<1> HIDE DEF kept, stay
<1> QED BY <1>1, <1>2, <1>3, <1>4

(* What the limiter does to an address keeps its account. *)
LEMMA GrantedKept ==
    ASSUME Granted, NEW a \in Addresses, Refuse(a) \/ Reserve(a) \/ Clear(a)
    PROVE  Granted'
<1>1. /\ attempts \in [Addresses -> Seq(Ages)]
      /\ tries = [b \in Addresses |-> Recent(attempts[b])]
      /\ \A b \in Addresses : Len(tries[b]) <= MaxFailed
  BY DEF Granted
<1>2. ASSUME Refuse(a) PROVE Granted'
  <2>1. attempts' = [attempts EXCEPT ![a] = Recent(attempts[a])] /\ tries' = tries
    BY <1>2 DEF Refuse
  <2>2. attempts' \in [Addresses -> Seq(Ages)]
    BY <1>1, <2>1, RecentIs
  <2>3. ASSUME NEW b \in Addresses PROVE Recent(attempts'[b]) = Recent(attempts[b])
    BY <1>1, <2>1, RecentTwice
  <2>4. tries' = [b \in Addresses |-> Recent(attempts'[b])]
    BY <1>1, <2>1, <2>3
  <2> QED BY <1>1, <2>1, <2>2, <2>4 DEF Granted
<1>3. ASSUME Reserve(a) PROVE Granted'
  <2>1. PICK stay \in SUBSET Tracked :
            /\ attempts' = [b \in Addresses |->
                  IF b = a THEN Recorded(Recent(attempts[a]))
                  ELSE IF b \in stay THEN attempts[b] ELSE <<>>]
            /\ tries' = [b \in Addresses |->
                  IF b = a THEN Append(tries[a], 0)
                  ELSE IF b \in stay THEN tries[b] ELSE <<>>]
            /\ Len(Recent(attempts[a])) < MaxFailed
    BY <1>3, ReserveIs
  <2>2. ASSUME NEW b \in Addresses
        PROVE  /\ attempts'[b] \in Seq(Ages)
               /\ tries'[b] = Recent(attempts'[b])
               /\ Len(tries'[b]) <= MaxFailed
    <3>1. CASE b = a
      <4>1. attempts'[b] = Recorded(Recent(attempts[a])) /\ tries'[b] = Append(Recent(attempts[a]), 0)
        BY <1>1, <2>1, <3>1
      <4>2. Len(Recent(attempts[a])) \in Nat
        BY <1>1, RecentIs, LenProperties
      <4>3. /\ Recorded(Recent(attempts[a])) \in Seq(Ages)
            /\ Recent(Recorded(Recent(attempts[a]))) = Append(Recent(attempts[a]), 0)
            /\ Len(Append(Recent(attempts[a]), 0)) = Len(Recent(attempts[a])) + 1
        BY <1>1, RecentRecorded
      <4>4. Len(Recent(attempts[a])) + 1 <= MaxFailed
        BY <2>1, <4>2, Limits
      <4> QED BY <4>1, <4>3, <4>4
    <3>2. CASE b # a /\ b \in stay
      BY <1>1, <2>1, <3>2
    <3>3. CASE b # a /\ b \notin stay
      BY <2>1, <3>3, NoneRecent, Limits
    <3> QED BY <3>1, <3>2, <3>3
  <2>3. attempts' \in [Addresses -> Seq(Ages)]
    BY <2>1, <2>2
  <2>4. tries' = [b \in Addresses |-> Recent(attempts'[b])]
    BY <2>1, <2>2
  <2> QED BY <2>2, <2>3, <2>4 DEF Granted
<1>4. ASSUME Clear(a) PROVE Granted'
  <2>1. attempts' = [attempts EXCEPT ![a] = <<>>] /\ tries' = [tries EXCEPT ![a] = <<>>]
    BY <1>4 DEF Clear
  <2>2. attempts' \in [Addresses -> Seq(Ages)]
    BY <1>1, <2>1, NoneRecent
  <2>3. ASSUME NEW b \in Addresses
        PROVE  tries'[b] = Recent(attempts'[b]) /\ Len(tries'[b]) <= MaxFailed
    BY <1>1, <2>1, NoneRecent, Limits
  <2>4. tries' = [b \in Addresses |-> Recent(attempts'[b])]
    BY <1>1, <2>1, <2>3
  <2> QED BY <2>2, <2>3, <2>4 DEF Granted
<1> QED BY <1>2, <1>3, <1>4

(* It keeps the attempts of every address oldest first. *)
LEMMA OldestFirstKept ==
    ASSUME Limiter, NEW a \in Addresses, Refuse(a) \/ Reserve(a) \/ Clear(a)
    PROVE  OldestFirst'
<1>1. attempts \in [Addresses -> Seq(Ages)] /\ \A b \in Addresses : Descending(attempts[b])
  BY DEF Limiter, Granted, OldestFirst
<1>2. Descending(<<>>)
  BY NoneRecent DEF Descending
<1>3. \A b \in Addresses : attempts'[b] \in
          {attempts[b], <<>>, Recent(attempts[b]), Recorded(Recent(attempts[b]))}
  <2>1. CASE Refuse(a)
    BY <1>1, <2>1 DEF Refuse
  <2>2. CASE Reserve(a)
    <3> TAKE b \in Addresses
    <3>1. PICK stay \in SUBSET Tracked :
              attempts' = [c \in Addresses |->
                  IF c = a THEN Recorded(Recent(attempts[a]))
                  ELSE IF c \in stay THEN attempts[c] ELSE <<>>]
      BY <2>2, ReserveIs
    <3> QED BY <3>1
  <2>3. CASE Clear(a)
    BY <1>1, <2>3 DEF Clear
  <2> QED BY <2>1, <2>2, <2>3
<1>4. ASSUME NEW b \in Addresses PROVE Descending(attempts'[b])
  <2>1. /\ Descending(Recent(attempts[b]))
        /\ Descending(Recorded(Recent(attempts[b])))
    BY <1>1, DescendingKept
  <2> QED BY <1>1, <1>2, <1>3, <2>1
<1> QED BY <1>4 DEF OldestFirst

(* No more entries stay than leave room for one. *)
LEMMA RoomIsMade ==
    ASSUME InLine, NEW kept \in SUBSET Tracked
    PROVE  /\ MakeRoom(kept) \subseteq kept
           /\ Cardinality(MakeRoom(kept)) <= MaxTracked - 1
<1> DEFINE live == {b \in kept : ~Expired(b)}
           k == MaxTracked - 1
<1>1. /\ IsFiniteSet(kept) /\ IsFiniteSet(live) /\ Cardinality(kept) \in Nat
      /\ k \in Nat /\ MaxTracked \in Nat
  BY FS_Subset, FS_CardinalityType, Limits DEF InLine
<1>2. CASE Cardinality(kept) < MaxTracked
  BY <1>1, <1>2 DEF MakeRoom
<1>3. CASE ~ (Cardinality(kept) < MaxTracked)
  <2> DEFINE R == order \cap (live \X live)
  <2>1. MakeRoom(kept) = {b \in live : Cardinality(InsertedAfter(b, live)) < k}
    BY <1>3 DEF MakeRoom
  <2>2. Line(live, R)
    <3>1. Line(Tracked, order) /\ live \subseteq Tracked
      BY DEF InLine
    <3> HIDE DEF live
    <3> QED BY <3>1, LinePart
  <2>3. \A b \in live : InsertedAfter(b, live) = {c \in live : <<b, c>> \in R}
    BY DEF InsertedAfter
  <2>4. live \subseteq kept
    OBVIOUS
  <2> HIDE DEF live, R, k
  <2>5. Cardinality({b \in live : Cardinality({c \in live : <<b, c>> \in R}) < k}) <= k
    BY <1>1, <2>2, FewAtTheEnd
  <2>6. MakeRoom(kept) = {b \in live : Cardinality({c \in live : <<b, c>> \in R}) < k}
    BY <2>1, <2>3
  <2> QED BY <2>4, <2>5, <2>6 DEF k
<1> QED BY <1>2, <1>3

(* It keeps the tracked addresses in line and within their bound. *)
LEMMA InLineKept ==
    ASSUME Limiter, NEW a \in Addresses, Refuse(a) \/ Reserve(a) \/ Clear(a)
    PROVE  InLine'
<1>1. /\ Line(Tracked, order) /\ IsFiniteSet(Tracked) /\ Cardinality(Tracked) <= MaxTracked
      /\ Cardinality(Tracked) \in Nat /\ MaxTracked \in Nat \ {0}
      /\ attempts \in [Addresses -> Seq(Ages)]
  BY FS_CardinalityType, Limits DEF Limiter, Granted, InLine
<1>2. ASSUME Tracked' = Tracked, order' = order PROVE InLine'
  BY <1>1, <1>2 DEF InLine
<1>3. CASE Refuse(a)
  <2>1. attempts' = [attempts EXCEPT ![a] = Recent(attempts[a])] /\ order' = order
    BY <1>3 DEF Refuse
  <2>2. Len(Recent(attempts[a])) > 0
    BY <1>1, <1>3, RecentIs, LenProperties, Limits DEF Refuse
  <2>3. Recent(attempts[a]) # <<>> /\ attempts[a] # <<>>
    BY <2>2, NoneRecent
  <2>4. Tracked' = Tracked
    BY <1>1, <2>1, <2>3 DEF Tracked
  <2> QED BY <1>2, <2>1, <2>4
<1>4. CASE Reserve(a)
  <2>1. PICK kept \in SUBSET Tracked, stay \in SUBSET Tracked :
            /\ kept = IF Recent(attempts[a]) = <<>> THEN Tracked \ {a} ELSE Tracked
            /\ stay = IF a \in kept THEN kept ELSE MakeRoom(kept)
            /\ stay \subseteq kept
            /\ order' = (order \cap (stay \X stay))
                           \cup {<<b, a>> : b \in IF a \in kept THEN {} ELSE stay}
            /\ attempts' = [b \in Addresses |->
                  IF b = a THEN Recorded(Recent(attempts[a]))
                  ELSE IF b \in stay THEN attempts[b] ELSE <<>>]
    BY <1>4, ReserveIs
  <2>2. Recorded(Recent(attempts[a])) # <<>>
    <3>1. Len(Recorded(Recent(attempts[a]))) = Len(Recent(attempts[a])) + 1
      BY <1>1, RecentRecorded DEF Recorded
    <3>2. Len(Recent(attempts[a])) \in Nat
      BY <1>1, RecentIs, LenProperties
    <3> QED BY <3>1, <3>2, NoneRecent
  <2>3. Tracked' = stay \cup {a}
    <3>1. \A b \in stay : b \in Addresses /\ attempts[b] # <<>>
      BY DEF Tracked
    <3> QED BY <2>1, <2>2, <3>1 DEF Tracked
  <2>4. CASE a \in kept
    <3>1. stay = Tracked /\ a \in Tracked
      BY <2>1, <2>4
    <3>2. order' = order
      BY <1>1, <2>1, <2>4, <3>1 DEF Line
    <3> QED BY <1>2, <2>3, <3>1, <3>2
  <2>5. CASE a \notin kept
    <3>1. a \notin stay /\ stay = MakeRoom(kept)
      BY <2>1, <2>5
    <3>2. order' = (order \cap (stay \X stay)) \cup {<<b, a>> : b \in stay}
      BY <2>1, <2>5
    <3>3. Line(Tracked', order')
      <4>1. Line(stay, order \cap (stay \X stay))
        BY <1>1, LinePart
      <4>2. Line(stay \cup {a}, (order \cap (stay \X stay)) \cup {<<b, a>> : b \in stay})
        BY <3>1, <4>1, LineLonger
      <4> QED BY <2>3, <3>2, <4>2
    <3>4. IsFiniteSet(stay) /\ Cardinality(stay) \in Nat /\ Cardinality(stay) <= MaxTracked - 1
      BY <1>1, <3>1, RoomIsMade, FS_Subset, FS_CardinalityType DEF Limiter
    <3>5. /\ IsFiniteSet(stay \cup {a})
          /\ Cardinality(stay \cup {a}) = Cardinality(stay) + 1
      BY <3>1, <3>4, FS_AddElement
    <3> QED BY <1>1, <2>3, <3>3, <3>4, <3>5 DEF InLine
  <2> QED BY <2>4, <2>5
<1>5. CASE Clear(a)
  <2> DEFINE rest == Tracked \ {a}
  <2>1. Tracked' = rest
    BY <1>1, <1>5 DEF Clear, Tracked
  <2>2. order' = order \cap (rest \X rest)
    <3>1. order' = {p \in order : a \notin {p[1], p[2]}} /\ order \subseteq Tracked \X Tracked
      BY <1>1, <1>5 DEF Clear, Line
    <3> QED BY <3>1
  <2>3. Line(rest, order \cap (rest \X rest))
    BY <1>1, LinePart
  <2>4. IsFiniteSet(rest) /\ Cardinality(rest) <= Cardinality(Tracked) /\ Cardinality(rest) \in Nat
    BY <1>1, FS_Subset, FS_CardinalityType
  <2> QED BY <1>1, <2>1, <2>2, <2>3, <2>4 DEF InLine
<1> QED BY <1>3, <1>4, <1>5

LEMMA LimiterKeeps ==
    ASSUME Limiter, NEW a \in Addresses, Refuse(a) \/ Reserve(a) \/ Clear(a)
    PROVE  Limiter'
<1>1. Granted' /\ OldestFirst' /\ InLine'
  BY GrantedKept, OldestFirstKept, InLineKept DEF Limiter
<1> QED BY <1>1 DEF Limiter

(* So does the passing of time. *)
LEMMA TickKeeps == IInv /\ Tick => IInv'
<1> SUFFICES ASSUME IInv, Tick PROVE IInv'
  OBVIOUS
<1>1. Granted'
  <2>1. /\ attempts \in [Addresses -> Seq(Ages)]
        /\ tries = [b \in Addresses |-> Recent(attempts[b])]
        /\ \A b \in Addresses : Len(tries[b]) <= MaxFailed
    BY DEF IInv, Limiter, Granted
  <2>2. /\ attempts' = [a \in Addresses |-> Older(attempts[a])]
        /\ tries' = [a \in Addresses |-> Recent(Older(tries[a]))]
    BY DEF Tick
  <2>3. ASSUME NEW a \in Addresses
        PROVE  /\ attempts'[a] \in Seq(Ages)
               /\ tries'[a] = Recent(attempts'[a])
               /\ Len(tries'[a]) <= MaxFailed
    <3>1. /\ Older(attempts[a]) \in Seq(Ages)
          /\ Recent(Older(Recent(attempts[a]))) = Recent(Older(attempts[a]))
          /\ Len(Recent(Older(attempts[a]))) <= Len(Recent(attempts[a]))
      BY <2>1, OlderIs, RecentOlder, RecentShorter
    <3>2. /\ Len(Recent(attempts[a])) \in Nat /\ Len(Recent(Older(attempts[a]))) \in Nat
          /\ Len(Recent(attempts[a])) <= MaxFailed
      BY <2>1, <3>1, RecentIs, LenProperties
    <3> QED BY <2>1, <2>2, <3>1, <3>2, Limits
  <2>4. tries' = [a \in Addresses |-> Recent(attempts'[a])]
    BY <2>2, <2>3
  <2> QED BY <2>2, <2>3, <2>4 DEF Granted
<1>2. OldestFirst' /\ InLine'
  <2>1. /\ attempts \in [Addresses -> Seq(Ages)]
        /\ attempts' = [a \in Addresses |-> Older(attempts[a])] /\ order' = order
        /\ OldestFirst /\ InLine
    BY DEF Tick, IInv, Limiter, Granted
  <2>2. ASSUME NEW a \in Addresses
        PROVE  Descending(attempts'[a]) /\ (attempts'[a] = <<>> <=> attempts[a] = <<>>)
    <3>1. Descending(Older(attempts[a])) /\ Len(Older(attempts[a])) = Len(attempts[a])
      BY <2>1, DescendingKept, OlderIs DEF OldestFirst
    <3>2. Older(attempts[a]) \in Seq(Ages)
      BY <2>1, OlderIs
    <3> QED BY <2>1, <3>1, <3>2, EmptySeq
  <2>3. OldestFirst'
    BY <2>2 DEF OldestFirst
  <2>4. Tracked' = Tracked
    BY <2>2 DEF Tracked
  <2> QED BY <2>1, <2>3, <2>4 DEF InLine
<1>3. PlainCookie'
  <2>1. jar' = [n \in Names |->
                 IF jar[n].life <= 1 THEN NoCookie ELSE [jar[n] EXCEPT !.life = jar[n].life - 1]]
    BY DEF Tick
  <2>2. ASSUME NEW n \in Names
        PROVE  jar'[n] \in Cookies /\ (~jar[n].secure => ~jar'[n].secure)
    <3>1. jar[n] \in Cookies
      BY DEF IInv, PlainCookie
    <3>2. CASE jar[n].life <= 1
      BY <2>1, <3>2, Limits DEF NoCookie, Cookies, Lives
    <3>3. CASE ~ (jar[n].life <= 1)
      BY <2>1, <3>1, <3>3, Limits DEF Cookies, Lives
    <3> QED BY <3>2, <3>3
  <2>3. ~jar["http"].secure /\ "http" \in Names
    BY DEF IInv, PlainCookie, Names
  <2> QED BY <2>1, <2>2, <2>3 DEF PlainCookie
<1>4. ProperRequests'
  <2>1. \A life \in Lives : Shorter(life) \in Lives
    BY Limits DEF Shorter, Lives
  <2>2. req' = [r \in Requests |-> [req[r] EXCEPT !.life = Shorter(req[r].life)]]
    BY DEF Tick
  <2>3. ASSUME NEW r \in Requests PROVE req'[r] \in RequestRecords /\ Proper(req'[r])
    <3>1. req[r] \in RequestRecords /\ Proper(req[r])
      BY DEF IInv, ProperRequests
    <3>2. req'[r] = [req[r] EXCEPT !.life = Shorter(req[r].life)]
      BY <2>2
    <3> QED BY <2>1, <3>1, <3>2 DEF RequestRecords, Proper
  <2> QED BY <2>2, <2>3 DEF ProperRequests
<1> QED BY <1>1, <1>2, <1>3, <1>4 DEF IInv, Limiter

(* A step of a request changes that request alone. *)
LEMMA RequestKeeps ==
    ASSUME IInv, NEW r \in Requests,
           \/ Send(r) \/ ReadChunk(r) \/ Disconnect(r) \/ HandleApi(r) \/ HandleLogout(r)
           \/ AnswerUnauthorised(r) \/ HandleLogin(r) \/ VerifyFails(r)
           \/ VerifySucceeds(r) \/ Opened(r) \/ Closed(r)
    PROVE  IInv'
<1>1. Limiter /\ PlainCookie /\ ProperRequests
  BY DEF IInv
<1>2. req[r] \in RequestRecords /\ jar \in [Names -> Cookies] /\ ~jar["http"].secure
  BY <1>1 DEF ProperRequests, PlainCookie
<1>3. Reply(r) => ProperRequests'
  BY <1>1, IdleIsProper, OneChanges DEF Reply
<1>4. UNCHANGED limiter => Limiter'
  BY <1>1 DEF Limiter, Granted, OldestFirst, InLine, Tracked, limiter
<1>5. UNCHANGED jar => PlainCookie'
  BY <1>1 DEF PlainCookie
<1>6. CASE Send(r)
  <2>1. SessionOver("http") \in Lives /\ SessionOver("https") \in Lives /\ 0 \in Lives
    BY <1>2, Limits DEF SessionOver, Sent, CookieName, Names, Cookies, Lives
  <2>2. PICK path \in {"/login", "/logout", "/api/"}, scheme \in Schemes, a \in Addresses \cup {NoAddress} :
            /\ path = "/login" <=> a # NoAddress
            /\ req' = [req EXCEPT ![r] = [Idle EXCEPT !.at = "reading", !.path = path,
                           !.scheme = scheme, !.addr = a,
                           !.life = IF path = "/login" THEN 0 ELSE SessionOver(scheme)]]
    BY <1>6 DEF Send
  <2> DEFINE q == [Idle EXCEPT !.at = "reading", !.path = path,
                       !.scheme = scheme, !.addr = a,
                       !.life = IF path = "/login" THEN 0 ELSE SessionOver(scheme)]
  <2>3. SessionOver(scheme) \in Lives
    BY <2>1 DEF Schemes
  <2>4. q \in RequestRecords /\ Proper(q)
    BY <2>1, <2>2, <2>3, IdleIsProper DEF Idle, RequestRecords, Proper
  <2>5. ProperRequests'
    <3> HIDE DEF q
    <3>1. req' = [req EXCEPT ![r] = q]
      BY <2>2 DEF q
    <3> QED BY <1>1, <2>4, <3>1, OneChanges
  <2> QED BY <1>4, <1>5, <1>6, <2>5 DEF Send, IInv
<1>7. CASE ReadChunk(r)
  <2>1. CASE req[r].received = BodyLimit
    BY <1>3, <1>4, <1>5, <1>7, <2>1 DEF ReadChunk, IInv
  <2>2. CASE req[r].received # BodyLimit
    <3>1. PICK more \in BOOLEAN :
              req' = [req EXCEPT ![r].received = @ + 1,
                                 ![r].at = IF more THEN "reading" ELSE "handling"]
      BY <1>7, <2>2 DEF ReadChunk
    <3>2. req[r].received \in 0 .. BodyLimit /\ req[r].at = "reading"
      BY <1>2, <1>7 DEF RequestRecords, ReadChunk
    <3>3. req[r].received + 1 \in 0 .. BodyLimit
      BY <2>2, <3>2, Limits
    <3> DEFINE q == [req[r] EXCEPT !.received = req[r].received + 1,
                                   !.at = IF more THEN "reading" ELSE "handling"]
    <3>4. q \in RequestRecords /\ Proper(q)
      BY <1>1, <1>2, <3>2, <3>3 DEF RequestRecords, Proper, ProperRequests
    <3>5. req' = [req EXCEPT ![r] = q]
      BY <1>1, <3>1 DEF ProperRequests, RequestRecords
    <3>6. ProperRequests'
      <4> HIDE DEF q
      <4> QED BY <1>1, <3>4, <3>5, OneChanges
    <3> QED BY <1>4, <1>5, <1>7, <3>6 DEF ReadChunk, IInv
  <2> QED BY <2>1, <2>2
<1>8. CASE Disconnect(r) \/ HandleApi(r) \/ AnswerUnauthorised(r) \/ VerifyFails(r)
  BY <1>3, <1>4, <1>5, <1>8 DEF Disconnect, HandleApi, AnswerUnauthorised, VerifyFails, IInv
<1>9. CASE HandleLogout(r)
  <2>1. ProperRequests'
    BY <1>1, <1>9 DEF ProperRequests, Proper, RequestRecords, HandleLogout
  <2> QED BY <1>4, <1>5, <1>9, <2>1 DEF HandleLogout, IInv
<1>10. CASE HandleLogin(r)
  <2>1. req[r].addr \in Addresses
    BY <1>1, <1>10 DEF HandleLogin, ProperRequests, Proper
  <2>2. Limiter'
    BY <1>1, <1>10, <2>1, LimiterKeeps DEF HandleLogin
  <2>3. ProperRequests'
    <3>1. CASE Reply(r)
      BY <1>3, <3>1
    <3>2. CASE req' = [req EXCEPT ![r].at = "verifying"]
      BY <1>1, <1>10, <3>2 DEF ProperRequests, Proper, RequestRecords, HandleLogin
    <3> QED BY <1>10, <3>1, <3>2 DEF HandleLogin
  <2> QED BY <1>5, <1>10, <2>2, <2>3 DEF HandleLogin, IInv
<1>11. CASE VerifySucceeds(r)
  <2>1. req[r].addr \in Addresses
    BY <1>1, <1>11 DEF VerifySucceeds, ProperRequests, Proper
  <2>2. Limiter'
    BY <1>1, <1>11, <2>1, LimiterKeeps DEF VerifySucceeds
  <2>3. ProperRequests'
    <3>1. CASE Reply(r)
      BY <1>3, <3>1
    <3>2. CASE req' = [req EXCEPT ![r].at = "opening", ![r].life = SessionLife]
      <4> DEFINE q == [req[r] EXCEPT !.at = "opening", !.life = SessionLife]
      <4>1. SessionLife \in Lives
        BY Limits DEF Lives
      <4>2. q \in RequestRecords /\ Proper(q)
        BY <1>1, <1>2, <1>11, <4>1 DEF RequestRecords, Proper, ProperRequests, VerifySucceeds
      <4>3. req' = [req EXCEPT ![r] = q]
        BY <1>1, <3>2 DEF ProperRequests, RequestRecords
      <4> HIDE DEF q
      <4> QED BY <1>1, <4>2, <4>3, OneChanges
    <3> QED BY <1>11, <3>1, <3>2 DEF VerifySucceeds
  <2> QED BY <1>5, <1>11, <2>2, <2>3 DEF VerifySucceeds, IInv
<1>12. CASE Opened(r)
  <2>1. /\ req[r].scheme \in Schemes /\ req[r].life \in Lives
        /\ CookieName(req[r].scheme) \in Names
        /\ CookieName(req[r].scheme) = "http" => req[r].scheme = "http"
    BY <1>2 DEF RequestRecords, CookieName, Names, Schemes
  <2>2. PlainCookie'
    BY <1>2, <1>12, <2>1, SetIsCookies DEF Opened, PlainCookie
  <2> QED BY <1>3, <1>4, <1>12, <2>2 DEF Opened, IInv
<1>13. CASE Closed(r)
  <2> DEFINE scheme == req[r].scheme
             own == Set(jar, CookieName(scheme), scheme, 0)
  <2>1. /\ scheme \in Schemes /\ 0 \in Lives
        /\ CookieName(scheme) \in Names
        /\ CookieName(scheme) = "http" => scheme = "http"
        /\ "main" \in Names /\ "main" # "http"
    BY <1>2, Limits DEF RequestRecords, CookieName, Names, Schemes, Lives
  <2> HIDE DEF scheme
  <2>2. own \in [Names -> Cookies] /\ ~own["http"].secure
    BY <1>2, <2>1, SetIsCookies
  <2> HIDE DEF own
  <2>3. LET both == Set(own, "main", scheme, 0)
        IN  both \in [Names -> Cookies] /\ ~both["http"].secure
    BY <2>1, <2>2, SetIsCookies
  <2>4. PlainCookie'
    BY <1>13, <2>2, <2>3 DEF Closed, LoggedOut, PlainCookie, own, scheme
  <2> QED BY <1>3, <1>4, <1>13, <2>4 DEF Closed, IInv
<1> QED BY <1>6, <1>7, <1>8, <1>9, <1>10, <1>11, <1>12, <1>13

LEMMA Inductive == IInv /\ [Next]_vars => IInv'
<1> SUFFICES ASSUME IInv, [Next]_vars PROVE IInv'
  OBVIOUS
<1>1. CASE UNCHANGED vars
  BY <1>1 DEF IInv, Limiter, Granted, OldestFirst, InLine, Tracked, PlainCookie, ProperRequests, vars, limiter
<1>2. CASE Next
  BY <1>2, TickKeeps, RequestKeeps DEF Next
<1> QED BY <1>1, <1>2

LEMMA Invariance == Spec => []IInv
  BY Initially, Inductive, PTL DEF Spec

(* Every variable has its type; the tracked addresses are in one line and    *)
(* never more than the limiter has places for (_MAX_TRACKED_CLIENTS), and    *)
(* what is held of the window of an address is recent as a whole             *)
(* (_prune_attempts stops at the first recent one).                          *)
THEOREM TypeCorrect == Spec => []TypeOK
<1>1. ASSUME IInv PROVE TypeOK
  <2>1. tries \in [Addresses -> Seq(0 .. Window)]
    BY <1>1, AllOfRecent DEF IInv, Limiter, Granted, OldestFirst
  <2> QED BY <1>1, <2>1
       DEF IInv, Limiter, Granted, InLine, Line, PlainCookie, Cookies, ProperRequests, TypeOK
<1> QED BY <1>1, Invariance, PTL

(* However requests overlap and whoever is evicted, an address is granted    *)
(* exactly as many verifications in a window as the limiter allows           *)
(* (reserve_login_attempt, clear_failed_logins).                             *)
THEOREM LimitIsExact == Spec => []WindowIsExact
<1>1. IInv => WindowIsExact
  BY DEF IInv, Limiter, Granted, WindowIsExact
<1> QED BY <1>1, Invariance, PTL

(* An address with a recent attempt is evicted only when so many others have *)
(* one that there is no room (reserve_login_attempt).                        *)
THEOREM ExpiredGoFirst == Spec => LiveEvictedLast
<1> DEFINE Held == {b \in Addresses : tries[b] # <<>>}
           Verified == \E r \in Requests : req[r].at = "verifying" /\ req'[r].at # "verifying"
<1>1. ASSUME IInv, [Next]_vars, NEW a \in Addresses,
             tries[a] # <<>>, attempts'[a] = <<>>, ~Verified
      PROVE  Cardinality(Held) >= MaxTracked
  <2>1. /\ InLine /\ Line(Tracked, order) /\ IsFiniteSet(Tracked)
        /\ attempts \in [Addresses -> Seq(Ages)]
        /\ \A b \in Addresses : tries[b] = Recent(attempts[b]) /\ Descending(attempts[b])
        /\ req \in [Requests -> RequestRecords]
        /\ MaxTracked \in Nat \ {0}
    BY <1>1, Limits DEF IInv, Limiter, Granted, OldestFirst, InLine, ProperRequests
  <2>2. \A b \in Addresses : b \in Held <=> b \in Tracked /\ ~Expired(b)
    BY <2>1, AllOfRecent DEF Tracked, Expired
  <2>3. attempts'[a] # attempts[a] /\ a \in Tracked /\ ~Expired(a)
    BY <1>1, <2>2 DEF Tracked
  <2>4. PICK r \in Requests : HandleLogin(r)
    <3>1. ~UNCHANGED limiter
      BY <2>3 DEF limiter
    <3>2. ~Tick
      <4>1. Len(Older(attempts[a])) = Len(attempts[a]) /\ Older(attempts[a]) \in Seq(Ages)
        BY <2>1, OlderIs
      <4> QED BY <1>1, <2>1, <2>3, <4>1, EmptySeq DEF Tick
    <3>3. ASSUME NEW q \in Requests PROVE ~VerifySucceeds(q)
      BY <1>1, <2>1 DEF VerifySucceeds, Reply, Idle, RequestRecords
    <3> QED BY <1>1, <3>1, <3>2, <3>3 DEF Next, Send, ReadChunk, Disconnect, HandleApi,
         HandleLogout, AnswerUnauthorised, VerifyFails, Opened, Closed, vars
  <2> DEFINE x == req[r].addr
  <2>5. x \in Addresses
    BY <1>1, <2>4 DEF HandleLogin, IInv, ProperRequests, Proper
  <2> HIDE DEF x
  <2>6. Reserve(x)
    <3>1. ASSUME Refuse(x) PROVE FALSE
      <4>1. a = x /\ attempts'[a] = Recent(attempts[a])
        BY <2>1, <2>3, <2>5, <3>1 DEF Refuse
      <4> QED BY <1>1, <2>1, <4>1
    <3> QED BY <2>4, <3>1 DEF HandleLogin, x
  <2>7. PICK kept \in SUBSET Tracked, stay \in SUBSET Tracked :
            /\ kept = IF Recent(attempts[x]) = <<>> THEN Tracked \ {x} ELSE Tracked
            /\ stay = IF x \in kept THEN kept ELSE MakeRoom(kept)
            /\ attempts' = [b \in Addresses |->
                  IF b = x THEN Recorded(Recent(attempts[x]))
                  ELSE IF b \in stay THEN attempts[b] ELSE <<>>]
    BY <2>5, <2>6, ReserveIs
  <2>8. a # x
    <3>1. Len(Recorded(Recent(attempts[x]))) = Len(Recent(attempts[x])) + 1
      BY <2>1, <2>5, RecentRecorded DEF Recorded
    <3>2. Len(Recent(attempts[x])) \in Nat
      BY <2>1, <2>5, RecentIs, LenProperties
    <3> QED BY <1>1, <2>7, <3>1, <3>2, NoneRecent
  <2>9. a \in kept /\ a \notin MakeRoom(kept)
    BY <2>3, <2>7, <2>8
  <2> DEFINE live == {b \in kept : ~Expired(b)}
  <2>10. /\ a \in live /\ IsFiniteSet(live) /\ Cardinality(live) \in Nat
         /\ live \subseteq Held /\ IsFiniteSet(Held) /\ Cardinality(Held) \in Nat
    <3>1. Held \subseteq Tracked /\ live \subseteq Held /\ a \in live
      BY <2>2, <2>3, <2>9 DEF Tracked
    <3> HIDE DEF live, Held
    <3> QED BY <2>1, <3>1, FS_Subset, FS_CardinalityType
  <2>11. ~ (Cardinality(InsertedAfter(a, live)) < MaxTracked - 1)
    BY <2>9, <2>10 DEF MakeRoom
  <2>12. InsertedAfter(a, live) \subseteq live \ {a}
    BY <2>1, <2>3 DEF InsertedAfter, Line
  <2> HIDE DEF live, Held
  <2>13. /\ Cardinality(live \ {a}) = Cardinality(live) - 1
         /\ IsFiniteSet(live \ {a})
    BY <2>10, FS_RemoveElement
  <2>14. /\ Cardinality(InsertedAfter(a, live)) <= Cardinality(live \ {a})
         /\ Cardinality(InsertedAfter(a, live)) \in Nat
    BY <2>12, <2>13, FS_Subset, FS_CardinalityType
  <2>15. Cardinality(live) <= Cardinality(Held)
    BY <2>10, FS_Subset
  <2> QED BY <2>1, <2>10, <2>11, <2>13, <2>14, <2>15
<1>2. IInv /\ [Next]_vars =>
          [\A a \in Addresses :
              /\ tries[a] # <<>> /\ attempts'[a] = <<>>
              /\ ~Verified
              => Cardinality(Held) >= MaxTracked]_vars
  BY <1>1
<1> QED BY <1>2, Invariance, PTL DEF Spec, LiveEvictedLast

(* A login that has been answered is a session on the next page of its       *)
(* scheme, and a logout that has been answered is none (session_cookie_name, *)
(* read_session, logout).                                                    *)
THEOREM LoginsTakeEffect == Spec => AnswersTakeEffect
<1> DEFINE Effect(r, scheme) ==
        /\ req[r].at = "opening" /\ req[r].life > 0 => SessionOver(scheme)' > 0
        /\ req[r].at = "closing" => SessionOver(scheme)' = 0
<1>1. ASSUME IInv, [Next]_vars, NEW r \in Requests, NEW scheme \in Schemes,
             req[r].scheme = scheme, req'[r].at = "idle"
      PROVE  Effect(r, scheme)
  <2> SUFFICES ASSUME req[r].at \in {"opening", "closing"} PROVE Effect(r, scheme)
    OBVIOUS
  <2>1. /\ jar \in [Names -> Cookies] /\ ~jar["http"].secure
        /\ req \in [Requests -> RequestRecords] /\ req[r].life \in Lives
        /\ \A n \in Names : jar[n].life \in Lives
    BY <1>1 DEF IInv, PlainCookie, ProperRequests, RequestRecords, Cookies
  <2>2. Opened(r) \/ Closed(r)
    <3>1. ~UNCHANGED vars
      BY <1>1 DEF vars
    <3>2. ~Tick
      BY <1>1, <2>1 DEF Tick, RequestRecords
    <3>3. PICK q \in Requests :
              \/ Send(q) \/ ReadChunk(q) \/ Disconnect(q) \/ HandleApi(q) \/ HandleLogout(q)
              \/ AnswerUnauthorised(q) \/ HandleLogin(q) \/ VerifyFails(q)
              \/ VerifySucceeds(q) \/ Opened(q) \/ Closed(q)
      BY <1>1, <3>1, <3>2 DEF Next
    <3>4. q = r
      BY <1>1, <2>1, <3>3 DEF Send, ReadChunk, Disconnect, HandleApi, HandleLogout,
         AnswerUnauthorised, HandleLogin, VerifyFails, VerifySucceeds, Opened, Closed, Reply
    <3> QED BY <3>3, <3>4 DEF Send, ReadChunk, Disconnect, HandleApi, HandleLogout,
         AnswerUnauthorised, HandleLogin, VerifyFails, VerifySucceeds
  <2>3. CASE Opened(r)
    <3>1. req[r].at = "opening" /\ jar' = Set(jar, CookieName(scheme), scheme, req[r].life)
      BY <1>1, <2>3 DEF Opened
    <3>2. ASSUME req[r].life > 0 PROVE SessionOver(scheme)' > 0
      <4>0. req[r].life # 0
        BY <2>1, <3>2, Limits DEF Lives
      <4>1. CASE scheme = "https"
        <5>1. jar' = [jar EXCEPT !["main"] = [life |-> req[r].life, secure |-> TRUE]]
          <6>1. (scheme = "https") = TRUE /\ ~(jar["main"].secure /\ scheme = "http")
            BY <4>1
          <6> QED BY <3>1, <4>0, <4>1, <6>1 DEF Set, CookieName
        <5>2. jar'["main"].life = req[r].life
          BY <2>1, <5>1 DEF Names
        <5> QED BY <3>2, <4>1, <5>2 DEF SessionOver, Sent, CookieName
      <4>2. CASE scheme = "http"
        <5>1. jar' = [jar EXCEPT !["http"] = [life |-> req[r].life, secure |-> FALSE]]
          <6>1. (scheme = "https") = FALSE
            BY <4>2
          <6> QED BY <2>1, <3>1, <4>0, <4>2, <6>1 DEF Set, CookieName
        <5>2. jar'["http"].life = req[r].life /\ ~jar'["http"].secure
          BY <2>1, <5>1 DEF Names
        <5> QED BY <3>2, <4>0, <4>2, <5>2 DEF SessionOver, Sent, CookieName
      <4> QED BY <4>1, <4>2 DEF Schemes
    <3> QED BY <3>1, <3>2
  <2>4. CASE Closed(r)
    <3>1. req[r].at = "closing" /\ jar' = LoggedOut(scheme)
      BY <1>1, <2>4 DEF Closed
    <3>2. SessionOver(scheme)' = 0
      BY <2>1, <3>1 DEF LoggedOut, NoCookie, SessionOver, Sent, Set, CookieName, Names, Schemes, Lives
    <3> QED BY <3>1, <3>2
  <2> QED BY <2>2, <2>3, <2>4
<1>2. IInv /\ [Next]_vars =>
          [\A r \in Requests, scheme \in Schemes :
              req[r].scheme = scheme /\ req'[r].at = "idle" => Effect(r, scheme)]_vars
  BY <1>1
<1> QED BY <1>2, Invariance, PTL DEF Spec, AnswersTakeEffect
=============================================================================
