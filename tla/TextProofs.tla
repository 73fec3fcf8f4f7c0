----------------------------- MODULE TextProofs -----------------------------
(***************************************************************************)
(* Proofs about Text: each conversion does what it is for, on inputs of    *)
(* any length and for any size of the code's arrays.                       *)
(*                                                                         *)
(* JIDs: the code looks for the first '@' and the first '/'; the           *)
(* reference asks for any way to read the string.  There is at most one,   *)
(* the one between those two places.                                       *)
(*                                                                         *)
(* Passwords: only the first line of user.conf matters, and its value is   *)
(* the password up to a line end or to what fits, without the blanks at    *)
(* its ends.                                                               *)
(*                                                                         *)
(* SASL PLAIN: the four digits of a group are the 24 bits of three bytes,  *)
(* and what is decoded of them is those bytes; so by induction on the      *)
(* groups decoding undoes encoding, and by induction on the characters     *)
(* one that is not of the alphabet changes nothing.  The payload has one   *)
(* reading at most, by its first two NULs.                                 *)
(*                                                                         *)
(* Induction is by the least number without a property, and a recursive    *)
(* function is the one that Recursion gives (NumberLemmas).                *)
(***************************************************************************)
EXTENDS Text, NumberLemmas, SequenceTheorems, FiniteSetTheorems

(* strchr finds the first place, or none. *)
LEMMA StrchrFirst ==
  ASSUME NEW S, NEW s \in Seq(S), NEW ch
  PROVE  /\ strchr(s, ch) \in 0..Len(s)
         /\ strchr(s, ch) = 0 => \A k \in 1..Len(s) : s[k] # ch
         /\ strchr(s, ch) # 0 => s[strchr(s, ch)] = ch /\ \A k \in 1..(strchr(s, ch) - 1) : s[k] # ch
<1> DEFINE T == {k \in 1..Len(s) : s[k] = ch}
<1>1. strchr(s, ch) = IF T # {} THEN Min(T) ELSE 0
  BY DEF strchr, SelectInSeq
<1>2. Len(s) \in Nat /\ T \in SUBSET Nat
  BY LenProperties
<1>3. CASE T = {}
  BY <1>1, <1>2, <1>3
<1>4. CASE T # {}
  <2>1. Min(T) \in T /\ \A y \in T : Min(T) <= y
    BY <1>2, <1>4, MinOfNats
  <2>2. PICK m \in T : m = strchr(s, ch) /\ \A y \in T : m <= y
    BY <1>1, <1>4, <2>1
  <2>3. m \in 1..Len(s) /\ s[m] = ch
    OBVIOUS
  <2>4. ASSUME NEW k \in 1..(m - 1) PROVE s[k] # ch
    <3>1. k \in 1..Len(s) /\ ~(m <= k)
      BY <1>2, <2>3
    <3> QED
      BY <2>2, <3>1
  <2> QED
    BY <1>2, <2>2, <2>3, <2>4
<1> QED
  BY <1>3, <1>4

(* The first place is the only one with nothing before it. *)
LEMMA StrchrIs ==
  ASSUME NEW S, NEW s \in Seq(S), NEW ch, NEW n \in 1..Len(s), s[n] = ch,
         \A k \in 1..(n - 1) : s[k] # ch
  PROVE  strchr(s, ch) = n
<1>1. Len(s) \in Nat
  BY LenProperties
<1>2. PICK m : m = strchr(s, ch)
  OBVIOUS
<1>3. /\ m \in 0..Len(s)
      /\ m = 0 => \A k \in 1..Len(s) : s[k] # ch
      /\ m # 0 => s[m] = ch /\ \A k \in 1..(m - 1) : s[k] # ch
  BY <1>2, StrchrFirst
<1>4. m # 0
  BY <1>3
<1>5. ~(m < n) /\ ~(n < m)
  BY <1>1, <1>3, <1>4
<1> QED
  BY <1>1, <1>2, <1>3, <1>5

(* What is nowhere in a string is not found. *)
LEMMA StrchrNone ==
  ASSUME NEW S, NEW s \in Seq(S), NEW ch, \A k \in 1..Len(s) : s[k] # ch
  PROVE  strchr(s, ch) = 0
<1>1. PICK m : m = strchr(s, ch)
  OBVIOUS
<1>2. m \in 0..Len(s) /\ (m # 0 => s[m] = ch) /\ Len(s) \in Nat
  BY <1>1, StrchrFirst, LenProperties
<1> QED
  BY <1>1, <1>2

(* A part of a string, symbol by symbol. *)
LEMMA Part ==
  ASSUME NEW S, NEW s \in Seq(S), NEW m \in Nat \ {0}, NEW n \in Nat, n <= Len(s)
  PROVE  /\ SubSeq(s, m, n) \in Seq(S)
         /\ Len(SubSeq(s, m, n)) = IF m <= n THEN n - m + 1 ELSE 0
         /\ \A k \in 1..Len(SubSeq(s, m, n)) : SubSeq(s, m, n)[k] = s[m + k - 1]
<1>1. Len(s) \in Nat /\ \A k \in 1..Len(s) : s[k] \in S
  BY LenProperties, ElementOfSeq
<1>2. \A k \in m..n : s[k] \in S
  BY <1>1
<1>3. /\ SubSeq(s, m, n) \in Seq(S)
      /\ Len(SubSeq(s, m, n)) = IF m <= n THEN n - m + 1 ELSE 0
      /\ \A k \in 1..(n - m + 1) : SubSeq(s, m, n)[k] = s[m + k - 1]
  BY <1>2, SubSeqProperties
<1> QED
  BY <1>3

(* Copying into an array of a size keeps the beginning, and all that fits. *)
LEMMA CutFacts ==
  ASSUME NEW S, NEW s \in Seq(S), NEW size \in Nat \ {0, 1}
  PROVE  /\ Cut(s, size) \in Seq(S)
         /\ Len(Cut(s, size)) \in Nat /\ Len(Cut(s, size)) < size /\ Len(Cut(s, size)) <= Len(s)
         /\ Len(s) < size => Cut(s, size) = s
         /\ Len(s) > 0 => Len(Cut(s, size)) > 0
         /\ \A k \in 1..Len(Cut(s, size)) : Cut(s, size)[k] = s[k]
<1>1. Len(s) \in Nat
  BY LenProperties
<1>2. PICK n \in Nat : /\ n = Min({Len(s), size - 1})
                       /\ n = IF Len(s) <= size - 1 THEN Len(s) ELSE size - 1
  <2>1. {Len(s), size - 1} \in SUBSET Nat /\ {Len(s), size - 1} # {}
    BY <1>1
  <2>2. PICK n : n = Min({Len(s), size - 1})
    OBVIOUS
  <2>3. n \in {Len(s), size - 1} /\ n <= Len(s) /\ n <= size - 1
    BY <2>1, <2>2, MinOfNats
  <2> QED
    BY <1>1, <2>2, <2>3
<1>3. Cut(s, size) = SubSeq(s, 1, n)
  BY <1>2 DEF Cut
<1>4. n <= Len(s) /\ 1 \in Nat \ {0}
  BY <1>1, <1>2
<1>5. /\ Cut(s, size) \in Seq(S) /\ Len(Cut(s, size)) = IF 1 <= n THEN n - 1 + 1 ELSE 0
      /\ \A k \in 1..Len(Cut(s, size)) : Cut(s, size)[k] = s[1 + k - 1]
  BY <1>3, <1>4, Part
<1>6. Len(Cut(s, size)) = n
  BY <1>5
<1>7. \A k \in 1..Len(Cut(s, size)) : Cut(s, size)[k] = s[k]
  BY <1>5, <1>6
<1>8. ASSUME Len(s) < size PROVE Cut(s, size) = s
  <2>1. Len(Cut(s, size)) = Len(s)
    BY <1>1, <1>2, <1>6, <1>8
  <2> QED
    BY <1>5, <1>7, <2>1, SeqEqual
<1>9. n < size /\ n <= Len(s) /\ (Len(s) > 0 => n > 0)
  BY <1>1, <1>2
<1> QED
  BY <1>5, <1>6, <1>7, <1>8, <1>9

-----------------------------------------------------------------------------
(* What fits its field is not cut. *)
LEMMA Fits ==
  ASSUME NEW S, NEW s \in Seq(S), Len(s) < FIELD
  PROVE  Cut(s, FIELD) = s
<1>1. PICK size \in Nat \ {0, 1} : size = FIELD
  BY ConstAssumption
<1>2. Cut(s, size) = s
  BY <1>1, CutFacts
<1> QED
  BY <1>1, <1>2

(* Where the domain ends: before the first '/', or with the string. *)
DomainEnd(s) == IF strchr(s, "/") = 0 THEN Len(s) + 1 ELSE strchr(s, "/")

(* There is one way to read a string at most: its '@' is the first one, and
   its domain ends where the first '/' is. *)
LEMMA OneReading ==
  ASSUME NEW S, NEW s \in Seq(S), NEW r \in JidReadings(s)
  PROVE  /\ r.i = strchr(s, "@") /\ r.j = DomainEnd(s)
         /\ r.i # 1 /\ r.i < r.j - 1
<1>1. Len(s) \in Nat
  BY LenProperties
<1>2. PICK i \in 0..Len(s), j \in 1..(Len(s) + 1) : i = r.i /\ j = r.j
  BY DEF JidReadings
<1>3. /\ i < j - 1
      /\ IF i = 0 THEN strchr(s, "@") = 0
                  ELSE i > 1 /\ s[i] = "@" /\ strchr(SubSeq(s, 1, i - 1), "@") = 0
      /\ strchr(SubSeq(s, 1, j - 1), "/") = 0
      /\ j <= Len(s) => s[j] = "/"
  BY <1>2 DEF JidReadings
<1>4. ASSUME NEW ch, NEW n \in 1..(Len(s) + 1), strchr(SubSeq(s, 1, n - 1), ch) = 0
      PROVE  \A k \in 1..(n - 1) : s[k] # ch
  <2>1. n - 1 \in Nat /\ n - 1 <= Len(s) /\ 1 \in Nat \ {0}
    BY <1>1
  <2>2. PICK m \in Nat : m = n - 1
    BY <2>1
  <2>3. /\ SubSeq(s, 1, m) \in Seq(S) /\ Len(SubSeq(s, 1, m)) = IF 1 <= m THEN m - 1 + 1 ELSE 0
        /\ \A k \in 1..Len(SubSeq(s, 1, m)) : SubSeq(s, 1, m)[k] = s[1 + k - 1]
    BY <2>1, <2>2, Part
  <2>4. Len(SubSeq(s, 1, m)) = m
    BY <2>3
  <2>5. \A k \in 1..m : SubSeq(s, 1, m)[k] # ch
    <3>1. PICK u \in Seq(S) : u = SubSeq(s, 1, m)
      BY <2>3
    <3>2. strchr(u, ch) = 0 /\ Len(u) = m
      BY <1>4, <2>2, <2>4, <3>1
    <3>3. \A k \in 1..Len(u) : u[k] # ch
      BY <3>2, StrchrFirst
    <3> QED
      BY <3>1, <3>2, <3>3
  <2> QED
    BY <2>2, <2>3, <2>4, <2>5
<1>5. i = strchr(s, "@") /\ i # 1
  <2>1. CASE i = 0
    BY <1>3, <2>1
  <2>2. CASE i # 0
    <3>1. i \in 1..Len(s) /\ i \in 1..(Len(s) + 1)
      BY <1>1, <2>2
    <3>2. \A k \in 1..(i - 1) : s[k] # "@"
      BY <1>3, <1>4, <2>2, <3>1
    <3> QED
      BY <1>3, <2>2, <3>1, <3>2, StrchrIs
  <2> QED
    BY <2>1, <2>2
<1>6. \A k \in 1..(j - 1) : s[k] # "/"
  BY <1>3, <1>4
<1>7. j = DomainEnd(s)
  <2>1. CASE j <= Len(s)
    <3>1. strchr(s, "/") = j
      BY <1>1, <1>3, <1>6, <2>1, StrchrIs
    <3> QED
      BY <1>1, <3>1 DEF DomainEnd
  <2>2. CASE j = Len(s) + 1
    <3>1. strchr(s, "/") = 0
      BY <1>1, <1>6, <2>2, StrchrNone
    <3> QED
      BY <2>2, <3>1 DEF DomainEnd
  <2> QED
    BY <1>1, <2>1, <2>2
<1> QED
  BY <1>2, <1>3, <1>5, <1>7

(* A string with a domain between those two places, and no '@' at its start,
   is read there. *)
LEMMA IsReading ==
  ASSUME NEW S, NEW s \in Seq(S), strchr(s, "@") # 1, strchr(s, "@") < DomainEnd(s) - 1
  PROVE  [i |-> strchr(s, "@"), j |-> DomainEnd(s)] \in JidReadings(s)
<1>1. Len(s) \in Nat
  BY LenProperties
<1>2. PICK i, j : i = strchr(s, "@") /\ j = DomainEnd(s)
  OBVIOUS
<1>3. /\ i \in 0..Len(s)
      /\ i # 0 => s[i] = "@" /\ \A k \in 1..(i - 1) : s[k] # "@"
  BY <1>2, StrchrFirst
<1>4. /\ j \in 1..(Len(s) + 1) /\ \A k \in 1..(j - 1) : s[k] # "/"
      /\ j <= Len(s) => s[j] = "/"
  <2>1. PICK m : m = strchr(s, "/")
    OBVIOUS
  <2>2. /\ m \in 0..Len(s)
        /\ m = 0 => \A k \in 1..Len(s) : s[k] # "/"
        /\ m # 0 => s[m] = "/" /\ \A k \in 1..(m - 1) : s[k] # "/"
    BY <2>1, StrchrFirst
  <2>3. j = IF m = 0 THEN Len(s) + 1 ELSE m
    BY <1>2, <2>1 DEF DomainEnd
  <2>4. CASE m = 0
    BY <1>1, <2>2, <2>3, <2>4
  <2>5. CASE m # 0
    BY <1>1, <2>2, <2>3, <2>5
  <2> QED
    BY <2>4, <2>5
<1>5. ASSUME NEW ch, NEW n \in 1..(Len(s) + 1), \A k \in 1..(n - 1) : s[k] # ch
      PROVE  strchr(SubSeq(s, 1, n - 1), ch) = 0
  <2>1. PICK m \in Nat : m = n - 1 /\ m <= Len(s)
    BY <1>1
  <2>2. /\ SubSeq(s, 1, m) \in Seq(S) /\ Len(SubSeq(s, 1, m)) = IF 1 <= m THEN m - 1 + 1 ELSE 0
        /\ \A k \in 1..Len(SubSeq(s, 1, m)) : SubSeq(s, 1, m)[k] = s[1 + k - 1]
    <3>1. 1 \in Nat \ {0}
      OBVIOUS
    <3> QED
      BY <2>1, <3>1, Part
  <2>3. Len(SubSeq(s, 1, m)) = m
    BY <2>2
  <2>4. \A k \in 1..Len(SubSeq(s, 1, m)) : SubSeq(s, 1, m)[k] # ch
    BY <1>5, <2>1, <2>2, <2>3
  <2>5. strchr(SubSeq(s, 1, m), ch) = 0
    BY <2>2, <2>4, StrchrNone
  <2> QED
    BY <2>1, <2>5
<1>6. i < j - 1 /\ i # 1
  BY <1>2
<1>7. IF i = 0 THEN strchr(s, "@") = 0
               ELSE i > 1 /\ s[i] = "@" /\ strchr(SubSeq(s, 1, i - 1), "@") = 0
  <2>1. CASE i = 0
    BY <1>2, <2>1
  <2>2. CASE i # 0
    <3>1. i > 1 /\ i \in 1..(Len(s) + 1)
      BY <1>1, <1>3, <1>6, <2>2
    <3> QED
      BY <1>3, <1>5, <2>2, <3>1
  <2> QED
    BY <2>1, <2>2
<1>8. strchr(SubSeq(s, 1, j - 1), "/") = 0
  BY <1>4, <1>5
<1>9. [i |-> i, j |-> j] \in JidReadings(s)
  BY <1>3, <1>4, <1>6, <1>7, <1>8 DEF JidReadings
<1> QED
  BY <1>2, <1>9

(* With its '@' before its '/', the length that jid_parse computes for the
   domain is that of the text between them. *)
LEMMA DomainLenIs ==
  ASSUME NEW S, NEW s \in Seq(S), InOrder(s)
  PROVE  /\ strchr(s, "@") \in 0..Len(s) /\ DomainEnd(s) \in 1..(Len(s) + 1)
         /\ strchr(s, "@") < DomainEnd(s)
         /\ DomainLen(s) = DomainEnd(s) - strchr(s, "@") - 1
         /\ DomainLen(s) \in Nat
<1>1. Len(s) \in Nat
  BY LenProperties
<1>2. PICK at, slash : at = strchr(s, "@") /\ slash = strchr(s, "/")
  OBVIOUS
<1>3. at \in 0..Len(s) /\ slash \in 0..Len(s)
  BY <1>2, StrchrFirst
<1>4. slash = 0 \/ at < slash
  BY <1>2 DEF InOrder
<1>5. DomainLen(s) = IF slash = 0 THEN Len(s) - at ELSE slash - at - 1
  BY <1>2 DEF DomainLen
<1>6. DomainEnd(s) = IF slash = 0 THEN Len(s) + 1 ELSE slash
  BY <1>2 DEF DomainEnd
<1>7. CASE slash = 0
  BY <1>1, <1>2, <1>3, <1>5, <1>6, <1>7
<1>8. CASE slash # 0
  BY <1>1, <1>2, <1>3, <1>4, <1>5, <1>6, <1>8
<1> QED
  BY <1>7, <1>8

(* jid_parse accepts what can be read, and nothing else. *)
LEMMA ParseOk ==
  ASSUME NEW S, NEW s \in Seq(S), InOrder(s)
  PROVE  jid_parse(s).ok <=> JidReadings(s) # {}
<1>1. Len(s) \in Nat
  BY LenProperties
<1>2. PICK at, e : at = strchr(s, "@") /\ e = DomainEnd(s)
  OBVIOUS
<1>3. /\ at \in 0..Len(s) /\ e \in 1..(Len(s) + 1) /\ at < e
      /\ DomainLen(s) = e - at - 1 /\ DomainLen(s) \in Nat
  BY <1>2, DomainLenIs
<1>4. jid_parse(s).ok <=> s # << >> /\ at # 1 /\ DomainLen(s) # 0
  BY <1>2 DEF jid_parse
<1>5. ASSUME jid_parse(s).ok PROVE JidReadings(s) # {}
  <2>1. at # 1 /\ at < e - 1
    BY <1>1, <1>3, <1>4, <1>5
  <2> QED
    BY <1>2, <2>1, IsReading
<1>6. ASSUME NEW r \in JidReadings(s) PROVE jid_parse(s).ok
  <2>1. at # 1 /\ at < e - 1
    BY <1>2, <1>6, OneReading
  <2>2. s # << >>
    <3>1. Len(s) # 0
      BY <1>1, <1>3, <2>1
    <3> QED
      BY <3>1, EmptySeq
  <2> QED
    BY <1>1, <1>3, <1>4, <2>1, <2>2
<1> QED
  BY <1>5, <1>6

(* And it splits the string as it reads. *)
LEMMA ParseSplits ==
  ASSUME NEW S, NEW s \in Seq(S), InOrder(s), NEW r \in JidReadings(s)
  PROVE  /\ jid_parse(s).local = Cut(SubSeq(s, 1, r.i - 1), FIELD)
         /\ jid_parse(s).domain = Cut(SubSeq(s, r.i + 1, r.j - 1), FIELD)
         /\ jid_parse(s).resource = Cut(From(s, r.j + 1), FIELD)
<1>1. Len(s) \in Nat
  BY LenProperties
<1>2. PICK at, e : at = strchr(s, "@") /\ e = DomainEnd(s)
  OBVIOUS
<1>3. /\ at \in 0..Len(s) /\ e \in 1..(Len(s) + 1)
      /\ DomainLen(s) = e - at - 1 /\ DomainLen(s) \in Nat
  BY <1>2, DomainLenIs
<1>4. r.i = at /\ r.j = e
  BY <1>2, OneReading
<1>5. jid_parse(s).local = Cut(SubSeq(s, 1, at - 1), FIELD)
  BY <1>2 DEF jid_parse
<1>6. jid_parse(s).domain = Cut(SubSeq(s, at + 1, e - 1), FIELD)
  <2>1. ~(DomainLen(s) < 0) /\ at + DomainLen(s) = e - 1
    BY <1>1, <1>3
  <2>2. jid_parse(s).domain =
          Cut(IF DomainLen(s) < 0 THEN From(s, at + 1) ELSE SubSeq(s, at + 1, at + DomainLen(s)), FIELD)
    BY <1>2 DEF jid_parse
  <2> QED
    BY <2>1, <2>2
<1>7. jid_parse(s).resource = Cut(From(s, e + 1), FIELD)
  <2>1. jid_parse(s).resource =
          IF strchr(s, "/") = 0 THEN << >> ELSE Cut(From(s, strchr(s, "/") + 1), FIELD)
    BY DEF jid_parse
  <2>2. CASE strchr(s, "/") # 0
    BY <1>2, <2>1, <2>2 DEF DomainEnd
  <2>3. CASE strchr(s, "/") = 0
    <3>1. e = Len(s) + 1
      BY <1>2, <2>3 DEF DomainEnd
    <3>2. From(s, e + 1) = << >>
      BY <1>1, <3>1, SubSeqEmpty DEF From
    <3>3. PICK z \in Seq(S) : z = << >> /\ Len(z) = 0
      BY EmptySeq
    <3>4. Cut(z, FIELD) = z
      <4>1. Len(z) < FIELD
        BY <3>3, ConstAssumption
      <4> QED
        BY <4>1, Fits
    <3> QED
      BY <2>1, <2>3, <3>2, <3>3, <3>4
  <2> QED
    BY <2>2, <2>3
<1> QED
  BY <1>4, <1>5, <1>6, <1>7

(* A name without '@' and '/', and a domain without '/', that fit their arrays
   are found again in the bare JID made of them. *)
LEMMA BareParses ==
  ASSUME NEW S, "@" \in S, NEW local \in Seq(S), NEW domain \in Seq(S),
         Len(local) > 0, Len(local) < FIELD, Len(domain) > 0, Len(domain) < FIELD,
         \A k \in 1..Len(local) : local[k] # "@" /\ local[k] # "/",
         \A k \in 1..Len(domain) : domain[k] # "/"
  PROVE  LET q == jid_parse(jid_bare(local, domain))
         IN q.ok /\ q.local = local /\ q.domain = domain
<1>1. PICK a \in Nat, d \in Nat : a = Len(local) /\ d = Len(domain)
  BY LenProperties
<1>2. PICK b : b = jid_bare(local, domain)
  OBVIOUS
<1>3. <<"@">> \in Seq(S) /\ Len(<<"@">>) = 1 /\ <<"@">>[1] = "@"
  OBVIOUS
<1>4. PICK h : h = local \o <<"@">>
  OBVIOUS
<1>5. /\ h \in Seq(S) /\ Len(h) = a + 1
      /\ \A k \in 1..(a + 1) : h[k] = IF k <= a THEN local[k] ELSE "@"
  <2>1. /\ h \in Seq(S) /\ Len(h) = a + 1
        /\ \A k \in 1..(a + 1) : h[k] = IF k <= a THEN local[k] ELSE <<"@">>[k - a]
    BY <1>1, <1>3, <1>4, ConcatProperties
  <2> QED
    BY <1>3, <2>1
<1>6. /\ b \in Seq(S) /\ Len(b) = a + 1 + d
      /\ \A k \in 1..(a + 1 + d) : b[k] = IF k <= a + 1 THEN h[k] ELSE domain[k - (a + 1)]
  BY <1>1, <1>2, <1>4, <1>5, ConcatProperties DEF jid_bare
<1>7. /\ \A k \in 1..a : b[k] = local[k]
      /\ b[a + 1] = "@"
      /\ \A k \in 1..d : b[a + 1 + k] = domain[k]
      /\ \A k \in 1..Len(b) : k \in 1..a \/ k = a + 1 \/ \E m \in 1..d : k = a + 1 + m
  <2>1. \A k \in 1..a : b[k] = local[k]
    BY <1>1, <1>5, <1>6
  <2>2. b[a + 1] = "@"
    BY <1>1, <1>5, <1>6
  <2>3. ASSUME NEW k \in 1..d PROVE b[a + 1 + k] = domain[k]
    <3>1. a + 1 + k \in 1..(a + 1 + d) /\ ~(a + 1 + k <= a + 1) /\ a + 1 + k - (a + 1) = k
      BY <1>1
    <3> QED
      BY <1>6, <3>1
  <2>4. ASSUME NEW k \in 1..Len(b), k \notin 1..a, k # a + 1 PROVE \E m \in 1..d : k = a + 1 + m
    <3>1. k - (a + 1) \in 1..d /\ k = a + 1 + (k - (a + 1))
      BY <1>1, <1>6, <2>4
    <3> QED
      BY <3>1
  <2> QED
    BY <2>1, <2>2, <2>3, <2>4
<1>8. strchr(b, "@") = a + 1
  <2>1. PICK n \in 1..Len(b) : n = a + 1
    BY <1>1, <1>6
  <2>2. \A k \in 1..(n - 1) : k \in 1..a
    BY <1>1, <2>1
  <2>3. b[n] = "@" /\ \A k \in 1..(n - 1) : b[k] # "@"
    BY <1>1, <1>7, <2>1, <2>2
  <2> QED
    BY <1>6, <2>1, <2>3, StrchrIs
<1>9. strchr(b, "/") = 0
  <2>1. \A k \in 1..Len(b) : b[k] # "/"
    BY <1>1, <1>7
  <2> QED
    BY <1>6, <2>1, StrchrNone
<1>10. DomainLen(b) = d /\ ~(d < 0) /\ d # 0 /\ a + 1 # 1
  BY <1>1, <1>6, <1>8, <1>9 DEF DomainLen
<1>11. jid_parse(b).ok
  <2>1. b # << >>
    <3>1. Len(b) # 0
      BY <1>1, <1>6
    <3> QED
      BY <3>1, EmptySeq
  <2> QED
    BY <1>8, <1>10, <2>1 DEF jid_parse
<1>12. jid_parse(b).local = local
  <2>1. jid_parse(b).local = Cut(SubSeq(b, 1, a), FIELD)
    <3>1. a + 1 - 1 = a
      OBVIOUS
    <3> QED
      BY <1>8, <3>1 DEF jid_parse
  <2>2. PICK l : l = SubSeq(b, 1, a)
    OBVIOUS
  <2>3. /\ l \in Seq(S) /\ Len(l) = IF 1 <= a THEN a - 1 + 1 ELSE 0
        /\ \A k \in 1..Len(l) : l[k] = b[1 + k - 1]
    <3>1. 1 \in Nat \ {0} /\ a <= Len(b)
      BY <1>1, <1>6
    <3> QED
      BY <1>6, <2>2, <3>1, Part
  <2>4. Len(l) = a /\ \A k \in 1..a : l[k] = local[k]
    BY <1>1, <1>7, <2>3
  <2>5. l = local
    BY <1>1, <2>3, <2>4, SeqEqual
  <2> QED
    BY <2>1, <2>2, <2>5, Fits
<1>13. jid_parse(b).domain = domain
  <2>1. jid_parse(b).domain = Cut(SubSeq(b, a + 2, a + 1 + d), FIELD)
    <3>1. a + 1 + 1 = a + 2
      OBVIOUS
    <3> QED
      BY <1>8, <1>10, <3>1 DEF jid_parse
  <2>2. PICK l : l = SubSeq(b, a + 2, a + 1 + d)
    OBVIOUS
  <2>3. /\ l \in Seq(S)
        /\ Len(l) = IF a + 2 <= a + 1 + d THEN a + 1 + d - (a + 2) + 1 ELSE 0
        /\ \A k \in 1..Len(l) : l[k] = b[a + 2 + k - 1]
    <3>1. a + 2 \in Nat \ {0} /\ a + 1 + d \in Nat /\ a + 1 + d <= Len(b)
      BY <1>1, <1>6
    <3> QED
      BY <1>6, <2>2, <3>1, Part
  <2>4. Len(l) = d
    BY <1>1, <2>3
  <2>5. \A k \in 1..d : l[k] = domain[k]
    <3>1. \A k \in 1..d : a + 2 + k - 1 = a + 1 + k
      OBVIOUS
    <3> QED
      BY <1>7, <2>3, <2>4, <3>1
  <2>6. l = domain
    BY <1>1, <2>3, <2>4, <2>5, SeqEqual
  <2> QED
    BY <2>1, <2>2, <2>6, Fits
<1> QED
  BY <1>2, <1>11, <1>12, <1>13

(* The parts of a parsed JID are such a name and such a domain. *)
LEMMA BareStableHolds ==
  ASSUME NEW S, "@" \in S, NEW s \in Seq(S), InOrder(s)
  PROVE  BareStable(jid_parse(s))
<1> SUFFICES ASSUME jid_parse(s).ok, jid_parse(s).local # << >>
             PROVE  LET q == jid_parse(jid_bare(jid_parse(s).local, jid_parse(s).domain))
                    IN q.ok /\ q.local = jid_parse(s).local /\ q.domain = jid_parse(s).domain
  BY DEF BareStable
<1>1. Len(s) \in Nat /\ FIELD \in Nat \ {0, 1} /\ 1 \in Nat \ {0}
  BY LenProperties, ConstAssumption
<1>2. PICK r \in JidReadings(s) : TRUE
  BY ParseOk
<1>3. PICK at, e : at = r.i /\ e = r.j
  OBVIOUS
<1>4. /\ at = strchr(s, "@") /\ e = DomainEnd(s) /\ at # 1 /\ at < e - 1
      /\ at \in 0..Len(s) /\ e \in 1..(Len(s) + 1)
  BY <1>2, <1>3, OneReading, DomainLenIs
<1>5. /\ at # 0 => s[at] = "@" /\ \A k \in 1..(at - 1) : s[k] # "@"
      /\ \A k \in 1..(e - 1) : s[k] # "/"
  <2>1. at # 0 => s[at] = "@" /\ \A k \in 1..(at - 1) : s[k] # "@"
    BY <1>4, StrchrFirst
  <2>2. CASE strchr(s, "/") = 0
    <3>1. e - 1 = Len(s)
      BY <1>1, <1>4, <2>2 DEF DomainEnd
    <3> QED
      BY <2>1, <2>2, <3>1, StrchrFirst
  <2>3. CASE strchr(s, "/") # 0
    <3>1. e = strchr(s, "/")
      BY <1>4, <2>3 DEF DomainEnd
    <3>2. \A k \in 1..(e - 1) : s[k] # "/"
      BY <2>3, <3>1, StrchrFirst
    <3> QED
      BY <2>1, <3>2
  <2> QED
    BY <2>2, <2>3
<1>6. /\ jid_parse(s).local = Cut(SubSeq(s, 1, at - 1), FIELD)
      /\ jid_parse(s).domain = Cut(SubSeq(s, at + 1, e - 1), FIELD)
  BY <1>2, <1>3, ParseSplits
<1>7. at # 0
  <2> SUFFICES ASSUME at = 0 PROVE FALSE
    OBVIOUS
  <2>1. PICK z \in Seq(S) : z = << >> /\ Len(z) = 0
    BY EmptySeq
  <2>2. SubSeq(s, 1, at - 1) = z
    BY <2>1, SubSeqEmpty
  <2>3. Len(z) < FIELD
    BY <1>1, <2>1
  <2>4. jid_parse(s).local = z
    BY <1>6, <2>2, <2>3, Fits
  <2> QED
    BY <2>1, <2>4
<1>8. PICK l \in Seq(S) : /\ l = jid_parse(s).local /\ Len(l) > 0 /\ Len(l) < FIELD
                          /\ \A k \in 1..Len(l) : l[k] # "@" /\ l[k] # "/"
  <2>1. PICK n \in Nat : n = at - 1 /\ n <= Len(s) /\ n >= 1
    BY <1>1, <1>4, <1>7
  <2>2. PICK u : u = SubSeq(s, 1, n)
    OBVIOUS
  <2>3. /\ u \in Seq(S) /\ Len(u) = IF 1 <= n THEN n - 1 + 1 ELSE 0
        /\ \A k \in 1..Len(u) : u[k] = s[1 + k - 1]
    BY <1>1, <2>1, <2>2, Part
  <2>4. Len(u) = n /\ \A k \in 1..n : u[k] = s[k]
    BY <2>1, <2>3
  <2>5. PICK x : x = Cut(u, FIELD)
    OBVIOUS
  <2>6. /\ x \in Seq(S) /\ Len(x) \in Nat /\ Len(x) < FIELD /\ Len(x) <= Len(u)
        /\ Len(u) > 0 => Len(x) > 0
        /\ \A k \in 1..Len(x) : x[k] = u[k]
    BY <1>1, <2>3, <2>5, CutFacts
  <2>7. x = jid_parse(s).local
    BY <1>6, <2>1, <2>2, <2>5
  <2>8. \A k \in 1..Len(x) : x[k] = s[k] /\ k \in 1..(at - 1) /\ k \in 1..(e - 1)
    <3> SUFFICES ASSUME NEW k \in 1..Len(x)
                 PROVE  x[k] = s[k] /\ k \in 1..(at - 1) /\ k \in 1..(e - 1)
      OBVIOUS
    <3>1. k \in Nat /\ k >= 1 /\ k <= Len(x) /\ x[k] = u[k]
      BY <2>6
    <3>2. Len(x) <= n
      BY <2>4, <2>6
    <3>3. k \in 1..n
      BY <2>1, <2>6, <3>1, <3>2
    <3>4. u[k] = s[k]
      BY <2>4, <3>3
    <3>5. n <= e - 1
      BY <1>1, <1>4, <2>1
    <3>6. k \in 1..(e - 1)
      BY <1>1, <1>4, <2>1, <3>1, <3>3, <3>5
    <3>7. k \in 1..(at - 1)
      BY <2>1, <3>3
    <3> QED
      BY <3>1, <3>4, <3>6, <3>7
  <2>9. Len(x) > 0
    BY <2>1, <2>4, <2>6
  <2>10. ASSUME NEW k \in 1..Len(x) PROVE x[k] # "@" /\ x[k] # "/"
    <3>1. x[k] = s[k] /\ k \in 1..(at - 1) /\ k \in 1..(e - 1)
      BY <2>8
    <3>2. s[k] # "@"
      BY <1>5, <1>7, <3>1
    <3>3. s[k] # "/"
      BY <1>5, <3>1
    <3> QED
      BY <3>1, <3>2, <3>3
  <2> QED
    BY <2>6, <2>7, <2>9, <2>10
<1>9. PICK d \in Seq(S) : /\ d = jid_parse(s).domain /\ Len(d) > 0 /\ Len(d) < FIELD
                          /\ \A k \in 1..Len(d) : d[k] # "/"
  <2>1. PICK m \in Nat \ {0}, n \in Nat : m = at + 1 /\ n = e - 1 /\ n <= Len(s) /\ m <= n
    BY <1>1, <1>4
  <2>2. PICK u : u = SubSeq(s, m, n)
    OBVIOUS
  <2>3. /\ u \in Seq(S) /\ Len(u) = IF m <= n THEN n - m + 1 ELSE 0
        /\ \A k \in 1..Len(u) : u[k] = s[m + k - 1]
    BY <2>1, <2>2, Part
  <2>4. Len(u) = n - m + 1 /\ Len(u) > 0
    BY <2>1, <2>3
  <2>5. PICK d : d = Cut(u, FIELD)
    OBVIOUS
  <2>6. /\ d \in Seq(S) /\ Len(d) \in Nat /\ Len(d) < FIELD /\ Len(d) <= Len(u)
        /\ Len(u) > 0 => Len(d) > 0
        /\ \A k \in 1..Len(d) : d[k] = u[k]
    BY <1>1, <2>3, <2>5, CutFacts
  <2>7. d = jid_parse(s).domain
    BY <1>6, <2>1, <2>2, <2>5
  <2>8. ASSUME NEW k \in 1..Len(d) PROVE d[k] # "/"
    <3>0. k \in Nat /\ k >= 1 /\ k <= Len(u)
      BY <2>4, <2>6
    <3>a. k <= n - m + 1
      BY <2>4, <3>0
    <3>1. k \in 1..Len(u) /\ m + k - 1 \in 1..(e - 1)
      <4>1. m + k - 1 \in 1..n
        <5>1. \A a, b, c \in Nat : 1 <= a /\ 1 <= c /\ c <= b - a + 1 => a + c - 1 \in 1..b
          OBVIOUS
        <5>2. 1 <= m
          BY <2>1
        <5> QED
          BY <2>1, <3>0, <3>a, <5>1, <5>2
      <4>2. e - 1 = n
        BY <2>1
      <4>3. k \in 1..Len(u)
        BY <2>1, <2>4, <3>0, <3>a
      <4> QED
        BY <4>1, <4>2, <4>3
    <3>2. d[k] = s[m + k - 1]
      BY <2>3, <2>6, <3>1
    <3> QED
      BY <1>5, <3>1, <3>2
  <2> QED
    BY <2>4, <2>6, <2>7, <2>8
<1>10. LET q == jid_parse(jid_bare(l, d)) IN q.ok /\ q.local = l /\ q.domain = d
  BY <1>8, <1>9, BareParses
<1> QED
  BY <1>8, <1>9, <1>10
-----------------------------------------------------------------------------
(* An input is a sequence over the alphabet of its conversion. *)
InType == in \in Seq(Alphabet[kind])

(* The input of a conversion grows by a symbol of its alphabet. *)
LEMMA InTypeAlways == Spec => []InType
<1>1. Init => InType
  BY EmptySeq DEF Init, InType
<1>2. InType /\ [Next]_vars => InType'
  <2> SUFFICES ASSUME InType, [Next]_vars PROVE in' \in Seq(Alphabet[kind'])
    BY DEF InType
  <2>1. CASE Next
    <3>1. kind' = kind /\ in \in Seq(Alphabet[kind])
      BY <2>1 DEF Next, InType
    <3>2. PICK x \in Alphabet[kind] : in' = Append(in, x)
      BY <2>1 DEF Next
    <3> QED
      BY <3>1, <3>2, AppendProperties
  <2>2. CASE UNCHANGED vars
    BY <2>2 DEF vars, InType
  <2> QED
    BY <2>1, <2>2
<1> QED
  BY <1>1, <1>2, PTL DEF Spec

(* jid_parse accepts exactly the strings, of any length, that can be read as a
   JID, and splits each as it reads, cut to the size of the arrays; the bare
   JID that sessions and roster items are compared by is parsed to the same
   name and domain again. *)
THEOREM JidReferenceHolds == Spec => []JidReference
<1>1. InType => JidReference
  <2> SUFFICES ASSUME InType, kind = "jid", InOrder(in)
               PROVE  /\ BareStable(jid_parse(in))
                      /\ jid_parse(in).ok <=> JidReadings(in) # {}
                      /\ \A r \in JidReadings(in) :
                           /\ jid_parse(in).local = Cut(SubSeq(in, 1, r.i - 1), FIELD)
                           /\ jid_parse(in).domain = Cut(SubSeq(in, r.i + 1, r.j - 1), FIELD)
                           /\ jid_parse(in).resource = Cut(From(in, r.j + 1), FIELD)
    BY DEF JidReference
  <2>1. PICK S : in \in Seq(S) /\ "@" \in S
    BY DEF InType, Alphabet
  <2>2. BareStable(jid_parse(in))
    BY <2>1, BareStableHolds
  <2>3. jid_parse(in).ok <=> JidReadings(in) # {}
    BY <2>1, ParseOk
  <2>4. ASSUME NEW r \in JidReadings(in)
        PROVE  /\ jid_parse(in).local = Cut(SubSeq(in, 1, r.i - 1), FIELD)
               /\ jid_parse(in).domain = Cut(SubSeq(in, r.i + 1, r.j - 1), FIELD)
               /\ jid_parse(in).resource = Cut(From(in, r.j + 1), FIELD)
    BY <2>1, ParseSplits
  <2> QED
    BY <2>2, <2>3, <2>4
<1> QED
  BY <1>1, InTypeAlways, PTL
-----------------------------------------------------------------------------
(* user.conf *)

(* A string of blanks is trimmed to nothing. *)
LEMMA TrimBlank ==
  ASSUME NEW S, NEW s \in Seq(S), \A k \in 1..Len(s) : s[k] = BL
  PROVE  Trim(s) = << >>
<1>1. {k \in 1..Len(s) : s[k] # BL} = {}
  OBVIOUS
<1>2. SelectInSeq(s, LAMBDA x : x # BL) = 0
  BY <1>1 DEF SelectInSeq
<1> QED
  BY <1>2 DEF Trim

(* Trim keeps what is between the first and the last that is not blank. *)
LEMMA TrimIs ==
  ASSUME NEW S, NEW s \in Seq(S), NEW i \in 1..Len(s), NEW j \in 1..Len(s),
         s[i] # BL, s[j] # BL,
         \A k \in 1..Len(s) : k < i \/ k > j => s[k] = BL
  PROVE  Trim(s) = SubSeq(s, i, j)
<1>1. Len(s) \in Nat
  BY LenProperties
<1>2. PICK I : I = {k \in 1..Len(s) : s[k] # BL}
  OBVIOUS
<1>3. I \in SUBSET Nat /\ I \in SUBSET (0..Len(s)) /\ i \in I /\ j \in I
  BY <1>1, <1>2
<1>4. \A k \in I : i <= k /\ k <= j
  BY <1>1, <1>2
<1>5. Min(I) = i
  BY <1>3, <1>4, MinIs
<1>6. Max(I) = j
  BY <1>1, <1>3, <1>4, MaxIs
<1>7. SelectInSeq(s, LAMBDA x : x # BL) = i
  BY <1>2, <1>3, <1>5 DEF SelectInSeq
<1>8. SelectLastInSeq(s, LAMBDA x : x # BL) = j
  BY <1>2, <1>3, <1>6 DEF SelectLastInSeq
<1>9. i # 0
  BY <1>1
<1> QED
  BY <1>7, <1>8, <1>9 DEF Trim

(* A string has nothing but blanks, or a first and a last that is none. *)
LEMMA BlankOrNot ==
  ASSUME NEW S, NEW s \in Seq(S)
  PROVE  \/ \A k \in 1..Len(s) : s[k] = BL
         \/ \E i, j \in 1..Len(s) : /\ s[i] # BL /\ s[j] # BL /\ i <= j
                                    /\ \A k \in 1..Len(s) : k < i \/ k > j => s[k] = BL
<1>1. Len(s) \in Nat
  BY LenProperties
<1>2. PICK I : I = {k \in 1..Len(s) : s[k] # BL}
  OBVIOUS
<1>3. I \in SUBSET Nat /\ I \in SUBSET (0..Len(s))
  BY <1>1, <1>2
<1>4. CASE I = {}
  BY <1>2, <1>4
<1>5. CASE I # {}
  <2>1. PICK i, j : i = Min(I) /\ j = Max(I)
    OBVIOUS
  <2>2. i \in I /\ \A k \in I : i <= k
    BY <1>3, <1>5, <2>1, MinOfNats
  <2>3. j \in I /\ \A k \in I : k <= j
    BY <1>1, <1>3, <1>5, <2>1, MaxOfBounded
  <2>4. /\ i \in 1..Len(s) /\ j \in 1..Len(s) /\ s[i] # BL /\ s[j] # BL /\ i <= j
    BY <1>2, <2>2, <2>3
  <2>5. ASSUME NEW k \in 1..Len(s), k < i \/ k > j PROVE s[k] = BL
    <3>1. ~(i <= k /\ k <= j)
      BY <1>1, <2>4, <2>5
    <3>2. k \notin I
      BY <2>2, <2>3, <3>1
    <3> QED
      BY <1>2, <3>2
  <2> QED
    BY <2>4, <2>5
<1> QED
  BY <1>4, <1>5

(* What is trimmed is a part, and it is all of the string only if that has no
   blank at its ends. *)
LEMMA TrimWhole ==
  ASSUME NEW S, NEW s \in Seq(S)
  PROVE  /\ Trim(s) \in Seq(S) /\ Len(Trim(s)) <= Len(s)
         /\ Trim(s) = s <=> (s # << >> => s[1] # BL /\ s[Len(s)] # BL)
<1>1. Len(s) \in Nat
  BY LenProperties
<1>2. CASE \A k \in 1..Len(s) : s[k] = BL
  <2>1. Trim(s) = << >> /\ << >> \in Seq(S) /\ Len(<< >>) = 0
    BY <1>2, TrimBlank, EmptySeq
  <2>2. s # << >> => 1 \in 1..Len(s)
    BY EmptySeq
  <2> QED
    BY <1>1, <1>2, <2>1, <2>2
<1>3. CASE ~ \A k \in 1..Len(s) : s[k] = BL
  <2>1. PICK i, j \in 1..Len(s) : /\ s[i] # BL /\ s[j] # BL /\ i <= j
                                  /\ \A k \in 1..Len(s) : k < i \/ k > j => s[k] = BL
    BY <1>3, BlankOrNot
  <2>2. PICK t : t = SubSeq(s, i, j)
    OBVIOUS
  <2>3. Trim(s) = t
    BY <2>1, <2>2, TrimIs
  <2>4. i \in Nat \ {0} /\ j \in Nat /\ j <= Len(s)
    BY <1>1
  <2>5. t \in Seq(S) /\ Len(t) = j - i + 1
    BY <2>1, <2>2, <2>4, Part
  <2>6. Len(t) <= Len(s)
    BY <1>1, <2>4, <2>5
  <2>7. s # << >>
    BY <1>1, <2>1, EmptySeq
  <2>8. 1 \in 1..Len(s) /\ Len(s) \in 1..Len(s)
    BY <1>1, <2>4
  <2>9. ASSUME t = s PROVE s[1] # BL /\ s[Len(s)] # BL
    <3>1. i = 1 /\ j = Len(s)
      BY <1>1, <2>4, <2>5, <2>9
    <3> QED
      BY <2>1, <3>1
  <2>10. ASSUME s[1] # BL, s[Len(s)] # BL PROVE t = s
    <3>1. i = 1 /\ j = Len(s)
      BY <1>1, <2>1, <2>8, <2>10
    <3> QED
      BY <2>2, <3>1, SubSeqFull
  <2> QED
    BY <2>3, <2>5, <2>6, <2>7, <2>9, <2>10
<1> QED
  BY <1>2, <1>3

(* Blanks before the '=' of a line whose key is k, and around its value. *)
LEMMA ValueRead ==
  ASSUME NEW S, NEW c \in Seq(S), NEW line, Chomp(line) = c, Len(c) >= 4,
         c[1] = KEY, c[2] = BL, c[3] = "=", c[4] = BL
  PROVE  KeyValue(line) = << <<KEY>>, Trim(SubSeq(c, 5, Len(c))) >>
<1>1. Len(c) \in Nat
  BY LenProperties
<1>2. PICK q : q = SubSeq(c, 5, Len(c))
  OBVIOUS
<1>3. /\ q \in Seq(S) /\ Len(q) = Len(c) - 4
      /\ \A k \in 1..Len(q) : q[k] = c[4 + k]
  <2>1. /\ q \in Seq(S) /\ Len(q) = IF 5 <= Len(c) THEN Len(c) - 5 + 1 ELSE 0
        /\ \A k \in 1..Len(q) : q[k] = c[5 + k - 1]
    BY <1>1, <1>2, Part
  <2>2. Len(q) = Len(c) - 4
    <3>1. CASE 5 <= Len(c)
      BY <1>1, <2>1, <3>1
    <3>2. CASE ~(5 <= Len(c))
      <4>1. Len(c) = 4
        <5>1. \A n \in Nat : n >= 4 /\ ~(5 <= n) => n = 4
          OBVIOUS
        <5> QED
          BY <1>1, <3>2, <5>1
      <4>2. Len(q) = 0
        BY <2>1, <3>2
      <4> QED
        BY <4>1, <4>2
    <3> QED
      BY <3>1, <3>2
  <2> QED
    BY <1>1, <2>1, <2>2
<1>4. KEY # BL /\ "=" # BL /\ KEY # "=" /\ KEY # "#" /\ BL # "="
  BY DEF KEY, BL
<1>5. \E e \in 3..Len(c) :
        /\ c[e] # BL /\ \A k \in 1..Len(c) : k > e => c[k] = BL
        /\ Trim(SubSeq(c, 4, e)) = Trim(q)
  <2>1. CASE \A k \in 1..Len(q) : q[k] = BL
    <3>1. ASSUME NEW k \in 1..Len(c), k > 3 PROVE c[k] = BL
      <4>1. CASE k = 4
        BY <4>1
      <4>2. CASE k # 4
        <5>1. k - 4 \in 1..Len(q) /\ 4 + (k - 4) = k
          BY <1>1, <1>3, <3>1, <4>2
        <5> QED
          BY <1>3, <2>1, <5>1
      <4> QED
        BY <4>1, <4>2
    <3>2. SubSeq(c, 4, 3) = << >>
      BY SubSeqEmpty
    <3>3. Trim(q) = << >>
      BY <1>3, <2>1, TrimBlank
    <3>4. PICK z \in Seq(S) : z = << >> /\ Len(z) = 0
      BY EmptySeq
    <3>5. Trim(z) = << >>
      <4>1. \A k \in 1..Len(z) : z[k] = BL
        BY <3>4
      <4> QED
        BY <4>1, TrimBlank
    <3>6. 3 \in 3..Len(c)
      BY <1>1
    <3> QED
      BY <1>4, <3>1, <3>2, <3>3, <3>4, <3>5, <3>6
  <2>2. CASE ~ \A k \in 1..Len(q) : q[k] = BL
    <3>1. PICK i, j \in 1..Len(q) : /\ q[i] # BL /\ q[j] # BL /\ i <= j
                                    /\ \A k \in 1..Len(q) : k < i \/ k > j => q[k] = BL
      BY <1>3, <2>2, BlankOrNot
    <3>2. PICK f \in Nat : f = 4 + j /\ f <= Len(c) /\ f >= 5
      BY <1>1, <1>3
    <3>3. c[f] # BL
      BY <1>3, <3>1, <3>2
    <3>4. ASSUME NEW k \in 1..Len(c), k > f PROVE c[k] = BL
      <4>1. k - 4 \in 1..Len(q) /\ 4 + (k - 4) = k /\ k - 4 > j
        BY <1>1, <1>3, <3>2, <3>4
      <4> QED
        BY <1>3, <3>1, <4>1
    <3>5. PICK w : w = SubSeq(c, 4, f)
      OBVIOUS
    <3>6. /\ w \in Seq(S) /\ Len(w) = j + 1
          /\ \A k \in 1..Len(w) : w[k] = c[3 + k]
      <4>1. /\ w \in Seq(S) /\ Len(w) = IF 4 <= f THEN f - 4 + 1 ELSE 0
            /\ \A k \in 1..Len(w) : w[k] = c[4 + k - 1]
        BY <3>2, <3>5, Part
      <4>2. Len(w) = j + 1
        BY <1>1, <1>3, <3>2, <4>1
      <4>3. ASSUME NEW k \in 1..Len(w) PROVE 4 + k - 1 = 3 + k
        BY <4>2
      <4> QED
        BY <4>1, <4>2, <4>3
    <3>7. ASSUME NEW k \in 2..Len(w) PROVE k - 1 \in 1..Len(q) /\ w[k] = q[k - 1]
      <4>1. k \in 1..Len(w) /\ k - 1 \in 1..Len(q) /\ 4 + (k - 1) = 3 + k
        BY <1>1, <1>3, <3>6
      <4>2. q[k - 1] = c[4 + (k - 1)]
        BY <1>3, <4>1
      <4> QED
        BY <3>6, <4>1, <4>2
    <3>8. w[1] = BL
      BY <3>6
    <3>9. PICK a, b \in 2..Len(w) : a = i + 1 /\ b = j + 1
      BY <1>1, <1>3, <3>1, <3>6
    <3>10. w[a] # BL /\ w[b] # BL
      BY <3>1, <3>7, <3>9
    <3>11. ASSUME NEW k \in 1..Len(w), k < a \/ k > b PROVE w[k] = BL
      <4>1. CASE k = 1
        BY <3>8, <4>1
      <4>2. CASE k # 1
        <5>1. k \in 2..Len(w) /\ (k - 1 < i \/ k - 1 > j)
          BY <1>1, <1>3, <3>6, <3>9, <3>11, <4>2
        <5>2. k - 1 \in 1..Len(q) /\ w[k] = q[k - 1]
          BY <3>7, <5>1
        <5> QED
          BY <3>1, <5>1, <5>2
      <4> QED
        BY <4>1, <4>2
    <3>12. a \in 1..Len(w) /\ b \in 1..Len(w)
      BY <3>9
    <3>13. Trim(w) = SubSeq(w, a, b)
      BY <3>6, <3>10, <3>11, <3>12, TrimIs
    <3>14. Trim(q) = SubSeq(q, i, j)
      BY <1>3, <3>1, TrimIs
    <3>15. SubSeq(w, a, b) = SubSeq(q, i, j)
      <4>1. PICK x, y : x = SubSeq(w, a, b) /\ y = SubSeq(q, i, j)
        OBVIOUS
      <4>2. a \in Nat \ {0} /\ b \in Nat /\ b <= Len(w) /\ i \in Nat \ {0} /\ j \in Nat /\ j <= Len(q)
        BY <1>1, <1>3, <3>6, <3>9
      <4>3. /\ x \in Seq(S) /\ Len(x) = IF a <= b THEN b - a + 1 ELSE 0
            /\ \A k \in 1..Len(x) : x[k] = w[a + k - 1]
        <5>1. w \in Seq(S)
          BY <3>6
        <5>2. a \in Nat \ {0} /\ b \in Nat /\ b <= Len(w)
          BY <4>2
        <5>3. /\ SubSeq(w, a, b) \in Seq(S)
              /\ Len(SubSeq(w, a, b)) = IF a <= b THEN b - a + 1 ELSE 0
              /\ \A k \in 1..Len(SubSeq(w, a, b)) : SubSeq(w, a, b)[k] = w[a + k - 1]
          BY <5>1, <5>2, Part
        <5>4. x = SubSeq(w, a, b)
          BY <4>1
        <5> QED
          BY <5>3, <5>4
      <4>4. /\ y \in Seq(S) /\ Len(y) = IF i <= j THEN j - i + 1 ELSE 0
            /\ \A k \in 1..Len(y) : y[k] = q[i + k - 1]
        BY <1>3, <4>1, <4>2, Part
      <4>5. Len(x) = Len(y) /\ Len(x) = j - i + 1
        BY <3>1, <3>9, <4>2, <4>3, <4>4
      <4>6. ASSUME NEW k \in 1..Len(x) PROVE x[k] = y[k]
        <5>1. a + k - 1 \in 2..Len(w) /\ (a + k - 1) - 1 = i + k - 1
          BY <3>9, <3>6, <4>2, <4>5
        <5>2. w[a + k - 1] = q[(a + k - 1) - 1]
          BY <3>7, <5>1
        <5> QED
          BY <4>3, <4>4, <4>5, <5>1, <5>2
      <4> QED
        BY <4>1, <4>3, <4>4, <4>5, <4>6, SeqEqual
    <3> QED
      <4>1. f \in 3..Len(c)
        BY <1>1, <3>2
      <4>2. Trim(SubSeq(c, 4, f)) = Trim(q)
        BY <3>5, <3>13, <3>14, <3>15
      <4> QED
        BY <3>3, <3>4, <4>1, <4>2
  <2> QED
    BY <2>1, <2>2
<1>6. PICK e \in 3..Len(c) :
        /\ c[e] # BL /\ \A k \in 1..Len(c) : k > e => c[k] = BL
        /\ Trim(SubSeq(c, 4, e)) = Trim(q)
  BY <1>5
<1>7. PICK s : s = SubSeq(c, 1, e)
  OBVIOUS
<1>8. Trim(c) = s
  <2>1. 1 \in 1..Len(c) /\ e \in 1..Len(c)
    BY <1>1, <1>6
  <2>2. \A k \in 1..Len(c) : k < 1 \/ k > e => c[k] = BL
    BY <1>1, <1>6
  <2> QED
    BY <1>4, <1>6, <1>7, <2>1, <2>2, TrimIs
<1>9. /\ s \in Seq(S) /\ Len(s) = e /\ e \in Nat
      /\ \A k \in 1..e : s[k] = c[k]
  <2>1. e \in Nat /\ e <= Len(c) /\ e >= 1
    BY <1>1, <1>6
  <2>2. /\ s \in Seq(S) /\ Len(s) = IF 1 <= e THEN e - 1 + 1 ELSE 0
        /\ \A k \in 1..Len(s) : s[k] = c[1 + k - 1]
    BY <1>7, <2>1, Part
  <2>3. Len(s) = e
    BY <2>1, <2>2
  <2> QED
    BY <2>1, <2>2, <2>3
<1>10. s[1] = KEY /\ s[2] = BL /\ s[3] = "=" /\ 3 \in 1..Len(s) /\ 2 \in 1..Len(s) /\ 1 \in 1..Len(s)
  BY <1>6, <1>9
<1>11. strchr(s, "=") = 3
  <2>1. \A k \in 1..(3 - 1) : s[k] # "="
    BY <1>4, <1>10
  <2> QED
    BY <1>9, <1>10, <2>1, StrchrIs
<1>12. s # << >>
  BY <1>9, <1>6, EmptySeq
<1>13. KeyValue(line) = <<Trim(SubSeq(s, 1, 3 - 1)), Trim(From(s, 3 + 1))>>
  BY <1>4, <1>8, <1>10, <1>11, <1>12 DEF KeyValue
<1>14. Trim(SubSeq(s, 1, 3 - 1)) = <<KEY>>
  <2>1. PICK u : u = SubSeq(s, 1, 2)
    OBVIOUS
  <2>2. /\ u \in Seq(S) /\ Len(u) = IF 1 <= 2 THEN 2 - 1 + 1 ELSE 0
        /\ \A k \in 1..Len(u) : u[k] = s[1 + k - 1]
    <3>1. s \in Seq(S) /\ 1 \in Nat \ {0} /\ 2 \in Nat /\ 2 <= Len(s)
      BY <1>6, <1>9
    <3> QED
      BY <2>1, <3>1, Part
  <2>3. Len(u) = 2 /\ u[1] = KEY /\ u[2] = BL
    BY <1>10, <2>2
  <2>4. Trim(u) = SubSeq(u, 1, 1)
    <3>1. \A k \in 1..Len(u) : k < 1 \/ k > 1 => u[k] = BL
      BY <2>3
    <3>2. 1 \in 1..Len(u) /\ u[1] # BL
      BY <1>4, <2>3
    <3> QED
      BY <2>2, <3>1, <3>2, TrimIs
  <2>5. SubSeq(u, 1, 1) = <<KEY>>
    <3>1. PICK x : x = SubSeq(u, 1, 1)
      OBVIOUS
    <3>2. /\ x \in Seq(S) /\ Len(x) = IF 1 <= 1 THEN 1 - 1 + 1 ELSE 0
          /\ \A k \in 1..Len(x) : x[k] = u[1 + k - 1]
      BY <2>2, <2>3, <3>1, Part
    <3>3. Len(x) = 1 /\ x[1] = KEY
      BY <2>3, <3>2
    <3>4. <<KEY>> \in Seq(S) /\ Len(<<KEY>>) = 1
      <4>1. KEY \in S
        BY <2>2, <2>3, ElementOfSeq
      <4> QED
        BY <4>1
    <3>5. \A k \in 1..Len(x) : x[k] = <<KEY>>[k]
      BY <3>3
    <3>6. x = <<KEY>>
      BY <3>2, <3>3, <3>4, <3>5, SeqEqual
    <3> QED
      BY <3>1, <3>6
  <2> QED
    <3>1. 3 - 1 = 2
      OBVIOUS
    <3> QED
      BY <2>1, <2>4, <2>5, <3>1
<1>15. From(s, 3 + 1) = SubSeq(c, 4, e)
  <2>1. From(s, 3 + 1) = SubSeq(s, 4, e)
    BY <1>9 DEF From
  <2>2. \A k \in 4..e : s[k] = c[k] /\ c[k] \in S
    BY <1>1, <1>6, <1>9, ElementOfSeq
  <2>3. PICK x, y : x = SubSeq(s, 4, e) /\ y = SubSeq(c, 4, e)
    OBVIOUS
  <2>4. /\ x \in Seq(S) /\ Len(x) = IF 4 <= e THEN e - 4 + 1 ELSE 0
        /\ \A i \in 1..(e - 4 + 1) : x[i] = s[4 + i - 1]
    BY <1>9, <2>2, <2>3, SubSeqProperties
  <2>5. /\ y \in Seq(S) /\ Len(y) = IF 4 <= e THEN e - 4 + 1 ELSE 0
        /\ \A i \in 1..(e - 4 + 1) : y[i] = c[4 + i - 1]
    BY <1>9, <2>2, <2>3, SubSeqProperties
  <2>6. ASSUME NEW i \in 1..Len(x) PROVE x[i] = y[i]
    <3>1. i \in 1..(e - 4 + 1) /\ 4 + i - 1 \in 4..e
      BY <1>9, <2>4
    <3> QED
      BY <2>2, <2>4, <2>5, <3>1
  <2>7. x = y
    BY <2>4, <2>5, <2>6, SeqEqual
  <2> QED
    BY <2>1, <2>3, <2>7
<1> QED
  BY <1>2, <1>6, <1>13, <1>14, <1>15

(* user.conf as written: the key, the password, a line end. *)
LEMMA ConfTextIs ==
  ASSUME NEW S, {KEY, BL, "=", NL} \subseteq S, NEW pw \in Seq(S)
  PROVE  LET t == ConfText(pw) IN
         /\ t \in Seq(S) /\ Len(t) = Len(pw) + 5 /\ Len(pw) \in Nat
         /\ t[1] = KEY /\ t[2] = BL /\ t[3] = "=" /\ t[4] = BL /\ t[Len(pw) + 5] = NL
         /\ \A i \in 1..Len(pw) : t[4 + i] = pw[i]
<1>1. Len(pw) \in Nat
  BY LenProperties
<1>2. PICK a, z : a = <<KEY, BL, "=", BL>> /\ z = <<NL>>
  OBVIOUS
<1>3. a \in Seq(S) /\ Len(a) = 4 /\ z \in Seq(S) /\ Len(z) = 1
  BY <1>2
<1>4. a[1] = KEY /\ a[2] = BL /\ a[3] = "=" /\ a[4] = BL /\ z[1] = NL
  BY <1>2
<1>5. PICK u : u = a \o pw
  OBVIOUS
<1>6. /\ u \in Seq(S) /\ Len(u) = 4 + Len(pw)
      /\ \A i \in 1..(4 + Len(pw)) : u[i] = IF i <= 4 THEN a[i] ELSE pw[i - 4]
  <2>1. /\ u \in Seq(S) /\ Len(u) = Len(a) + Len(pw)
        /\ \A i \in 1..(Len(a) + Len(pw)) : u[i] = IF i <= Len(a) THEN a[i] ELSE pw[i - Len(a)]
    BY <1>3, <1>5, ConcatProperties
  <2> QED
    BY <1>3, <2>1
<1>7. PICK t : t = u \o z
  OBVIOUS
<1>8. /\ t \in Seq(S) /\ Len(t) = Len(u) + 1
      /\ \A i \in 1..(Len(u) + 1) : t[i] = IF i <= Len(u) THEN u[i] ELSE z[i - Len(u)]
  <2>1. /\ t \in Seq(S) /\ Len(t) = Len(u) + Len(z)
        /\ \A i \in 1..(Len(u) + Len(z)) : t[i] = IF i <= Len(u) THEN u[i] ELSE z[i - Len(u)]
    BY <1>3, <1>6, <1>7, ConcatProperties
  <2> QED
    BY <1>3, <2>1
<1>9. t = ConfText(pw)
  BY <1>2, <1>5, <1>7 DEF ConfText
<1>10. \A i \in 1..(4 + Len(pw)) : t[i] = u[i]
  BY <1>1, <1>6, <1>8
<1>11. t[1] = KEY /\ t[2] = BL /\ t[3] = "=" /\ t[4] = BL
  BY <1>1, <1>4, <1>6, <1>10
<1>12. \A i \in 1..Len(pw) : t[4 + i] = pw[i]
  <2> SUFFICES ASSUME NEW i \in 1..Len(pw) PROVE t[4 + i] = pw[i]
    OBVIOUS
  <2>1. 4 + i \in 1..(4 + Len(pw)) /\ ~(4 + i <= 4) /\ (4 + i) - 4 = i
    BY <1>1
  <2> QED
    BY <1>6, <1>10, <2>1
<1>13. t[Len(pw) + 5] = NL
  <2>1. PICK n : n = Len(pw) + 5
    OBVIOUS
  <2>2. n \in 1..(Len(u) + 1) /\ ~(n <= Len(u)) /\ n - Len(u) = 1
    BY <1>1, <1>6, <2>1
  <2> QED
    BY <1>4, <1>8, <2>1, <2>2
<1>14. Len(t) = Len(pw) + 5
  BY <1>1, <1>6, <1>8
<1> QED
  BY <1>1, <1>8, <1>9, <1>11, <1>12, <1>13, <1>14

(* The end of the line that starts at i. *)
LEMMA NextLineType ==
  ASSUME NEW S, NEW t \in Seq(S), NEW i \in Nat \ {0}
  PROVE  NextLine(t, i) \in Nat \ {0}
<1>1. Len(t) \in Nat /\ LINE \in Nat /\ LINE > 4
  BY LenProperties, ConstAssumption
<1>2. PICK I : I = {k \in i..Len(t) : t[k] = NL}
  OBVIOUS
<1>3. PICK e : e = SelectInSubSeq(t, i, Len(t), LAMBDA x : x = NL)
  OBVIOUS
<1>4. e = IF I # {} THEN Min(I) ELSE 0
  BY <1>2, <1>3 DEF SelectInSubSeq
<1>5. I \in SUBSET Nat
  BY <1>1, <1>2
<1>6. e \in Nat
  BY <1>4, <1>5, MinOfNats
<1>7. PICK x, y : x = (IF e = 0 THEN Len(t) ELSE e) /\ y = i + LINE - 2
  OBVIOUS
<1>8. x \in Nat /\ y \in Nat
  BY <1>1, <1>6, <1>7
<1>9. Min({x, y}) \in {x, y}
  BY <1>8, MinOfNats
<1>10. NextLine(t, i) = Min({x, y}) + 1
  BY <1>3, <1>7 DEF NextLine
<1> QED
  BY <1>8, <1>9, <1>10

(* The first line starts at the beginning. *)
LEMMA StartsAtOne ==
  ASSUME NEW S, NEW t \in Seq(S)
  PROVE  LineStarts(t)[0] = 1
<1>1. Len(t) \in Nat
  BY LenProperties
<1>2. PICK step : step = [n \in 1..Len(t) |-> [i \in Nat \ {0} |-> NextLine(t, i)]]
  OBVIOUS
<1>3. PICK V : V = Nat \ {0}
  OBVIOUS
<1>4. \A i \in V : NextLine(t, i) \in V
  BY <1>3, NextLineType
<1>5. step \in StepsOn(Len(t), V) /\ 1 \in V
  BY <1>2, <1>3, <1>4 DEF StepsOn
<1>6. PICK f : Follows(f, Len(t), V, 1, step)
  BY <1>1, <1>5, Recursion
<1>7. \A n \in 0..Len(t) : n # 0 => n \in 1..Len(t) /\ n - 1 \in 0..Len(t)
  BY <1>1
<1>8. \A n \in 0..Len(t) : n # 0 => f[n] = NextLine(t, f[n - 1])
  BY <1>2, <1>3, <1>6, <1>7 DEF Follows
<1>9. f = [n \in 0..Len(t) |-> IF n = 0 THEN 1 ELSE NextLine(t, f[n - 1])]
  BY <1>6, <1>8 DEF Follows
<1>10. PICK g : g = LineStarts(t)
  OBVIOUS
<1>11. g = [n \in 0..Len(t) |-> IF n = 0 THEN 1 ELSE NextLine(t, g[n - 1])]
  BY <1>9, <1>10 DEF LineStarts
<1> QED
  BY <1>1, <1>10, <1>11

(* A text that is not empty has a first line. *)
LEMMA FirstLine ==
  ASSUME NEW S, NEW t \in Seq(S), Len(t) > 0
  PROVE  /\ \E n \in Nat \ {0} : DOMAIN Lines(t) = 1..n
         /\ Lines(t)[1] = SubSeq(t, 1, NextLine(t, 1) - 1)
<1>1. Len(t) \in Nat /\ 0 \in 0..Len(t)
  BY LenProperties
<1>2. PICK st : st = LineStarts(t) /\ st[0] = 1
  BY StartsAtOne
<1>3. PICK T : T = {n \in 0..Len(t) : st[n] <= Len(t)}
  OBVIOUS
<1>4. 0 \in T /\ T \in SUBSET (0..Len(t))
  BY <1>1, <1>2, <1>3
<1>5. IsFiniteSet(T)
  <2>1. 0 \in Int /\ Len(t) \in Int
    BY <1>1
  <2>2. IsFiniteSet(0..Len(t))
    BY <2>1, FS_Interval
  <2> QED
    BY <1>4, <2>2, FS_Subset
<1>6. PICK n : n = Cardinality(T)
  OBVIOUS
<1>7. n \in Nat \ {0}
  BY <1>4, <1>5, <1>6, FS_CardinalityType, FS_EmptySet
<1>8. Lines(t) = [k \in 1..n |-> SubSeq(t, st[k - 1], NextLine(t, st[k - 1]) - 1)]
  BY <1>2, <1>3, <1>6 DEF Lines
<1>9. 1 \in 1..n /\ 1 - 1 = 0
  BY <1>7
<1>10. DOMAIN Lines(t) = 1..n
  BY <1>8
<1>11. Lines(t)[1] = SubSeq(t, st[1 - 1], NextLine(t, st[1 - 1]) - 1)
  BY <1>8, <1>9
<1>12. st[1 - 1] = 1
  BY <1>2, <1>9
<1> QED
  BY <1>7, <1>10, <1>11, <1>12

(* How much of a text of at least 5 characters the first line has: up to its
   first line end, or as much as fits. *)
LEMMA FirstLineEnd ==
  ASSUME NEW S, NEW t \in Seq(S), NEW N \in 5..Len(t), N = Len(t), t[N] = NL,
         \A k \in 1..4 : t[k] # NL
  PROVE  \E m \in 4..N : /\ NextLine(t, 1) - 1 = m /\ m <= LINE - 1
                         /\ \A k \in 1..(m - 1) : t[k] # NL
                         /\ t[m] # NL => m = LINE - 1
<1>1. N \in Nat /\ N >= 5 /\ LINE \in Nat /\ LINE > 4
  BY LenProperties, ConstAssumption
<1>2. PICK I : I = {k \in 1..N : t[k] = NL}
  OBVIOUS
<1>3. I \in SUBSET Nat /\ N \in I
  BY <1>1, <1>2
<1>4. PICK e : e = Min(I)
  OBVIOUS
<1>5. e \in I /\ \A k \in I : e <= k
  BY <1>3, <1>4, MinOfNats
<1>6. e \in 1..N /\ t[e] = NL
  BY <1>2, <1>5
<1>7. e >= 5
  <2>1. e \notin 1..4
    BY <1>6
  <2> QED
    BY <1>1, <1>6, <2>1
<1>8. SelectInSubSeq(t, 1, N, LAMBDA x : x = NL) = e
  BY <1>2, <1>3, <1>4 DEF SelectInSubSeq
<1>9. PICK y \in Nat : y = 1 + LINE - 2 /\ y = LINE - 1 /\ y >= 4
  BY <1>1
<1>10. NextLine(t, 1) = Min({e, y}) + 1
  <2>1. e # 0
    BY <1>7
  <2> QED
    BY <1>8, <1>9, <2>1 DEF NextLine
<1>11. PICK m : m = Min({e, y})
  OBVIOUS
<1>12. m \in {e, y} /\ m <= e /\ m <= y /\ m \in Nat
  <2>1. {e, y} \in SUBSET Nat /\ {e, y} # {}
    BY <1>1, <1>6, <1>9
  <2> QED
    BY <1>11, <2>1, MinOfNats
<1>13. m \in 4..N /\ NextLine(t, 1) - 1 = m /\ m <= LINE - 1
  BY <1>1, <1>6, <1>7, <1>9, <1>10, <1>11, <1>12
<1>14. ASSUME NEW k \in 1..(m - 1) PROVE t[k] # NL
  <2>1. k \in 1..N /\ ~(e <= k)
    BY <1>1, <1>6, <1>12
  <2> QED
    BY <1>2, <1>5, <2>1
<1>15. t[m] # NL => m = LINE - 1
  BY <1>6, <1>9, <1>12
<1> QED
  BY <1>13, <1>14, <1>15

(* What is left of a line when it is cut at its first line end or CR. *)
LEMMA ChompIs ==
  ASSUME NEW S, NEW s \in Seq(S)
  PROVE  \E n \in 0..Len(s) : /\ Chomp(s) = SubSeq(s, 1, n)
                              /\ \A k \in 1..n : s[k] # NL /\ s[k] # CR
                              /\ n < Len(s) => s[n + 1] \in {NL, CR}
<1>1. Len(s) \in Nat
  BY LenProperties
<1>2. PICK I : I = {k \in 1..Len(s) : s[k] \in {NL, CR}}
  OBVIOUS
<1>3. I \in SUBSET Nat
  BY <1>1, <1>2
<1>4. PICK e : e = SelectInSeq(s, LAMBDA x : x \in {NL, CR})
  OBVIOUS
<1>5. e = IF I # {} THEN Min(I) ELSE 0
  BY <1>2, <1>4 DEF SelectInSeq
<1>6. CASE I = {}
  <2>1. Chomp(s) = s
    BY <1>4, <1>5, <1>6 DEF Chomp
  <2>2. SubSeq(s, 1, Len(s)) = s
    BY SubSeqFull
  <2>3. Len(s) \in 0..Len(s) /\ ~(Len(s) < Len(s))
    BY <1>1
  <2>4. \A k \in 1..Len(s) : s[k] # NL /\ s[k] # CR
    BY <1>2, <1>6
  <2> QED
    BY <2>1, <2>2, <2>3, <2>4
<1>7. CASE I # {}
  <2>1. e \in I /\ \A k \in I : e <= k
    BY <1>3, <1>5, <1>7, MinOfNats
  <2>2. e \in 1..Len(s) /\ s[e] \in {NL, CR}
    BY <1>2, <2>1
  <2>3. PICK n \in 0..Len(s) : n = e - 1 /\ n + 1 = e
    BY <1>1, <2>2
  <2>4. Chomp(s) = SubSeq(s, 1, n)
    <3>1. e # 0
      BY <2>2
    <3>2. Chomp(s) = SubSeq(s, 1, e - 1)
      BY <1>4, <3>1 DEF Chomp
    <3> QED
      BY <2>3, <3>2
  <2>5. ASSUME NEW k \in 1..n PROVE s[k] # NL /\ s[k] # CR
    <3>1. k \in 1..Len(s) /\ ~(e <= k)
      BY <1>1, <2>2, <2>3
    <3> QED
      BY <1>2, <2>1, <3>1
  <2> QED
    BY <2>2, <2>3, <2>4, <2>5
<1> QED
  BY <1>6, <1>7

(* The password that is read is what the first line has of it, trimmed. *)
LEMMA FirstValue ==
  ASSUME NEW S, {KEY, BL, "=", NL} \subseteq S, NEW pw \in Seq(S)
  PROVE  \E j \in 0..Len(pw) :
           /\ j <= LINE - 5
           /\ \A i \in 1..j : pw[i] # NL /\ pw[i] # CR
           /\ j < Len(pw) => pw[j + 1] \in {NL, CR} \/ j = LINE - 5
           /\ KeyValue(Lines(ConfText(pw))[1]) = << <<KEY>>, Trim(SubSeq(pw, 1, j)) >>
<1>1. PICK t : t = ConfText(pw)
  OBVIOUS
<1>2. /\ t \in Seq(S) /\ Len(t) = Len(pw) + 5 /\ Len(pw) \in Nat
      /\ t[1] = KEY /\ t[2] = BL /\ t[3] = "=" /\ t[4] = BL /\ t[Len(pw) + 5] = NL
      /\ \A i \in 1..Len(pw) : t[4 + i] = pw[i]
  BY <1>1, ConfTextIs
<1>3. \A k \in 1..4 : t[k] # NL /\ t[k] # CR
  <2>1. KEY # NL /\ KEY # CR /\ BL # NL /\ BL # CR /\ "=" # NL /\ "=" # CR
    BY DEF KEY, BL, NL, CR
  <2>2. \A k \in 1..4 : k = 1 \/ k = 2 \/ k = 3 \/ k = 4
    OBVIOUS
  <2> QED
    BY <1>2, <2>1, <2>2
<1>4. PICK N \in 5..Len(t) : N = Len(t)
  BY <1>2
<1>5. PICK m \in 4..N : /\ NextLine(t, 1) - 1 = m /\ m <= LINE - 1
                        /\ \A k \in 1..(m - 1) : t[k] # NL
                        /\ t[m] # NL => m = LINE - 1
  <2>1. t[N] = NL
    BY <1>2, <1>4
  <2> QED
    BY <1>2, <1>3, <1>4, <2>1, FirstLineEnd
<1>6. PICK s : s = SubSeq(t, 1, m)
  OBVIOUS
<1>7. Lines(t)[1] = s
  <2>1. Len(t) > 0
    BY <1>2
  <2> QED
    BY <1>2, <1>5, <1>6, <2>1, FirstLine
<1>8. /\ s \in Seq(S) /\ Len(s) = m /\ m \in Nat /\ m >= 4
      /\ \A k \in 1..m : s[k] = t[k]
  <2>1. m \in Nat /\ m <= Len(t) /\ m >= 4
    BY <1>2, <1>4
  <2>2. /\ s \in Seq(S) /\ Len(s) = IF 1 <= m THEN m - 1 + 1 ELSE 0
        /\ \A k \in 1..Len(s) : s[k] = t[1 + k - 1]
    BY <1>2, <1>6, <2>1, Part
  <2>3. Len(s) = m
    BY <2>1, <2>2
  <2> QED
    BY <2>1, <2>2, <2>3
<1>9. PICK n \in 0..Len(s) : /\ Chomp(s) = SubSeq(s, 1, n)
                             /\ \A k \in 1..n : s[k] # NL /\ s[k] # CR
                             /\ n < Len(s) => s[n + 1] \in {NL, CR}
  BY <1>8, ChompIs
<1>10. n \in Nat /\ n >= 4 /\ n <= m
  <2>1. n \in Nat /\ n <= m
    BY <1>8, <1>9
  <2>2. ASSUME n < 4 PROVE FALSE
    <3>1. n + 1 \in 1..4 /\ n + 1 \in 1..m /\ n < Len(s)
      BY <1>8, <2>1, <2>2
    <3>2. s[n + 1] = t[n + 1]
      BY <1>8, <3>1
    <3> QED
      BY <1>3, <1>9, <3>1, <3>2
  <2> QED
    BY <2>1, <2>2
<1>11. LINE \in Nat /\ LINE > 4 /\ m <= Len(pw) + 5
  BY <1>2, <1>4, ConstAssumption
<1>12. PICK j \in Nat : j = n - 4 /\ n = 4 + j
  BY <1>10
<1>13. n # m => n + 1 \in 1..m /\ s[n + 1] \in {NL, CR} /\ s[n + 1] = t[n + 1]
  BY <1>8, <1>9, <1>10
<1>14. n = m => m = LINE - 1 /\ t[m] # NL
  BY <1>8, <1>9, <1>10, <1>5
<1>15. j \in 0..Len(pw) /\ j <= LINE - 5
  <2>1. CASE n = m
    <3>1. m # Len(pw) + 5
      BY <1>2, <1>14, <2>1
    <3> QED
      BY <1>2, <1>10, <1>11, <1>12, <1>14, <2>1, <3>1
  <2>2. CASE n # m
    BY <1>2, <1>5, <1>10, <1>11, <1>12, <2>2
  <2> QED
    BY <2>1, <2>2
<1>16. ASSUME NEW i \in 1..j PROVE pw[i] # NL /\ pw[i] # CR
  <2>1. i \in 1..Len(pw) /\ 4 + i \in 1..n /\ 4 + i \in 1..m
    BY <1>2, <1>8, <1>10, <1>12, <1>15
  <2> QED
    BY <1>2, <1>8, <1>9, <2>1
<1>17. ASSUME j < Len(pw) PROVE pw[j + 1] \in {NL, CR} \/ j = LINE - 5
  <2>1. CASE n = m
    BY <1>11, <1>12, <1>14, <2>1
  <2>2. CASE n # m
    <3>1. j + 1 \in 1..Len(pw) /\ 4 + (j + 1) = n + 1
      BY <1>2, <1>12, <1>17
    <3>2. t[n + 1] = pw[j + 1]
      BY <1>2, <3>1
    <3> QED
      BY <1>13, <2>2, <3>2
  <2> QED
    BY <2>1, <2>2
<1>18. KeyValue(s) = << <<KEY>>, Trim(SubSeq(pw, 1, j)) >>
  <2>1. PICK c : c = Chomp(s)
    OBVIOUS
  <2>2. /\ c \in Seq(S) /\ Len(c) = n
        /\ \A k \in 1..n : c[k] = t[k]
    <3>1. n <= Len(s) /\ n >= 1
      BY <1>8, <1>10
    <3>2. /\ c \in Seq(S) /\ Len(c) = IF 1 <= n THEN n - 1 + 1 ELSE 0
          /\ \A k \in 1..Len(c) : c[k] = s[1 + k - 1]
      BY <1>8, <1>9, <1>10, <2>1, <3>1, Part
    <3>3. Len(c) = n
      BY <1>10, <3>1, <3>2
    <3>4. \A k \in 1..n : 1 + k - 1 = k /\ k \in 1..m
      BY <1>8, <1>10
    <3> QED
      BY <1>8, <3>2, <3>3, <3>4
  <2>3. c[1] = KEY /\ c[2] = BL /\ c[3] = "=" /\ c[4] = BL /\ Len(c) >= 4
    BY <1>2, <1>10, <2>2
  <2>4. KeyValue(s) = << <<KEY>>, Trim(SubSeq(c, 5, Len(c))) >>
    BY <2>1, <2>2, <2>3, ValueRead
  <2>5. SubSeq(c, 5, Len(c)) = SubSeq(pw, 1, j)
    <3>1. PICK x, y : x = SubSeq(c, 5, n) /\ y = SubSeq(pw, 1, j)
      OBVIOUS
    <3>2. /\ x \in Seq(S) /\ Len(x) = IF 5 <= n THEN n - 5 + 1 ELSE 0
          /\ \A k \in 1..Len(x) : x[k] = c[5 + k - 1]
      BY <1>10, <2>2, <3>1, Part
    <3>3. /\ y \in Seq(S) /\ Len(y) = IF 1 <= j THEN j - 1 + 1 ELSE 0
          /\ \A k \in 1..Len(y) : y[k] = pw[1 + k - 1]
      BY <1>2, <1>15, <3>1, Part
    <3>4. Len(x) = j
      BY <1>10, <1>12, <3>2
    <3>5. Len(y) = j
      <4>1. \A a \in Nat : (IF 1 <= a THEN a - 1 + 1 ELSE 0) = a
        OBVIOUS
      <4> QED
        BY <1>12, <3>3, <4>1
    <3>6. ASSUME NEW k \in 1..Len(x) PROVE x[k] = y[k]
      <4>1. 5 + k - 1 = 4 + k /\ 1 + k - 1 = k /\ k \in 1..Len(y) /\ 4 + k \in 1..n /\ k \in 1..Len(pw)
        BY <1>2, <1>10, <1>12, <1>15, <3>4, <3>5
      <4> QED
        BY <1>2, <2>2, <3>2, <3>3, <4>1
    <3>7. x = y
      BY <3>2, <3>3, <3>4, <3>5, <3>6, SeqEqual
    <3> QED
      BY <2>2, <3>1, <3>7
  <2> QED
    BY <2>4, <2>5
<1> QED
  BY <1>1, <1>7, <1>15, <1>16, <1>17, <1>18

(* user_check_password compares with the value of the first line. *)
LEMMA CheckIs ==
  ASSUME NEW S, NEW t \in Seq(S), Len(t) > 0, NEW pw, NEW v,
         KeyValue(Lines(t)[1]) = << <<KEY>>, v >>
  PROVE  user_check_password(t, pw) <=> v = pw
<1>1. PICK N \in Nat \ {0} : DOMAIN Lines(t) = 1..N
  BY FirstLine
<1>2. PICK kvs : kvs = [n \in 1..N |-> KeyValue(Lines(t)[n])]
  OBVIOUS
<1>3. Len(kvs) = N /\ kvs[1] = << <<KEY>>, v >>
  BY <1>1, <1>2
<1>4. PICK I : I = {i \in 1..Len(kvs) : kvs[i] # << >> /\ Head(kvs[i]) = <<KEY>>}
  OBVIOUS
<1>5. I \in SUBSET Nat /\ 1 \in I /\ \A i \in I : 1 <= i
  BY <1>1, <1>3, <1>4
<1>6. Min(I) = 1
  BY <1>5, MinIs
<1>7. SelectInSeq(kvs, LAMBDA kv : kv # << >> /\ Head(kv) = <<KEY>>) = 1
  BY <1>4, <1>5, <1>6 DEF SelectInSeq
<1>8. user_check_password(t, pw) <=> 1 # 0 /\ kvs[1][2] = pw
  BY <1>1, <1>2, <1>7 DEF user_check_password
<1>9. kvs[1][2] = v
  BY <1>3
<1> QED
  BY <1>8, <1>9

(* A password of any length works exactly if it has no line end or CR, no
   blank at its ends, and fits the line with its key. *)
THEOREM PasswordWorksHolds == Spec => []PasswordWorks
<1>1. InType => PasswordWorks
  <2> SUFFICES ASSUME InType, kind = "conf"
               PROVE  user_check_password(ConfText(in), in) <=>
                        /\ NL \notin ToSet(in) /\ CR \notin ToSet(in)
                        /\ in # << >> => Head(in) # BL /\ Last(in) # BL
                        /\ Len(in) + 4 < LINE
    BY DEF PasswordWorks
  <2>1. PICK S : in \in Seq(S) /\ {KEY, BL, "=", NL} \subseteq S
    BY DEF InType, Alphabet
  <2>2. PICK j \in 0..Len(in) :
           /\ j <= LINE - 5
           /\ \A i \in 1..j : in[i] # NL /\ in[i] # CR
           /\ j < Len(in) => in[j + 1] \in {NL, CR} \/ j = LINE - 5
           /\ KeyValue(Lines(ConfText(in))[1]) = << <<KEY>>, Trim(SubSeq(in, 1, j)) >>
    BY <2>1, FirstValue
  <2>3. PICK q : q = SubSeq(in, 1, j)
    OBVIOUS
  <2>4. user_check_password(ConfText(in), in) <=> Trim(q) = in
    <3>1. ConfText(in) \in Seq(S) /\ Len(ConfText(in)) > 0
      BY <2>1, ConfTextIs
    <3> QED
      BY <2>2, <2>3, <3>1, CheckIs
  <2>5. Len(in) \in Nat /\ DOMAIN in = 1..Len(in) /\ LINE \in Nat /\ j \in Nat /\ j <= Len(in)
    BY <2>1, <2>2, LenProperties, ConstAssumption
  <2>6. q \in Seq(S) /\ Len(q) = j
    <3>1. q \in Seq(S) /\ Len(q) = IF 1 <= j THEN j - 1 + 1 ELSE 0
      BY <2>1, <2>3, <2>5, Part
    <3>2. \A a \in Nat : (IF 1 <= a THEN a - 1 + 1 ELSE 0) = a
      OBVIOUS
    <3> QED
      BY <2>5, <3>1, <3>2
  <2>7. j = Len(in) => q = in
    BY <2>1, <2>3, SubSeqFull
  <2>8. (NL \notin ToSet(in) /\ CR \notin ToSet(in)) <=> \A i \in 1..Len(in) : in[i] # NL /\ in[i] # CR
    BY <2>5 DEF ToSet
  <2>9. in # << >> => Head(in) = in[1] /\ Last(in) = in[Len(in)]
    BY <2>1 DEF Last
  <2>10. /\ Trim(q) \in Seq(S) /\ Len(Trim(q)) <= Len(q)
         /\ Trim(q) = q <=> (q # << >> => q[1] # BL /\ q[Len(q)] # BL)
    BY <2>6, TrimWhole
  <2>11. ASSUME Trim(q) = in
         PROVE  /\ NL \notin ToSet(in) /\ CR \notin ToSet(in)
                /\ in # << >> => Head(in) # BL /\ Last(in) # BL
                /\ Len(in) + 4 < LINE
    <3>1. j = Len(in)
      <4>1. Len(in) <= j
        BY <2>6, <2>10, <2>11
      <4>2. \A a, b \in Nat : a <= b /\ b <= a => a = b
        OBVIOUS
      <4> QED
        BY <2>5, <4>1, <4>2
    <3>2. Len(in) + 4 < LINE
      BY <2>2, <2>5, <3>1
    <3> QED
      BY <2>2, <2>7, <2>8, <2>9, <2>10, <2>11, <3>1, <3>2
  <2>12. ASSUME NL \notin ToSet(in), CR \notin ToSet(in),
                in # << >> => Head(in) # BL /\ Last(in) # BL,
                Len(in) + 4 < LINE
         PROVE  Trim(q) = in
    <3>1. ASSUME j < Len(in) PROVE FALSE
      <4>1. j + 1 \in 1..Len(in) /\ j # LINE - 5
        BY <2>5, <2>12, <3>1
      <4> QED
        BY <2>2, <2>8, <2>12, <3>1, <4>1
    <3>2. j = Len(in)
      <4>1. \A a, b \in Nat : a <= b /\ ~(a < b) => a = b
        OBVIOUS
      <4> QED
        BY <2>5, <3>1, <4>1
    <3> QED
      BY <2>7, <2>9, <2>10, <2>12, <3>2
  <2> QED
    BY <2>4, <2>11, <2>12
<1> QED
  BY <1>1, InTypeAlways, PTL
-----------------------------------------------------------------------------
(* SASL PLAIN *)

Bytes == 0..255
(* Byte i, and 0 behind the last one. *)
ByteAt(b, i) == IF i <= Len(b) THEN b[i] ELSE 0

(* It is a byte. *)
LEMMA ByteAtType == ASSUME NEW b \in Seq(Bytes), NEW i \in Nat \ {0} PROVE ByteAt(b, i) \in Bytes
<1>1. Len(b) \in Nat /\ \A k \in 1..Len(b) : b[k] \in Bytes
  BY LenProperties, ElementOfSeq
<1>2. CASE i <= Len(b)
  BY <1>1, <1>2 DEF ByteAt
<1>3. CASE ~(i <= Len(b))
  BY <1>3 DEF ByteAt, Bytes
<1> QED
  BY <1>2, <1>3

(* The bit of weight w in x. *)
BitOf(x, w) == (x \div w) % 2

(* A bit is one of a byte. *)
LEMMA BitIs ==
  ASSUME NEW b \in Seq(Bytes), NEW i \in Nat, NEW c \in 0..7, NEW n \in Nat, n = 8*i + c,
         NEW x, x = ByteAt(b, i + 1), NEW w, w = Weight[c + 1]
  PROVE  Bit(b, n) = BitOf(x, w)
<1>1. n \div 8 = i /\ n % 8 = c
  OBVIOUS
<1>2. Len(b) \in Nat
  BY LenProperties
<1>3. CASE i >= Len(b)
  <2>1. Bit(b, n) = 0
    BY <1>1, <1>3 DEF Bit
  <2>2. ByteAt(b, i + 1) = 0
    BY <1>2, <1>3 DEF ByteAt
  <2>3. (0 \div Weight[c + 1]) % 2 = 0
    <3>1. Weight[c + 1] \in Nat \ {0}
      BY DEF Weight
    <3>2. \A v \in Nat \ {0} : (0 \div v) % 2 = 0
      OBVIOUS
    <3> QED
      BY <3>1, <3>2
  <2> QED
    BY <2>1, <2>2, <2>3 DEF BitOf
<1>4. CASE ~(i >= Len(b))
  <2>1. Bit(b, n) = (b[i + 1] \div Weight[c + 1]) % 2
    BY <1>1, <1>4 DEF Bit
  <2>2. ByteAt(b, i + 1) = b[i + 1]
    BY <1>2, <1>4 DEF ByteAt
  <2> QED
    BY <2>1, <2>2 DEF BitOf
<1> QED
  BY <1>3, <1>4

(* The eight bits of byte i + 1. *)
LEMMA BitsOfByte ==
  ASSUME NEW b \in Seq(Bytes), NEW i \in Nat, NEW n \in Nat, n = 8*i,
         NEW x, x = ByteAt(b, i + 1)
  PROVE  /\ Bit(b, n) = (x \div 128) % 2 /\ Bit(b, n + 1) = (x \div 64) % 2
         /\ Bit(b, n + 2) = (x \div 32) % 2 /\ Bit(b, n + 3) = (x \div 16) % 2
         /\ Bit(b, n + 4) = (x \div 8) % 2 /\ Bit(b, n + 5) = (x \div 4) % 2
         /\ Bit(b, n + 6) = (x \div 2) % 2 /\ Bit(b, n + 7) = (x \div 1) % 2
<1>1. /\ Weight[0 + 1] = 128 /\ Weight[1 + 1] = 64 /\ Weight[2 + 1] = 32 /\ Weight[3 + 1] = 16
      /\ Weight[4 + 1] = 8 /\ Weight[5 + 1] = 4 /\ Weight[6 + 1] = 2 /\ Weight[7 + 1] = 1
  BY DEF Weight
<1>2. Bit(b, n) = BitOf(x, 128)
  <2>1. PICK m \in Nat, c \in 0..7, w \in Nat : m = n /\ c = 0 /\ w = 128
    OBVIOUS
  <2>2. m = 8*i + c
    BY <2>1
  <2>3. w = Weight[c + 1]
    BY <1>1, <2>1
  <2>4. Bit(b, m) = BitOf(x, w)
    BY <2>1, <2>2, <2>3, BitIs
  <2> QED
    BY <2>1, <2>4
<1>3. Bit(b, n + 1) = BitOf(x, 64)
  <2>1. PICK m \in Nat, c \in 0..7, w \in Nat : m = n + 1 /\ c = 1 /\ w = 64
    OBVIOUS
  <2>2. m = 8*i + c
    BY <2>1
  <2>3. w = Weight[c + 1]
    BY <1>1, <2>1
  <2>4. Bit(b, m) = BitOf(x, w)
    BY <2>1, <2>2, <2>3, BitIs
  <2> QED
    BY <2>1, <2>4
<1>4. Bit(b, n + 2) = BitOf(x, 32)
  <2>1. PICK m \in Nat, c \in 0..7, w \in Nat : m = n + 2 /\ c = 2 /\ w = 32
    OBVIOUS
  <2>2. m = 8*i + c
    BY <2>1
  <2>3. w = Weight[c + 1]
    BY <1>1, <2>1
  <2>4. Bit(b, m) = BitOf(x, w)
    BY <2>1, <2>2, <2>3, BitIs
  <2> QED
    BY <2>1, <2>4
<1>5. Bit(b, n + 3) = BitOf(x, 16)
  <2>1. PICK m \in Nat, c \in 0..7, w \in Nat : m = n + 3 /\ c = 3 /\ w = 16
    OBVIOUS
  <2>2. m = 8*i + c
    BY <2>1
  <2>3. w = Weight[c + 1]
    BY <1>1, <2>1
  <2>4. Bit(b, m) = BitOf(x, w)
    BY <2>1, <2>2, <2>3, BitIs
  <2> QED
    BY <2>1, <2>4
<1>6. Bit(b, n + 4) = BitOf(x, 8)
  <2>1. PICK m \in Nat, c \in 0..7, w \in Nat : m = n + 4 /\ c = 4 /\ w = 8
    OBVIOUS
  <2>2. m = 8*i + c
    BY <2>1
  <2>3. w = Weight[c + 1]
    BY <1>1, <2>1
  <2>4. Bit(b, m) = BitOf(x, w)
    BY <2>1, <2>2, <2>3, BitIs
  <2> QED
    BY <2>1, <2>4
<1>7. Bit(b, n + 5) = BitOf(x, 4)
  <2>1. PICK m \in Nat, c \in 0..7, w \in Nat : m = n + 5 /\ c = 5 /\ w = 4
    OBVIOUS
  <2>2. m = 8*i + c
    BY <2>1
  <2>3. w = Weight[c + 1]
    BY <1>1, <2>1
  <2>4. Bit(b, m) = BitOf(x, w)
    BY <2>1, <2>2, <2>3, BitIs
  <2> QED
    BY <2>1, <2>4
<1>8. Bit(b, n + 6) = BitOf(x, 2)
  <2>1. PICK m \in Nat, c \in 0..7, w \in Nat : m = n + 6 /\ c = 6 /\ w = 2
    OBVIOUS
  <2>2. m = 8*i + c
    BY <2>1
  <2>3. w = Weight[c + 1]
    BY <1>1, <2>1
  <2>4. Bit(b, m) = BitOf(x, w)
    BY <2>1, <2>2, <2>3, BitIs
  <2> QED
    BY <2>1, <2>4
<1>9. Bit(b, n + 7) = BitOf(x, 1)
  <2>1. PICK m \in Nat, c \in 0..7, w \in Nat : m = n + 7 /\ c = 7 /\ w = 1
    OBVIOUS
  <2>2. m = 8*i + c
    BY <2>1
  <2>3. w = Weight[c + 1]
    BY <1>1, <2>1
  <2>4. Bit(b, m) = BitOf(x, w)
    BY <2>1, <2>2, <2>3, BitIs
  <2> QED
    BY <2>1, <2>4
<1> QED
  BY <1>2, <1>3, <1>4, <1>5, <1>6, <1>7, <1>8, <1>9 DEF BitOf

(* The first bits of a byte. *)
LEMMA FirstBits ==
  ASSUME NEW w \in Bytes
  PROVE  /\ w \div 64 = ((w \div 128) % 2)*2 + ((w \div 64) % 2)
         /\ w \div 16 = ((w \div 128) % 2)*8 + ((w \div 64) % 2)*4
                      + ((w \div 32) % 2)*2 + ((w \div 16) % 2)
         /\ w \div 4 = ((w \div 128) % 2)*32 + ((w \div 64) % 2)*16 + ((w \div 32) % 2)*8
                     + ((w \div 16) % 2)*4 + ((w \div 8) % 2)*2 + ((w \div 4) % 2)
<1>1. w \div 64 = ((w \div 128) % 2)*2 + ((w \div 64) % 2)
  BY DEF Bytes
<1>2. w \div 16 = ((w \div 128) % 2)*8 + ((w \div 64) % 2)*4 + ((w \div 32) % 2)*2 + ((w \div 16) % 2)
  BY DEF Bytes
<1>3. w \div 4 = ((w \div 128) % 2)*32 + ((w \div 64) % 2)*16 + ((w \div 32) % 2)*8
                 + ((w \div 16) % 2)*4 + ((w \div 8) % 2)*2 + ((w \div 4) % 2)
  BY DEF Bytes
<1> QED
  BY <1>1, <1>2, <1>3

(* The last bits of a byte. *)
LEMMA LastBits ==
  ASSUME NEW w \in Bytes
  PROVE  /\ w % 4 = ((w \div 2) % 2)*2 + ((w \div 1) % 2)
         /\ w % 16 = ((w \div 8) % 2)*8 + ((w \div 4) % 2)*4 + ((w \div 2) % 2)*2 + ((w \div 1) % 2)
         /\ w % 64 = ((w \div 32) % 2)*32 + ((w \div 16) % 2)*16 + ((w \div 8) % 2)*8
                   + ((w \div 4) % 2)*4 + ((w \div 2) % 2)*2 + ((w \div 1) % 2)
<1>1. w % 4 = ((w \div 2) % 2)*2 + ((w \div 1) % 2)
  BY DEF Bytes
<1>2. w % 16 = ((w \div 8) % 2)*8 + ((w \div 4) % 2)*4 + ((w \div 2) % 2)*2 + ((w \div 1) % 2)
  BY DEF Bytes
<1>3. w % 64 = ((w \div 32) % 2)*32 + ((w \div 16) % 2)*16 + ((w \div 8) % 2)*8
                   + ((w \div 4) % 2)*4 + ((w \div 2) % 2)*2 + ((w \div 1) % 2)
  BY DEF Bytes
<1> QED
  BY <1>1, <1>2, <1>3

(* The last bits of one byte and the first of the next. *)
LEMMA Joined ==
  ASSUME NEW v \in Bytes, NEW w \in Bytes
  PROVE  /\ (v % 4)*16 + (w \div 16) = ((v \div 2) % 2)*32 + ((v \div 1) % 2)*16
           + ((w \div 128) % 2)*8 + ((w \div 64) % 2)*4 + ((w \div 32) % 2)*2 + ((w \div 16) % 2)
         /\ (v % 16)*4 + (w \div 64) = ((v \div 8) % 2)*32 + ((v \div 4) % 2)*16
           + ((v \div 2) % 2)*8 + ((v \div 1) % 2)*4 + ((w \div 128) % 2)*2 + ((w \div 64) % 2)
<1>1. /\ v % 4 = ((v \div 2) % 2)*2 + ((v \div 1) % 2)
      /\ v % 16 = ((v \div 8) % 2)*8 + ((v \div 4) % 2)*4 + ((v \div 2) % 2)*2 + ((v \div 1) % 2)
  BY LastBits
<1>2. /\ w \div 64 = ((w \div 128) % 2)*2 + ((w \div 64) % 2)
      /\ w \div 16 = ((w \div 128) % 2)*8 + ((w \div 64) % 2)*4
                   + ((w \div 32) % 2)*2 + ((w \div 16) % 2)
  BY FirstBits
<1>3. PICK a, b, c, d \in Nat : /\ a = (v \div 8) % 2 /\ b = (v \div 4) % 2
                               /\ c = (v \div 2) % 2 /\ d = (v \div 1) % 2
  BY DEF Bytes
<1>4. PICK e, f, g, h \in Nat : /\ e = (w \div 128) % 2 /\ f = (w \div 64) % 2
                               /\ g = (w \div 32) % 2 /\ h = (w \div 16) % 2
  BY DEF Bytes
<1>5. (c*2 + d)*16 + (e*8 + f*4 + g*2 + h) = c*32 + d*16 + e*8 + f*4 + g*2 + h
  OBVIOUS
<1>6. (a*8 + b*4 + c*2 + d)*4 + (e*2 + f) = a*32 + b*16 + c*8 + d*4 + e*2 + f
  OBVIOUS
<1> QED
  BY <1>1, <1>2, <1>3, <1>4, <1>5, <1>6

(* Three bytes as four digits. *)
LEMMA DigitsOfBytes ==
  ASSUME NEW b \in Seq(Bytes), NEW j \in Nat,
         NEW x \in Bytes, NEW y \in Bytes, NEW z \in Bytes,
         x = ByteAt(b, 3*j + 1), y = ByteAt(b, 3*j + 2), z = ByteAt(b, 3*j + 3)
  PROVE  /\ Digit(b, 4*j) = x \div 4
         /\ Digit(b, 4*j + 1) = (x % 4)*16 + (y \div 16)
         /\ Digit(b, 4*j + 2) = (y % 16)*4 + (z \div 64)
         /\ Digit(b, 4*j + 3) = z % 64
<1>1. PICK n \in Nat : n = 24*j
  OBVIOUS
<1>2. /\ Bit(b, n) = (x \div 128) % 2 /\ Bit(b, n + 1) = (x \div 64) % 2
      /\ Bit(b, n + 2) = (x \div 32) % 2 /\ Bit(b, n + 3) = (x \div 16) % 2
      /\ Bit(b, n + 4) = (x \div 8) % 2 /\ Bit(b, n + 5) = (x \div 4) % 2
      /\ Bit(b, n + 6) = (x \div 2) % 2 /\ Bit(b, n + 7) = (x \div 1) % 2
  <2>1. PICK i \in Nat : i = 3*j /\ n = 8*i /\ i + 1 = 3*j + 1
    BY <1>1
  <2> QED
    BY <2>1, BitsOfByte
<1>3. /\ Bit(b, n + 8) = (y \div 128) % 2 /\ Bit(b, n + 9) = (y \div 64) % 2
      /\ Bit(b, n + 10) = (y \div 32) % 2 /\ Bit(b, n + 11) = (y \div 16) % 2
      /\ Bit(b, n + 12) = (y \div 8) % 2 /\ Bit(b, n + 13) = (y \div 4) % 2
      /\ Bit(b, n + 14) = (y \div 2) % 2 /\ Bit(b, n + 15) = (y \div 1) % 2
  <2>1. PICK i \in Nat : i = 3*j + 1 /\ i + 1 = 3*j + 2
    OBVIOUS
  <2>2. PICK m \in Nat : m = n + 8 /\ m = 8*i
    BY <1>1, <2>1
  <2>3. y = ByteAt(b, i + 1)
    BY <2>1
  <2>4. /\ Bit(b, m) = (y \div 128) % 2 /\ Bit(b, m + 1) = (y \div 64) % 2
        /\ Bit(b, m + 2) = (y \div 32) % 2 /\ Bit(b, m + 3) = (y \div 16) % 2
        /\ Bit(b, m + 4) = (y \div 8) % 2 /\ Bit(b, m + 5) = (y \div 4) % 2
        /\ Bit(b, m + 6) = (y \div 2) % 2 /\ Bit(b, m + 7) = (y \div 1) % 2
    <3>1. m = 8*i
      BY <2>2
    <3> QED
      BY <2>3, <3>1, BitsOfByte
  <2>5. /\ m + 1 = n + 9 /\ m + 2 = n + 10 /\ m + 3 = n + 11 /\ m + 4 = n + 12
        /\ m + 5 = n + 13 /\ m + 6 = n + 14 /\ m + 7 = n + 15
    BY <2>2
  <2> QED
    BY <2>2, <2>4, <2>5
<1>4. /\ Bit(b, n + 16) = (z \div 128) % 2 /\ Bit(b, n + 17) = (z \div 64) % 2
      /\ Bit(b, n + 18) = (z \div 32) % 2 /\ Bit(b, n + 19) = (z \div 16) % 2
      /\ Bit(b, n + 20) = (z \div 8) % 2 /\ Bit(b, n + 21) = (z \div 4) % 2
      /\ Bit(b, n + 22) = (z \div 2) % 2 /\ Bit(b, n + 23) = (z \div 1) % 2
  <2>1. PICK i \in Nat : i = 3*j + 2 /\ i + 1 = 3*j + 3
    OBVIOUS
  <2>2. PICK m \in Nat : m = n + 16 /\ m = 8*i
    BY <1>1, <2>1
  <2>3. z = ByteAt(b, i + 1)
    BY <2>1
  <2>4. /\ Bit(b, m) = (z \div 128) % 2 /\ Bit(b, m + 1) = (z \div 64) % 2
        /\ Bit(b, m + 2) = (z \div 32) % 2 /\ Bit(b, m + 3) = (z \div 16) % 2
        /\ Bit(b, m + 4) = (z \div 8) % 2 /\ Bit(b, m + 5) = (z \div 4) % 2
        /\ Bit(b, m + 6) = (z \div 2) % 2 /\ Bit(b, m + 7) = (z \div 1) % 2
    <3>1. m = 8*i
      BY <2>2
    <3> QED
      BY <2>3, <3>1, BitsOfByte
  <2>5. /\ m + 1 = n + 17 /\ m + 2 = n + 18 /\ m + 3 = n + 19 /\ m + 4 = n + 20
        /\ m + 5 = n + 21 /\ m + 6 = n + 22 /\ m + 7 = n + 23
    BY <2>2
  <2> QED
    BY <2>2, <2>4, <2>5
<1>5. x \div 4 = ((x \div 128) % 2)*32 + ((x \div 64) % 2)*16
        + ((x \div 32) % 2)*8 + ((x \div 16) % 2)*4 + ((x \div 8) % 2)*2 + ((x \div 4) % 2)
  BY FirstBits
<1>6. Digit(b, 4*j) = x \div 4
  <2>1. 6*(4*j) = n
    BY <1>1
  <2>2. Digit(b, 4*j) = Bit(b, n)*32 + Bit(b, n + 1)*16 + Bit(b, n + 2)*8
          + Bit(b, n + 3)*4 + Bit(b, n + 4)*2 + Bit(b, n + 5)
    BY <2>1 DEF Digit
  <2> QED
    BY <1>2, <1>5, <2>2
<1>7. Digit(b, 4*j + 1) = (x % 4)*16 + (y \div 16)
  <2>1. /\ 6*(4*j + 1) = n + 6 /\ 6*(4*j + 1) + 1 = n + 7 /\ 6*(4*j + 1) + 2 = n + 8
        /\ 6*(4*j + 1) + 3 = n + 9 /\ 6*(4*j + 1) + 4 = n + 10 /\ 6*(4*j + 1) + 5 = n + 11
    BY <1>1
  <2>2. Digit(b, 4*j + 1) = Bit(b, n + 6)*32 + Bit(b, n + 7)*16 + Bit(b, n + 8)*8
          + Bit(b, n + 9)*4 + Bit(b, n + 10)*2 + Bit(b, n + 11)
    BY <2>1 DEF Digit
  <2>3. (x % 4)*16 + (y \div 16) = ((x \div 2) % 2)*32 + ((x \div 1) % 2)*16
          + ((y \div 128) % 2)*8 + ((y \div 64) % 2)*4 + ((y \div 32) % 2)*2 + ((y \div 16) % 2)
    BY Joined
  <2> QED
    BY <1>2, <1>3, <2>2, <2>3
<1>8. Digit(b, 4*j + 2) = (y % 16)*4 + (z \div 64)
  <2>1. /\ 6*(4*j + 2) = n + 12 /\ 6*(4*j + 2) + 1 = n + 13 /\ 6*(4*j + 2) + 2 = n + 14
        /\ 6*(4*j + 2) + 3 = n + 15 /\ 6*(4*j + 2) + 4 = n + 16 /\ 6*(4*j + 2) + 5 = n + 17
    BY <1>1
  <2>2. Digit(b, 4*j + 2) = Bit(b, n + 12)*32 + Bit(b, n + 13)*16 + Bit(b, n + 14)*8
          + Bit(b, n + 15)*4 + Bit(b, n + 16)*2 + Bit(b, n + 17)
    BY <2>1 DEF Digit
  <2>3. (y % 16)*4 + (z \div 64) = ((y \div 8) % 2)*32 + ((y \div 4) % 2)*16
          + ((y \div 2) % 2)*8 + ((y \div 1) % 2)*4 + ((z \div 128) % 2)*2 + ((z \div 64) % 2)
    BY Joined
  <2> QED
    BY <1>3, <1>4, <2>2, <2>3
<1>9. Digit(b, 4*j + 3) = z % 64
  <2>1. /\ 6*(4*j + 3) = n + 18 /\ 6*(4*j + 3) + 1 = n + 19 /\ 6*(4*j + 3) + 2 = n + 20
        /\ 6*(4*j + 3) + 3 = n + 21 /\ 6*(4*j + 3) + 4 = n + 22 /\ 6*(4*j + 3) + 5 = n + 23
    BY <1>1
  <2>2. Digit(b, 4*j + 3) = Bit(b, n + 18)*32 + Bit(b, n + 19)*16 + Bit(b, n + 20)*8
          + Bit(b, n + 21)*4 + Bit(b, n + 22)*2 + Bit(b, n + 23)
    BY <2>1 DEF Digit
  <2>3. z % 64 = ((z \div 32) % 2)*32 + ((z \div 16) % 2)*16
          + ((z \div 8) % 2)*8 + ((z \div 4) % 2)*4 + ((z \div 2) % 2)*2 + ((z \div 1) % 2)
    BY LastBits
  <2> QED
    BY <1>4, <2>2, <2>3
<1> QED
  BY <1>6, <1>7, <1>8, <1>9

(* A digit is one of 64. *)
LEMMA DigitType == ASSUME NEW b \in Seq(Bytes), NEW k \in Nat PROVE Digit(b, k) \in 0..63
<1>1. PICK j \in Nat : k = 4*j \/ k = 4*j + 1 \/ k = 4*j + 2 \/ k = 4*j + 3
  <2>1. k \div 4 \in Nat /\ LET i == k \div 4 IN
          k = 4*i \/ k = 4*i + 1 \/ k = 4*i + 2 \/ k = 4*i + 3
    OBVIOUS
  <2> QED
    BY <2>1
<1>2. PICK x \in Bytes, y \in Bytes, z \in Bytes :
        x = ByteAt(b, 3*j + 1) /\ y = ByteAt(b, 3*j + 2) /\ z = ByteAt(b, 3*j + 3)
  <2>1. 3*j + 1 \in Nat \ {0} /\ 3*j + 2 \in Nat \ {0} /\ 3*j + 3 \in Nat \ {0}
    OBVIOUS
  <2> QED
    BY <2>1, ByteAtType
<1>3. /\ Digit(b, 4*j) = x \div 4
      /\ Digit(b, 4*j + 1) = (x % 4)*16 + (y \div 16)
      /\ Digit(b, 4*j + 2) = (y % 16)*4 + (z \div 64)
      /\ Digit(b, 4*j + 3) = z % 64
  BY <1>2, DigitsOfBytes
<1>4. /\ x \div 4 \in 0..63 /\ (x % 4)*16 + (y \div 16) \in 0..63
      /\ (y % 16)*4 + (z \div 64) \in 0..63 /\ z % 64 \in 0..63
  BY DEF Bytes
<1> QED
  BY <1>1, <1>3, <1>4

(* What is encoded has no white space, and groups of four. *)
LEMMA EncodeType ==
  ASSUME NEW b \in Seq(Bytes)
  PROVE  /\ Encode(b) \in Seq(0..64)
         /\ Len(Encode(b)) = 4 * ((Len(b) + 2) \div 3)
         /\ (Len(b) + 2) \div 3 \in Nat
         /\ \A k \in 1..Len(Encode(b)) :
              Encode(b)[k] = IF 6*(k - 1) >= 8*Len(b) THEN PAD ELSE Digit(b, k - 1)
<1>1. Len(b) \in Nat
  BY LenProperties
<1>2. PICK n \in Nat : n = (Len(b) + 2) \div 3
  BY <1>1
<1>3. PICK N \in Nat : N = 4 * ((Len(b) + 2) \div 3)
  BY <1>1
<1>4. Encode(b) = [k \in 1..N |-> IF 6*(k - 1) >= 8*Len(b) THEN PAD ELSE Digit(b, k - 1)]
  BY <1>3 DEF Encode
<1>5. \A k \in 1..N : (IF 6*(k - 1) >= 8*Len(b) THEN PAD ELSE Digit(b, k - 1)) \in 0..64
  <2> SUFFICES ASSUME NEW k \in 1..N
               PROVE  (IF 6*(k - 1) >= 8*Len(b) THEN PAD ELSE Digit(b, k - 1)) \in 0..64
    OBVIOUS
  <2>1. k - 1 \in Nat
    OBVIOUS
  <2>2. Digit(b, k - 1) \in 0..63
    BY <2>1, DigitType
  <2>3. Digit(b, k - 1) \in 0..64 /\ PAD \in 0..64
    BY <2>2 DEF PAD
  <2> QED
    BY <2>3
<1>6. Encode(b) \in Seq(0..64) /\ Len(Encode(b)) = N
  BY <1>4, <1>5
<1> QED
  BY <1>2, <1>3, <1>4, <1>6

(* The four digits of group j + 1. *)
LEMMA GroupDigits ==
  ASSUME NEW b \in Seq(Bytes), NEW j \in Nat, 3*j < Len(b),
         NEW x \in Bytes, NEW y \in Bytes, NEW z \in Bytes,
         x = ByteAt(b, 3*j + 1), y = ByteAt(b, 3*j + 2), z = ByteAt(b, 3*j + 3),
         NEW q, q = SubSeq(Encode(b), 4*(j + 1) - 3, 4*(j + 1))
  PROVE  /\ q[1] = x \div 4
         /\ q[2] = (x % 4)*16 + (y \div 16)
         /\ q[3] = IF Len(b) <= 3*j + 1 THEN PAD ELSE (y % 16)*4 + (z \div 64)
         /\ q[4] = IF Len(b) <= 3*j + 2 THEN PAD ELSE z % 64
<1>1. PICK L \in Nat : L = Len(b)
  BY LenProperties
<1>2. PICK e : e = Encode(b)
  OBVIOUS
<1>3. /\ e \in Seq(0..64) /\ Len(e) = 4 * ((L + 2) \div 3)
      /\ \A k \in 1..Len(e) : e[k] = IF 6*(k - 1) >= 8*L THEN PAD ELSE Digit(b, k - 1)
  BY <1>1, <1>2, EncodeType
<1>4. PICK m \in Nat \ {0}, n \in Nat : /\ m = 4*(j + 1) - 3 /\ n = 4*(j + 1)
                                        /\ m = 4*j + 1 /\ n = 4*j + 4 /\ m <= n /\ n - m + 1 = 4
  OBVIOUS
<1>5. n <= Len(e)
  BY <1>1, <1>3, <1>4
<1>6. \A k \in 1..4 : q[k] = e[m + k - 1]
  <2>1. Len(q) = IF m <= n THEN n - m + 1 ELSE 0
    BY <1>2, <1>3, <1>4, <1>5, Part
  <2>2. \A k \in 1..Len(q) : q[k] = e[m + k - 1]
    BY <1>2, <1>3, <1>4, <1>5, Part
  <2>3. Len(q) = 4
    BY <1>4, <2>1
  <2> QED
    BY <2>2, <2>3
<1>7. Len(e) \in Nat
  BY <1>3, LenProperties
<1>8. ASSUME NEW c \in 0..3
      PROVE  q[c + 1] = IF 6*(4*j + c) >= 8*L THEN PAD ELSE Digit(b, 4*j + c)
  <2>1. c + 1 \in 1..4 /\ m + (c + 1) - 1 = 4*j + c + 1
    BY <1>4
  <2>2. 4*j + c + 1 \in 1..Len(e) /\ (4*j + c + 1) - 1 = 4*j + c
    BY <1>4, <1>5, <1>7
  <2>3. q[c + 1] = e[4*j + c + 1]
    BY <1>6, <2>1
  <2>4. e[4*j + c + 1] = IF 6*((4*j + c + 1) - 1) >= 8*L THEN PAD ELSE Digit(b, (4*j + c + 1) - 1)
    BY <1>3, <2>2
  <2> QED
    BY <2>2, <2>3, <2>4
<1>9. /\ Digit(b, 4*j) = x \div 4
      /\ Digit(b, 4*j + 1) = (x % 4)*16 + (y \div 16)
      /\ Digit(b, 4*j + 2) = (y % 16)*4 + (z \div 64)
      /\ Digit(b, 4*j + 3) = z % 64
  BY DigitsOfBytes
<1>10. /\ 4*j + 0 = 4*j /\ ~(6*(4*j + 0) >= 8*L) /\ ~(6*(4*j + 1) >= 8*L)
       /\ 6*(4*j + 2) >= 8*L <=> L <= 3*j + 1
       /\ 6*(4*j + 3) >= 8*L <=> L <= 3*j + 2
       /\ 0 \in 0..3 /\ 1 \in 0..3 /\ 2 \in 0..3 /\ 3 \in 0..3
       /\ 0 + 1 = 1 /\ 1 + 1 = 2 /\ 2 + 1 = 3 /\ 3 + 1 = 4
  BY <1>1
<1>11. q[1] = x \div 4
  <2>1. q[0 + 1] = Digit(b, 4*j + 0)
    BY <1>8, <1>10
  <2> QED
    BY <1>9, <1>10, <2>1
<1>12. q[2] = (x % 4)*16 + (y \div 16)
  <2>1. q[1 + 1] = Digit(b, 4*j + 1)
    BY <1>8, <1>10
  <2> QED
    BY <1>9, <1>10, <2>1
<1>13. q[3] = IF Len(b) <= 3*j + 1 THEN PAD ELSE (y % 16)*4 + (z \div 64)
  <2>1. q[2 + 1] = IF L <= 3*j + 1 THEN PAD ELSE Digit(b, 4*j + 2)
    BY <1>8, <1>10
  <2> QED
    BY <1>1, <1>9, <1>10, <2>1
<1>14. q[4] = IF Len(b) <= 3*j + 2 THEN PAD ELSE z % 64
  <2>1. q[3 + 1] = IF L <= 3*j + 2 THEN PAD ELSE Digit(b, 4*j + 3)
    BY <1>8, <1>10
  <2> QED
    BY <1>1, <1>9, <1>10, <2>1
<1> QED
  BY <1>11, <1>12, <1>13, <1>14

(* Three bytes as four numbers of 6 bits, and as one number. *)
Sextets(x, y, z, a, c, d, f) ==
  a = x \div 4 /\ c = (x % 4)*16 + (y \div 16) /\ d = (y % 16)*4 + (z \div 64) /\ f = z % 64
Whole(a, c, d, f, t) == t = a * 2^18 + c * 2^12 + d * 2^6 + f
Parts(x, y, z, t) == t \div 2^16 = x /\ (t \div 2^8) % 2^8 = y /\ t % 2^8 = z

(* The number has both as its parts. *)
LEMMA Triple ==
  ASSUME NEW x \in Bytes, NEW y \in Bytes, NEW z \in Bytes
  PROVE  \E a, c, d, f \in 0..63, t \in Nat :
           Sextets(x, y, z, a, c, d, f) /\ Whole(a, c, d, f, t) /\ Parts(x, y, z, t)
<1>1. /\ x \div 4 \in 0..63 /\ (x % 4)*16 + (y \div 16) \in 0..63
      /\ (y % 16)*4 + (z \div 64) \in 0..63 /\ z % 64 \in 0..63
  BY DEF Bytes
<1>2. PICK a, c, d, f \in 0..63 : /\ a = x \div 4 /\ c = (x % 4)*16 + (y \div 16)
                                 /\ d = (y % 16)*4 + (z \div 64) /\ f = z % 64
  BY <1>1
<1>3. PICK t \in Nat : t = a * 2^18 + c * 2^12 + d * 2^6 + f
  OBVIOUS
<1>4. t = x * 65536 + y * 256 + z
  BY <1>2, <1>3 DEF Bytes
<1>5. t \div 65536 = x
  BY <1>4 DEF Bytes
<1>6. (t \div 256) % 256 = y
  <2>1. t \div 256 = x * 256 + y
    BY <1>4 DEF Bytes
  <2>2. (x * 256 + y) % 256 = y
    BY DEF Bytes
  <2> QED
    BY <2>1, <2>2
<1>7. t % 256 = z
  BY <1>4 DEF Bytes
<1>8. Parts(x, y, z, t)
  <2>1. 2^16 = 65536 /\ 2^8 = 256
    OBVIOUS
  <2> QED
    BY <1>5, <1>6, <1>7, <2>1 DEF Parts
<1>9. Sextets(x, y, z, a, c, d, f) /\ Whole(a, c, d, f, t)
  BY <1>2, <1>3 DEF Sextets, Whole
<1> QED
  BY <1>8, <1>9

(* The bytes of group j + 1: three, or what is left. *)
GroupIs(g, b, j) ==
  /\ g \in Seq(Bytes)
  /\ Len(b) <= 3*j + 1 => Len(g) = 1
  /\ Len(b) = 3*j + 2 => Len(g) = 2
  /\ Len(b) >= 3*j + 3 => Len(g) = 3
  /\ g[1] = ByteAt(b, 3*j + 1)
  /\ Len(b) >= 3*j + 2 => g[2] = ByteAt(b, 3*j + 2)
  /\ Len(b) >= 3*j + 3 => g[3] = ByteAt(b, 3*j + 3)

(* They are what the digits of the group are decoded to. *)
LEMMA GroupBytes ==
  ASSUME NEW b \in Seq(Bytes), NEW j \in Nat, 3*j < Len(b),
         NEW q, q = SubSeq(Encode(b), 4*(j + 1) - 3, 4*(j + 1))
  PROVE  GroupIs(Group(q), b, j)
<1>0. PICK x \in Bytes, y \in Bytes, z \in Bytes :
        x = ByteAt(b, 3*j + 1) /\ y = ByteAt(b, 3*j + 2) /\ z = ByteAt(b, 3*j + 3)
  <2>1. 3*j + 1 \in Nat \ {0} /\ 3*j + 2 \in Nat \ {0} /\ 3*j + 3 \in Nat \ {0}
    OBVIOUS
  <2> QED
    BY <2>1, ByteAtType
<1>1. PICK L \in Nat : L = Len(b)
  BY LenProperties
<1>2. /\ q[1] = x \div 4
      /\ q[2] = (x % 4)*16 + (y \div 16)
      /\ q[3] = IF L <= 3*j + 1 THEN PAD ELSE (y % 16)*4 + (z \div 64)
      /\ q[4] = IF L <= 3*j + 2 THEN PAD ELSE z % 64
  BY <1>0, <1>1, GroupDigits
<1>3. (L <= 3*j + 1 => y = 0) /\ (L <= 3*j + 2 => z = 0)
  BY <1>0, <1>1 DEF ByteAt
<1>4. PICK a, c, d, f \in 0..63, t \in Nat :
        Sextets(x, y, z, a, c, d, f) /\ Whole(a, c, d, f, t) /\ Parts(x, y, z, t)
  BY Triple
<1>5. /\ q[1] = a /\ q[2] = c
      /\ q[3] = IF L <= 3*j + 1 THEN PAD ELSE d
      /\ q[4] = IF L <= 3*j + 2 THEN PAD ELSE f
  BY <1>2, <1>4 DEF Sextets
<1>6. /\ q[1] # PAD /\ q[2] # PAD
      /\ q[3] = PAD <=> L <= 3*j + 1
      /\ q[4] = PAD <=> L <= 3*j + 2
  <2>1. \A w \in 0..63 : w # PAD
    BY DEF PAD
  <2> QED
    BY <1>5, <2>1
<1>7. /\ q[1] = a /\ q[2] = c
      /\ (IF q[3] = PAD THEN 0 ELSE q[3]) = d
      /\ (IF q[4] = PAD THEN 0 ELSE q[4]) = f
  <2>1. L <= 3*j + 1 => d = 0
    <3>1. L <= 3*j + 1 => y = 0 /\ z = 0
      BY <1>1, <1>3
    <3>2. (0 % 16)*4 + (0 \div 64) = 0
      OBVIOUS
    <3> QED
      BY <1>4, <3>1, <3>2 DEF Sextets
  <2>2. L <= 3*j + 2 => f = 0
    <3>1. 0 % 64 = 0
      OBVIOUS
    <3> QED
      BY <1>3, <1>4, <3>1 DEF Sextets
  <2> QED
    BY <1>5, <1>6, <2>1, <2>2
<1>8. PICK u, v : /\ u = IF q[3] = PAD THEN << >> ELSE <<y>>
                  /\ v = IF q[4] = PAD THEN << >> ELSE <<z>>
  OBVIOUS
<1>9. PICK o : o = <<x>>
  OBVIOUS
<1>10. o \in Seq(Bytes) /\ Len(o) = 1 /\ o[1] = x
  BY <1>9
<1>11. /\ u \in Seq(Bytes)
       /\ q[3] = PAD => u = << >> /\ Len(u) = 0
       /\ q[3] # PAD => u = <<y>> /\ Len(u) = 1 /\ u[1] = y
  <2>1. CASE q[3] = PAD
    <3>1. u = << >>
      BY <1>8, <2>1
    <3> QED
      BY <2>1, <3>1
  <2>2. CASE q[3] # PAD
    <3>1. u = <<y>>
      BY <1>8, <2>2
    <3> QED
      BY <2>2, <3>1
  <2> QED
    BY <2>1, <2>2
<1>12. /\ v \in Seq(Bytes)
       /\ q[4] = PAD => v = << >> /\ Len(v) = 0
       /\ q[4] # PAD => v = <<z>> /\ Len(v) = 1 /\ v[1] = z
  <2>1. CASE q[4] = PAD
    <3>1. v = << >>
      BY <1>8, <2>1
    <3> QED
      BY <2>1, <3>1
  <2>2. CASE q[4] # PAD
    <3>1. v = <<z>>
      BY <1>8, <2>2
    <3> QED
      BY <2>2, <3>1
  <2> QED
    BY <2>1, <2>2
<1>13. PICK g, h : g = o \o u /\ h = g \o v
  OBVIOUS
<1>14. Group(q) = h
  <2>1. Group(q) = <<x>> \o (IF q[3] = PAD THEN << >> ELSE <<y>>)
                         \o (IF q[4] = PAD THEN << >> ELSE <<z>>)
    <3>1. (IF q[1] = PAD THEN 0 ELSE q[1]) = a /\ (IF q[2] = PAD THEN 0 ELSE q[2]) = c
      BY <1>6, <1>7
    <3>2. (IF q[3] = PAD THEN 0 ELSE q[3]) = d /\ (IF q[4] = PAD THEN 0 ELSE q[4]) = f
      BY <1>7
    <3>3. t = a * 2^18 + c * 2^12 + d * 2^6 + f
      BY <1>4 DEF Whole
    <3>4. t \div 2^16 = x /\ (t \div 2^8) % 2^8 = y /\ t % 2^8 = z
      BY <1>4 DEF Parts
    <3> DEFINE value(k) == IF q[k] = PAD THEN 0 ELSE q[k]
               r == value(1) * 2^18 + value(2) * 2^12 + value(3) * 2^6 + value(4)
    <3>5. value(1) = a /\ value(2) = c /\ value(3) = d /\ value(4) = f
      BY <3>1, <3>2
    <3>6. Group(q) = <<r \div 2^16>> \o (IF q[3] = PAD THEN << >> ELSE <<(r \div 2^8) % 2^8>>)
                                     \o (IF q[4] = PAD THEN << >> ELSE <<r % 2^8>>)
      BY Zenon DEF Group
    <3> HIDE DEF value
    <3>7. r = t
      BY <3>3, <3>5
    <3> HIDE DEF r
    <3>8. r \div 2^16 = x /\ (r \div 2^8) % 2^8 = y /\ r % 2^8 = z
      BY <3>4, <3>7
    <3> QED
      BY <3>6, <3>8
  <2>2. CASE q[3] = PAD /\ q[4] = PAD
    BY <1>9, <1>11, <1>12, <1>13, <2>1, <2>2
  <2>3. CASE q[3] # PAD /\ q[4] = PAD
    BY <1>9, <1>11, <1>12, <1>13, <2>1, <2>3
  <2>4. CASE q[3] = PAD /\ q[4] # PAD
    BY <1>9, <1>11, <1>12, <1>13, <2>1, <2>4
  <2>5. CASE q[3] # PAD /\ q[4] # PAD
    BY <1>9, <1>11, <1>12, <1>13, <2>1, <2>5
  <2> QED
    BY <2>2, <2>3, <2>4, <2>5
<1>15. /\ g \in Seq(Bytes) /\ Len(g) = Len(o) + Len(u)
       /\ \A k \in 1..(Len(o) + Len(u)) : g[k] = IF k <= Len(o) THEN o[k] ELSE u[k - Len(o)]
  <2>1. o \in Seq(Bytes) /\ u \in Seq(Bytes)
    BY <1>10, <1>11
  <2> QED
    BY <1>13, <2>1, ConcatProperties
<1>16. /\ h \in Seq(Bytes) /\ Len(h) = Len(g) + Len(v)
       /\ \A k \in 1..(Len(g) + Len(v)) : h[k] = IF k <= Len(g) THEN g[k] ELSE v[k - Len(g)]
  BY <1>12, <1>13, <1>15, ConcatProperties
<1>17. CASE L <= 3*j + 1
  <2>1. q[3] = PAD /\ q[4] = PAD
    BY <1>1, <1>6, <1>17
  <2>2. Len(g) = 1 /\ g[1] = x
    BY <1>10, <1>11, <1>15, <2>1
  <2>3. Len(h) = 1 /\ h[1] = x
    BY <1>12, <1>16, <2>1, <2>2
  <2> QED
    BY <1>0, <1>1, <1>14, <1>16, <1>17, <2>3 DEF GroupIs
<1>18. CASE L = 3*j + 2
  <2>1. q[3] # PAD /\ q[4] = PAD
    BY <1>1, <1>6, <1>18
  <2>2. Len(g) = 2 /\ g[1] = x /\ g[2] = y
    <3>1. Len(u) = 1 /\ u[1] = y
      BY <1>11, <2>1
    <3> QED
      BY <1>10, <1>15, <3>1
  <2>3. Len(v) = 0
    BY <1>12, <2>1
  <2>4. /\ Len(h) = 2
        /\ \A k \in 1..2 : h[k] = g[k]
    BY <1>16, <2>2, <2>3
  <2> QED
    BY <1>0, <1>1, <1>14, <1>16, <1>18, <2>2, <2>4 DEF GroupIs
<1>19. CASE L >= 3*j + 3
  <2>1. q[3] # PAD /\ q[4] # PAD
    BY <1>1, <1>6, <1>19
  <2>2. Len(g) = 2 /\ g[1] = x /\ g[2] = y
    <3>1. Len(u) = 1 /\ u[1] = y
      BY <1>11, <2>1
    <3> QED
      BY <1>10, <1>15, <3>1
  <2>3. Len(v) = 1 /\ v[1] = z
    BY <1>12, <2>1
  <2>4. /\ Len(h) = 3
        /\ \A k \in 1..3 : h[k] = IF k <= 2 THEN g[k] ELSE v[k - 2]
    BY <1>16, <2>2, <2>3
  <2>5. h[1] = x /\ h[2] = y
    BY <2>2, <2>4
  <2>6. h[3] = z
    BY <2>3, <2>4
  <2> QED
    BY <1>0, <1>1, <1>14, <1>16, <1>19, <2>4, <2>5, <2>6 DEF GroupIs
<1> QED
  BY <1>1, <1>17, <1>18, <1>19

(* How many bytes the first n groups hold. *)
Held(b, n) == IF 3*n <= Len(b) THEN 3*n ELSE Len(b)

(* Two parts that meet make one. *)
LEMMA PartsJoin ==
  ASSUME NEW S, NEW s \in Seq(S), NEW m \in Nat, NEW n \in Nat, m <= n, n <= Len(s)
  PROVE  SubSeq(s, 1, m) \o SubSeq(s, m + 1, n) = SubSeq(s, 1, n)
<1>0. Len(s) \in Nat /\ m <= Len(s) /\ m + 1 \in Nat \ {0} /\ 1 \in Nat \ {0}
  BY LenProperties
<1>1. PICK x, y, z : x = SubSeq(s, 1, m) /\ y = SubSeq(s, m + 1, n) /\ z = SubSeq(s, 1, n)
  OBVIOUS
<1>2. /\ x \in Seq(S) /\ Len(x) = IF 1 <= m THEN m - 1 + 1 ELSE 0
      /\ \A k \in 1..Len(x) : x[k] = s[1 + k - 1]
  BY <1>0, <1>1, Part
<1>3. /\ y \in Seq(S) /\ Len(y) = IF m + 1 <= n THEN n - (m + 1) + 1 ELSE 0
      /\ \A k \in 1..Len(y) : y[k] = s[(m + 1) + k - 1]
  BY <1>0, <1>1, Part
<1>4. /\ z \in Seq(S) /\ Len(z) = IF 1 <= n THEN n - 1 + 1 ELSE 0
      /\ \A k \in 1..Len(z) : z[k] = s[1 + k - 1]
  BY <1>0, <1>1, Part
<1>5. Len(x) = m /\ Len(y) = n - m /\ Len(z) = n
  <2>1. \A a, c \in Nat : a <= c => /\ (IF 1 <= a THEN a - 1 + 1 ELSE 0) = a
                                   /\ (IF a + 1 <= c THEN c - (a + 1) + 1 ELSE 0) = c - a
    OBVIOUS
  <2> QED
    BY <1>2, <1>3, <1>4, <2>1
<1>6. PICK w : w = x \o y
  OBVIOUS
<1>7. /\ w \in Seq(S) /\ Len(w) = Len(x) + Len(y)
      /\ \A k \in 1..(Len(x) + Len(y)) : w[k] = IF k <= Len(x) THEN x[k] ELSE y[k - Len(x)]
  BY <1>2, <1>3, <1>6, ConcatProperties
<1>8. Len(w) = Len(z) /\ Len(w) = n /\ Len(x) + Len(y) = n
  BY <1>5, <1>7
<1>9. ASSUME NEW k \in 1..Len(w) PROVE w[k] = z[k]
  <2>1. k \in 1..n /\ z[k] = s[k]
    <3>1. k \in 1..Len(z) /\ 1 + k - 1 = k
      BY <1>8
    <3> QED
      BY <1>4, <1>8, <3>1
  <2>2. CASE k <= m
    <3>1. k \in 1..Len(x) /\ 1 + k - 1 = k
      BY <1>5, <2>1, <2>2
    <3>2. w[k] = x[k]
      BY <1>5, <1>7, <1>8, <2>1, <2>2
    <3> QED
      BY <1>2, <2>1, <3>1, <3>2
  <2>3. CASE ~(k <= m)
    <3>1. k - m \in 1..Len(y) /\ (m + 1) + (k - m) - 1 = k
      BY <1>5, <2>1, <2>3
    <3>2. w[k] = y[k - m]
      BY <1>5, <1>7, <1>8, <2>1, <2>3
    <3> QED
      BY <1>3, <2>1, <3>1, <3>2
  <2> QED
    BY <2>2, <2>3
<1> QED
  BY <1>1, <1>4, <1>6, <1>7, <1>8, <1>9, SeqEqual

(* A group is decoded to the bytes it was made of. *)
LEMMA GroupOf ==
  ASSUME NEW b \in Seq(Bytes), NEW j \in Nat, 3*j < Len(b)
  PROVE  Group(SubSeq(Encode(b), 4*(j + 1) - 3, 4*(j + 1))) = SubSeq(b, 3*j + 1, Held(b, j + 1))
<1>1. PICK L \in Nat : L = Len(b)
  BY LenProperties
<1>2. PICK x \in Bytes, y \in Bytes, z \in Bytes :
        x = ByteAt(b, 3*j + 1) /\ y = ByteAt(b, 3*j + 2) /\ z = ByteAt(b, 3*j + 3)
  <2>1. 3*j + 1 \in Nat \ {0} /\ 3*j + 2 \in Nat \ {0} /\ 3*j + 3 \in Nat \ {0}
    OBVIOUS
  <2> QED
    BY <2>1, ByteAtType
<1>3. PICK g : g = Group(SubSeq(Encode(b), 4*(j + 1) - 3, 4*(j + 1)))
  OBVIOUS
<1>4. /\ g \in Seq(Bytes)
      /\ L <= 3*j + 1 => Len(g) = 1
      /\ L = 3*j + 2 => Len(g) = 2
      /\ L >= 3*j + 3 => Len(g) = 3
      /\ g[1] = x
      /\ L >= 3*j + 2 => g[2] = y
      /\ L >= 3*j + 3 => g[3] = z
  <2>1. PICK q : q = SubSeq(Encode(b), 4*(j + 1) - 3, 4*(j + 1))
    OBVIOUS
  <2>2. GroupIs(Group(q), b, j)
    BY <2>1, GroupBytes
  <2>3. GroupIs(g, b, j)
    BY <1>3, <2>1, <2>2
  <2> QED
    BY <1>1, <1>2, <2>3 DEF GroupIs
<1>5. PICK m \in Nat \ {0}, h \in Nat :
        m = 3*j + 1 /\ h = Held(b, j + 1) /\ h <= L /\ m <= h
        /\ h = IF 3*(j + 1) <= L THEN 3*(j + 1) ELSE L
  BY <1>1 DEF Held
<1>6. PICK r : r = SubSeq(b, m, h)
  OBVIOUS
<1>7. /\ r \in Seq(Bytes) /\ Len(r) = h - m + 1
      /\ \A k \in 1..Len(r) : r[k] = b[m + k - 1]
  <2>1. /\ r \in Seq(Bytes) /\ Len(r) = IF m <= h THEN h - m + 1 ELSE 0
        /\ \A k \in 1..Len(r) : r[k] = b[m + k - 1]
    <3>1. h <= Len(b)
      BY <1>1, <1>5
    <3> QED
      BY <1>6, <3>1, Part
  <2> QED
    BY <1>5, <2>1
<1>8. Len(g) = Len(r) /\ Len(r) \in 1..3
  <2>1. 3*j < L /\ 3*(j + 1) = 3*j + 3
    BY <1>1
  <2>2. CASE L <= 3*j + 1
    <3>1. h = L /\ h - m + 1 = 1
      BY <1>5, <2>1, <2>2
    <3>2. Len(g) = h - m + 1
      BY <1>4, <2>2, <3>1
    <3> QED
      BY <1>7, <3>1, <3>2
  <2>3. CASE L = 3*j + 2
    <3>1. h = L /\ h - m + 1 = 2
      BY <1>5, <2>1, <2>3
    <3>2. Len(g) = h - m + 1
      BY <1>4, <2>3, <3>1
    <3> QED
      BY <1>7, <3>1, <3>2
  <2>4. CASE L >= 3*j + 3
    <3>1. h = 3*j + 3 /\ h - m + 1 = 3
      BY <1>5, <2>1, <2>4
    <3>2. Len(g) = h - m + 1
      BY <1>4, <2>4, <3>1
    <3> QED
      BY <1>7, <3>1, <3>2
  <2> QED
    BY <2>1, <2>2, <2>3, <2>4
<1>9. ASSUME NEW k \in 1..Len(g) PROVE g[k] = r[k]
  <2>1. k = 1 \/ k = 2 \/ k = 3
    BY <1>8
  <2>2. r[k] = b[m + k - 1]
    BY <1>7, <1>8
  <2>3. CASE k = 1
    <3>1. m + 1 - 1 = 3*j + 1 /\ x = b[3*j + 1]
      BY <1>1, <1>2, <1>5 DEF ByteAt
    <3> QED
      BY <1>4, <2>2, <2>3, <3>1
  <2>4. CASE k = 2
    <3>1. L >= 3*j + 2
      BY <1>1, <1>4, <1>5, <1>7, <1>8, <2>4
    <3>2. m + 2 - 1 = 3*j + 2 /\ y = b[3*j + 2]
      BY <1>1, <1>2, <1>5, <3>1 DEF ByteAt
    <3> QED
      BY <1>4, <2>2, <2>4, <3>1, <3>2
  <2>5. CASE k = 3
    <3>1. L >= 3*j + 3
      BY <1>1, <1>4, <1>5, <1>7, <1>8, <2>5
    <3>2. m + 3 - 1 = 3*j + 3 /\ z = b[3*j + 3]
      BY <1>1, <1>2, <1>5, <3>1 DEF ByteAt
    <3> QED
      BY <1>4, <2>2, <2>5, <3>1, <3>2
  <2> QED
    BY <2>1, <2>3, <2>4, <2>5
<1>10. g = r
  BY <1>4, <1>7, <1>8, <1>9, SeqEqual
<1> QED
  BY <1>3, <1>5, <1>6, <1>10

(* Decoded is what its definition says, for what was encoded. *)
LEMMA DecodedSteps ==
  ASSUME NEW b \in Seq(Bytes), NEW N \in Nat, N = (Len(b) + 2) \div 3
  PROVE  /\ Decoded(Encode(b))[0] = << >>
         /\ \A n \in 1..N : Decoded(Encode(b))[n] =
              Decoded(Encode(b))[n - 1] \o SubSeq(b, 3*(n - 1) + 1, Held(b, n))
<1>1. PICK L \in Nat : L = Len(b)
  BY LenProperties
<1>2. PICK e : e = Encode(b)
  OBVIOUS
<1>3. Len(e) \div 4 = N
  <2>1. Len(e) = 4 * N
    BY <1>2, EncodeType
  <2>2. \A k \in Nat : (4 * k) \div 4 = k
    OBVIOUS
  <2> QED
    BY <2>1, <2>2
<1>4. PICK grp : grp = [n \in 1..N |-> Group(SubSeq(e, 4*n - 3, 4*n))]
  OBVIOUS
<1>5. ASSUME NEW n \in 1..N
      PROVE  grp[n] = SubSeq(b, 3*(n - 1) + 1, Held(b, n)) /\ grp[n] \in Seq(Bytes)
  <2>1. PICK j \in Nat : j = n - 1 /\ n = j + 1
    OBVIOUS
  <2>2. 3*j < L
    BY <1>1, <2>1
  <2>3. Group(SubSeq(e, 4*n - 3, 4*n)) = SubSeq(b, 3*j + 1, Held(b, n))
    BY <1>1, <1>2, <2>1, <2>2, GroupOf
  <2>4. 3*j + 1 \in Nat \ {0} /\ Held(b, n) \in Nat /\ Held(b, n) <= L
    BY <1>1, <2>1 DEF Held
  <2>5. SubSeq(b, 3*j + 1, Held(b, n)) \in Seq(Bytes)
    BY <1>1, <2>4, Part
  <2> QED
    BY <1>4, <2>1, <2>3, <2>5
<1>6. PICK step : step = [n \in 1..N |-> [v \in Seq(Bytes) |-> v \o grp[n]]]
  OBVIOUS
<1>7. step \in StepsOn(N, Seq(Bytes))
  <2>1. ASSUME NEW n \in 1..N, NEW v \in Seq(Bytes) PROVE v \o grp[n] \in Seq(Bytes)
    BY <1>5, ConcatProperties
  <2> QED
    BY <1>6, <2>1 DEF StepsOn
<1>8. << >> \in Seq(Bytes)
  OBVIOUS
<1>9. PICK f : Follows(f, N, Seq(Bytes), << >>, step)
  BY <1>7, <1>8, Recursion
<1>10. \A n \in 0..N : n # 0 => n \in 1..N /\ n - 1 \in 0..N
  OBVIOUS
<1>11. \A n \in 0..N : n # 0 => step[n][f[n - 1]] = f[n - 1] \o grp[n]
  BY <1>6, <1>9, <1>10 DEF Follows
<1>12. f = [n \in 0..N |-> IF n = 0 THEN << >> ELSE f[n - 1] \o Group(SubSeq(e, 4*n - 3, 4*n))]
  BY <1>4, <1>9, <1>10, <1>11 DEF Follows
<1>13. PICK d : d = Decoded(e)
  OBVIOUS
<1>14. d = [n \in 0..N |-> IF n = 0 THEN << >> ELSE d[n - 1] \o Group(SubSeq(e, 4*n - 3, 4*n))]
  BY <1>3, <1>12, <1>13 DEF Decoded
<1>15. d[0] = << >> /\ \A n \in 1..N : d[n] = d[n - 1] \o grp[n]
  <2>1. 0 \in 0..N /\ \A n \in 1..N : n \in 0..N /\ n # 0
    OBVIOUS
  <2>2. d[0] = << >>
    BY <1>14, <2>1
  <2>3. ASSUME NEW n \in 1..N PROVE d[n] = d[n - 1] \o grp[n]
    <3>1. d[n] = d[n - 1] \o Group(SubSeq(e, 4*n - 3, 4*n))
      BY <1>14, <2>1
    <3> QED
      BY <1>4, <3>1
  <2> QED
    BY <2>2, <2>3
<1> QED
  BY <1>2, <1>5, <1>13, <1>15

(* base64_decode undoes the encoding. *)
LEMMA DecodedIs ==
  ASSUME NEW b \in Seq(Bytes)
  PROVE  Decoded(Encode(b))[Len(Encode(b)) \div 4] = b
<1>1. PICK L \in Nat : L = Len(b)
  BY LenProperties
<1>2. PICK N \in Nat : N = (Len(b) + 2) \div 3 /\ 3*N >= L
  BY <1>1
<1>3. Len(Encode(b)) \div 4 = N
  <2>1. Len(Encode(b)) = 4 * N
    BY <1>2, EncodeType
  <2>2. \A k \in Nat : (4 * k) \div 4 = k
    OBVIOUS
  <2> QED
    BY <2>1, <2>2
<1>4. PICK d : d = Decoded(Encode(b))
  OBVIOUS
<1>5. d[0] = << >> /\ \A n \in 1..N : d[n] = d[n - 1] \o SubSeq(b, 3*(n - 1) + 1, Held(b, n))
  BY <1>2, <1>4, DecodedSteps
<1> DEFINE T == {n \in 0..N : d[n] = SubSeq(b, 1, Held(b, n))}
<1>6. 0 \in T
  <2>1. Held(b, 0) = 0
    BY <1>1 DEF Held
  <2>2. SubSeq(b, 1, 0) = << >>
    OBVIOUS
  <2>3. d[0] = SubSeq(b, 1, Held(b, 0))
    BY <1>5, <2>1, <2>2
  <2> QED
    BY <2>3
<1>7. ASSUME NEW n \in 0..N, n < N, n \in T PROVE n + 1 \in T
  <2>1. n \in Nat /\ n + 1 \in 1..N /\ n + 1 \in 0..N /\ (n + 1) - 1 = n
    BY <1>7
  <2>2. d[n + 1] = d[n] \o SubSeq(b, 3*n + 1, Held(b, n + 1))
    BY <1>5, <2>1
  <2>3. 3*n < L
    BY <1>1, <1>2, <1>7
  <2>4. PICK m \in Nat, h \in Nat :
          m = 3*n /\ m = Held(b, n) /\ h = Held(b, n + 1) /\ m <= h /\ h <= Len(b)
    BY <1>1, <2>1, <2>3 DEF Held
  <2>5. d[n + 1] = SubSeq(b, 1, m) \o SubSeq(b, m + 1, h)
    BY <1>7, <2>2, <2>4
  <2>6. SubSeq(b, 1, m) \o SubSeq(b, m + 1, h) = SubSeq(b, 1, h)
    BY <2>4, PartsJoin
  <2> QED
    BY <2>1, <2>4, <2>5, <2>6
<1> HIDE DEF T
<1>8. \A n \in 0..N : n \in T
  BY <1>6, <1>7, UpTo
<1>9. d[N] = SubSeq(b, 1, Held(b, N))
  BY <1>8 DEF T
<1>10. Held(b, N) = L
  BY <1>1, <1>2 DEF Held
<1>11. SubSeq(b, 1, L) = b
  BY <1>1, SubSeqFull
<1> QED
  BY <1>3, <1>4, <1>9, <1>10, <1>11

(* One more symbol of a part. *)
LEMMA PartAppend ==
  ASSUME NEW S, NEW s \in Seq(S), NEW m \in Nat, m < Len(s)
  PROVE  Append(SubSeq(s, 1, m), s[m + 1]) = SubSeq(s, 1, m + 1)
<1>0. Len(s) \in Nat /\ m <= Len(s) /\ m + 1 \in Nat /\ m + 1 <= Len(s) /\ 1 \in Nat \ {0}
  BY LenProperties
<1>1. PICK x, z : x = SubSeq(s, 1, m) /\ z = SubSeq(s, 1, m + 1)
  OBVIOUS
<1>2. /\ x \in Seq(S) /\ Len(x) = IF 1 <= m THEN m - 1 + 1 ELSE 0
      /\ \A k \in 1..Len(x) : x[k] = s[1 + k - 1]
  BY <1>0, <1>1, Part
<1>3. /\ z \in Seq(S) /\ Len(z) = IF 1 <= m + 1 THEN (m + 1) - 1 + 1 ELSE 0
      /\ \A k \in 1..Len(z) : z[k] = s[1 + k - 1]
  BY <1>0, <1>1, Part
<1>4. Len(x) = m /\ Len(z) = m + 1
  <2>1. \A a \in Nat : (IF 1 <= a THEN a - 1 + 1 ELSE 0) = a
    OBVIOUS
  <2> QED
    BY <1>0, <1>2, <1>3, <2>1
<1>5. s[m + 1] \in S
  BY <1>0, ElementOfSeq
<1>6. PICK w : w = Append(x, s[m + 1])
  OBVIOUS
<1>7. /\ w \in Seq(S) /\ Len(w) = Len(x) + 1
      /\ \A k \in 1..Len(x) : w[k] = x[k]
      /\ w[Len(x) + 1] = s[m + 1]
  BY <1>2, <1>5, <1>6, AppendProperties
<1>8. ASSUME NEW k \in 1..Len(w) PROVE w[k] = z[k]
  <2>1. k \in 1..(m + 1) /\ k \in 1..Len(z) /\ 1 + k - 1 = k
    BY <1>4, <1>7
  <2>2. z[k] = s[k]
    BY <1>3, <2>1
  <2>3. CASE k = m + 1
    BY <1>4, <1>7, <2>2, <2>3
  <2>4. CASE k # m + 1
    <3>1. k \in 1..Len(x)
      BY <1>4, <2>1, <2>4
    <3> QED
      BY <1>2, <1>7, <2>1, <2>2, <3>1
  <2> QED
    BY <2>3, <2>4
<1>9. Len(w) = Len(z)
  BY <1>4, <1>7
<1> QED
  BY <1>1, <1>3, <1>6, <1>7, <1>8, <1>9, SeqEqual

(* One character more *)
CleanStep(v, x) == IF x = SPACE THEN v ELSE Append(v, x)

(* Cleaned is what its definition says. *)
LEMMA CleanedSteps ==
  ASSUME NEW S, NEW s \in Seq(S)
  PROVE  /\ Cleaned(s)[0] = << >>
         /\ \A n \in 1..Len(s) : /\ s[n] = SPACE => Cleaned(s)[n] = Cleaned(s)[n - 1]
                                 /\ s[n] # SPACE => Cleaned(s)[n] = Append(Cleaned(s)[n - 1], s[n])
<1>1. PICK N \in Nat : N = Len(s)
  BY LenProperties
<1>2. \A n \in 1..N : s[n] \in S
  BY <1>1, ElementOfSeq
<1>3. PICK step : step = [n \in 1..N |-> [v \in Seq(S) |-> CleanStep(v, s[n])]]
  OBVIOUS
<1>4. step \in StepsOn(N, Seq(S))
  <2>1. ASSUME NEW n \in 1..N, NEW v \in Seq(S)
        PROVE  CleanStep(v, s[n]) \in Seq(S)
    <3>1. Append(v, s[n]) \in Seq(S)
      BY <1>2, AppendProperties
    <3> QED
      BY <3>1 DEF CleanStep
  <2> QED
    BY <1>3, <2>1 DEF StepsOn
<1>5. << >> \in Seq(S)
  OBVIOUS
<1>6. PICK f : Follows(f, N, Seq(S), << >>, step)
  BY <1>4, <1>5, Recursion
<1>7. \A n \in 0..N : n # 0 => n \in 1..N /\ n - 1 \in 0..N
  OBVIOUS
<1>8. \A n \in 0..N : n # 0 => step[n][f[n - 1]] = CleanStep(f[n - 1], s[n])
  BY <1>3, <1>6, <1>7 DEF Follows
<1>9. f = [n \in 0..N |-> IF n = 0 THEN << >> ELSE CleanStep(f[n - 1], s[n])]
  BY <1>6, <1>7, <1>8 DEF Follows
<1>10. PICK g : g = Cleaned(s)
  OBVIOUS
<1>11. g = [n \in 0..N |-> IF n = 0 THEN << >> ELSE CleanStep(g[n - 1], s[n])]
  BY <1>1, <1>9, <1>10 DEF Cleaned, CleanStep
<1>12. 0 \in 0..N /\ \A n \in 1..N : n \in 0..N /\ n # 0
  OBVIOUS
<1>13. g[0] = << >>
  BY <1>11, <1>12
<1>14. ASSUME NEW n \in 1..N
       PROVE  /\ s[n] = SPACE => g[n] = g[n - 1]
              /\ s[n] # SPACE => g[n] = Append(g[n - 1], s[n])
  <2>1. g[n] = CleanStep(g[n - 1], s[n])
    BY <1>11, <1>12
  <2> QED
    BY <2>1 DEF CleanStep
<1> QED
  BY <1>1, <1>10, <1>13, <1>14

(* A sequence with one element more. *)
LEMMA InsertAtIs ==
  ASSUME NEW S, NEW s \in Seq(S), NEW at \in 1..(Len(s) + 1), NEW e \in S
  PROVE  /\ InsertAt(s, at, e) \in Seq(S)
         /\ Len(InsertAt(s, at, e)) = Len(s) + 1
         /\ \A k \in 1..(Len(s) + 1) : /\ k < at => InsertAt(s, at, e)[k] = s[k]
                                       /\ k = at => InsertAt(s, at, e)[k] = e
                                       /\ k > at => InsertAt(s, at, e)[k] = s[k - 1]
<1>0. Len(s) \in Nat /\ at \in Nat \ {0} /\ at - 1 \in Nat /\ at - 1 <= Len(s) /\ 1 \in Nat \ {0}
  BY LenProperties
<1>1. PICK x, y, o : x = SubSeq(s, 1, at - 1) /\ y = SubSeq(s, at, Len(s)) /\ o = <<e>>
  OBVIOUS
<1>2. /\ x \in Seq(S) /\ Len(x) = at - 1
      /\ \A k \in 1..Len(x) : x[k] = s[k]
  <2>1. /\ x \in Seq(S) /\ Len(x) = IF 1 <= at - 1 THEN (at - 1) - 1 + 1 ELSE 0
        /\ \A k \in 1..Len(x) : x[k] = s[1 + k - 1]
    BY <1>0, <1>1, Part
  <2>2. Len(x) = at - 1
    BY <1>0, <2>1
  <2>3. \A k \in 1..Len(x) : 1 + k - 1 = k
    BY <1>0, <2>2
  <2> QED
    BY <2>1, <2>2, <2>3
<1>3. /\ y \in Seq(S) /\ Len(y) = Len(s) - at + 1
      /\ \A k \in 1..Len(y) : y[k] = s[at + k - 1]
  <2>1. /\ y \in Seq(S) /\ Len(y) = IF at <= Len(s) THEN Len(s) - at + 1 ELSE 0
        /\ \A k \in 1..Len(y) : y[k] = s[at + k - 1]
    BY <1>0, <1>1, Part
  <2>2. Len(y) = Len(s) - at + 1
    BY <1>0, <2>1
  <2> QED
    BY <2>1, <2>2
<1>4. o \in Seq(S) /\ Len(o) = 1 /\ o[1] = e
  BY <1>1
<1>5. PICK g, h : g = x \o o /\ h = g \o y
  OBVIOUS
<1>6. InsertAt(s, at, e) = h
  BY <1>1, <1>5 DEF InsertAt
<1>7. /\ g \in Seq(S) /\ Len(g) = Len(x) + Len(o)
      /\ \A k \in 1..(Len(x) + Len(o)) : g[k] = IF k <= Len(x) THEN x[k] ELSE o[k - Len(x)]
  <2>1. x \in Seq(S) /\ o \in Seq(S)
    BY <1>2, <1>4
  <2> QED
    BY <1>5, <2>1, ConcatProperties
<1>8. /\ h \in Seq(S) /\ Len(h) = Len(g) + Len(y)
      /\ \A k \in 1..(Len(g) + Len(y)) : h[k] = IF k <= Len(g) THEN g[k] ELSE y[k - Len(g)]
  <2>1. g \in Seq(S) /\ y \in Seq(S)
    BY <1>3, <1>7
  <2> QED
    BY <1>5, <2>1, ConcatProperties
<1>9. Len(g) = at /\ Len(h) = Len(s) + 1 /\ Len(g) + Len(y) = Len(s) + 1 /\ Len(x) + Len(o) = at
  BY <1>0, <1>2, <1>3, <1>4, <1>7, <1>8
<1>10. ASSUME NEW k \in 1..(Len(s) + 1)
       PROVE  (k < at => h[k] = s[k]) /\ (k = at => h[k] = e) /\ (k > at => h[k] = s[k - 1])
  <2>0. k \in Nat \ {0} /\ k <= Len(s) + 1
    BY <1>0
  <2>1. CASE k < at
    <3>1. h[k] = g[k]
      BY <1>0, <1>8, <1>9, <2>1
    <3>2. k \in 1..(Len(x) + Len(o)) /\ k <= Len(x) /\ k \in 1..Len(x)
      BY <1>0, <1>2, <1>9, <2>0, <2>1
    <3>3. g[k] = x[k]
      BY <1>7, <3>2
    <3> QED
      BY <1>0, <1>2, <2>0, <2>1, <3>1, <3>2, <3>3
  <2>2. CASE k = at
    <3>1. h[k] = g[k]
      BY <1>0, <1>8, <1>9, <2>2
    <3>2. k \in 1..(Len(x) + Len(o)) /\ ~(k <= Len(x)) /\ k - Len(x) = 1
      BY <1>0, <1>2, <1>9, <2>0, <2>2
    <3>3. g[k] = o[1]
      BY <1>7, <3>2
    <3> QED
      BY <1>0, <1>4, <2>0, <2>2, <3>1, <3>3
  <2>3. CASE k > at
    <3>1. k \in 1..(Len(g) + Len(y)) /\ ~(k <= Len(g)) /\ k - Len(g) = k - at
      BY <1>0, <1>9, <2>0, <2>3
    <3>2. h[k] = y[k - at]
      BY <1>8, <3>1
    <3>3. k - at \in 1..Len(y) /\ at + (k - at) - 1 = k - 1
      BY <1>0, <1>3, <2>0, <2>3
    <3>4. y[k - at] = s[k - 1]
      BY <1>3, <3>3
    <3> QED
      BY <1>0, <2>0, <2>3, <3>2, <3>4
  <2> QED
    BY <1>0, <2>0, <2>1, <2>2, <2>3
<1> QED
  BY <1>6, <1>8, <1>9, <1>10

(* White space is dropped wherever it is. *)
LEMMA CleanedIs ==
  ASSUME NEW S, NEW s \in Seq(S), SPACE \in S, NEW at \in 1..(Len(s) + 1),
         \A k \in 1..Len(s) : s[k] # SPACE,
         NEW w, w = InsertAt(s, at, SPACE)
  PROVE  Cleaned(w)[Len(w)] = s
<1>1. PICK L \in Nat : L = Len(s)
  BY LenProperties
<1>2. /\ w \in Seq(S) /\ Len(w) = L + 1
      /\ \A k \in 1..(L + 1) : /\ k < at => w[k] = s[k]
                               /\ k = at => w[k] = SPACE
                               /\ k > at => w[k] = s[k - 1]
  <2>1. \A e \in S : /\ InsertAt(s, at, e) \in Seq(S)
                     /\ Len(InsertAt(s, at, e)) = Len(s) + 1
                     /\ \A k \in 1..(Len(s) + 1) : /\ k < at => InsertAt(s, at, e)[k] = s[k]
                                                   /\ k = at => InsertAt(s, at, e)[k] = e
                                                   /\ k > at => InsertAt(s, at, e)[k] = s[k - 1]
    BY InsertAtIs
  <2> QED
    BY <1>1, <2>1
<1>3. PICK g : g = Cleaned(w)
  OBVIOUS
<1>4. /\ g[0] = << >>
      /\ \A n \in 1..(L + 1) : /\ w[n] = SPACE => g[n] = g[n - 1]
                               /\ w[n] # SPACE => g[n] = Append(g[n - 1], w[n])
  <2>1. w \in Seq(S)
    BY <1>2
  <2>2. /\ g[0] = << >>
        /\ \A n \in 1..Len(w) : /\ w[n] = SPACE => g[n] = g[n - 1]
                                /\ w[n] # SPACE => g[n] = Append(g[n - 1], w[n])
    BY <1>3, <2>1, CleanedSteps
  <2> QED
    BY <1>2, <2>2
<1>5. at \in Nat /\ at >= 1 /\ at <= L + 1 /\ L + 1 \in Nat
  BY <1>1
<1> DEFINE T == {n \in 0..(L + 1) : g[n] = SubSeq(s, 1, IF n < at THEN n ELSE n - 1)}
<1>6. 0 \in T
  <2>1. 0 < at /\ 0 \in 0..(L + 1)
    BY <1>5
  <2>2. SubSeq(s, 1, 0) = << >>
    OBVIOUS
  <2>3. (IF 0 < at THEN 0 ELSE 0 - 1) = 0
    BY <2>1
  <2>4. g[0] = SubSeq(s, 1, IF 0 < at THEN 0 ELSE 0 - 1)
    BY <1>4, <2>2, <2>3
  <2> QED
    BY <2>1, <2>4
<1>7. ASSUME NEW n \in 0..(L + 1), n < L + 1, n \in T PROVE n + 1 \in T
  <2>1. n \in Nat /\ n + 1 \in 1..(L + 1) /\ n + 1 \in 0..(L + 1) /\ (n + 1) - 1 = n
    BY <1>7
  <2>2. CASE n + 1 < at
    <3>1. n < at /\ n < Len(s) /\ n + 1 \in 1..Len(s)
      BY <1>1, <1>5, <2>1, <2>2
    <3>2. w[n + 1] = s[n + 1] /\ w[n + 1] # SPACE
      BY <1>1, <1>2, <2>1, <2>2, <3>1
    <3>3. g[n + 1] = Append(g[n], s[n + 1])
      BY <1>4, <2>1, <3>2
    <3>4. g[n] = SubSeq(s, 1, n)
      BY <1>7, <3>1
    <3>5. g[n + 1] = SubSeq(s, 1, n + 1)
      BY <2>1, <3>1, <3>3, <3>4, PartAppend
    <3> QED
      BY <2>1, <2>2, <3>5
  <2>3. CASE n + 1 = at
    <3>1. n < at /\ ~(n + 1 < at)
      BY <1>5, <2>1, <2>3
    <3>2. w[n + 1] = SPACE
      BY <1>2, <2>1, <2>3
    <3>3. g[n + 1] = g[n]
      BY <1>4, <2>1, <3>2
    <3>4. g[n] = SubSeq(s, 1, n)
      BY <1>7, <3>1
    <3> QED
      BY <2>1, <3>1, <3>3, <3>4
  <2>4. CASE n + 1 > at
    <3>1. PICK m \in Nat : /\ m = n - 1 /\ m + 1 = n /\ m < Len(s) /\ n \in 1..Len(s)
                           /\ ~(n < at) /\ ~(n + 1 < at)
      BY <1>1, <1>5, <2>1, <2>4
    <3>2. w[n + 1] = s[n] /\ w[n + 1] # SPACE
      BY <1>1, <1>2, <2>1, <2>4, <3>1
    <3>3. g[n + 1] = Append(g[n], s[n])
      BY <1>4, <2>1, <3>2
    <3>4. g[n] = SubSeq(s, 1, m)
      BY <1>7, <3>1
    <3>5. g[n + 1] = SubSeq(s, 1, n)
      BY <3>1, <3>3, <3>4, PartAppend
    <3> QED
      BY <2>1, <3>1, <3>5
  <2> QED
    BY <1>5, <2>1, <2>2, <2>3, <2>4
<1> HIDE DEF T
<1>8. \A n \in 0..(L + 1) : n \in T
  BY <1>5, <1>6, <1>7, UpTo
<1>9. g[L + 1] = SubSeq(s, 1, IF L + 1 < at THEN L + 1 ELSE (L + 1) - 1)
  BY <1>5, <1>8 DEF T
<1>10. ~(L + 1 < at) /\ (L + 1) - 1 = Len(s)
  BY <1>1, <1>5
<1>11. SubSeq(s, 1, Len(s)) = s
  BY SubSeqFull
<1> QED
  BY <1>2, <1>3, <1>9, <1>10, <1>11

(* base64_decode takes whatever fits, and gives back what was encoded. *)
LEMMA DecodeIs ==
  ASSUME NEW b \in Seq(Bytes), NEW at \in 1..(Len(Encode(b)) + 1),
         NEW w, w = InsertAt(Encode(b), at, SPACE)
  PROVE  /\ base64_decode(w).ok <=> Len(Encode(b)) <= CLEAN
         /\ base64_decode(w).ok => base64_decode(w).out = b
<1>1. PICK e : e = Encode(b)
  OBVIOUS
<1>2. e \in Seq(0..64) /\ Len(e) = 4 * ((Len(b) + 2) \div 3) /\ (Len(b) + 2) \div 3 \in Nat
  BY <1>1, EncodeType
<1>3. e \in Seq(0..65)
  <2>1. Len(e) \in Nat /\ \A k \in 1..Len(e) : e[k] \in 0..64
    BY <1>2, LenProperties, ElementOfSeq
  <2>2. \A k \in 1..Len(e) : e[k] \in 0..65
    BY <2>1
  <2>3. e = [k \in 1..Len(e) |-> e[k]]
    BY <1>2
  <2>4. e \in [1..Len(e) -> 0..65]
    BY <2>2, <2>3
  <2> QED
    BY <2>1, <2>4, SeqDef
<1>4. SPACE \in 0..65 /\ \A k \in 1..Len(e) : e[k] # SPACE
  <2>1. \A k \in 1..Len(e) : e[k] \in 0..64
    BY <1>2, ElementOfSeq
  <2>2. \A x \in 0..64 : x # 65
    OBVIOUS
  <2>3. SPACE = 65 /\ 65 \in 0..65
    BY DEF SPACE
  <2> QED
    BY <2>1, <2>2, <2>3
<1>5. Cleaned(w)[Len(w)] = e
  BY <1>1, <1>3, <1>4, CleanedIs
<1>6. Len(e) % 4 = 0
  <2>1. \A k \in Nat : (4 * k) % 4 = 0
    OBVIOUS
  <2> QED
    BY <1>2, <2>1
<1>7. Len(e) \in Nat /\ CLEAN \in Nat
  BY <1>2, LenProperties, ConstAssumption
<1>8. Decoded(e)[Len(e) \div 4] = b
  BY <1>1, DecodedIs
<1>9. CASE Len(e) > CLEAN
  <2>1. base64_decode(w) = [ok |-> FALSE, out |-> << >>]
    BY <1>5, <1>9 DEF base64_decode
  <2> QED
    BY <1>1, <1>7, <1>9, <2>1
<1>10. CASE ~(Len(e) > CLEAN)
  <2>1. base64_decode(w) = [ok |-> TRUE, out |-> Decoded(e)[Len(e) \div 4]]
    BY <1>5, <1>6, <1>10 DEF base64_decode
  <2> QED
    BY <1>1, <1>7, <1>8, <1>10, <2>1
<1> QED
  BY <1>9, <1>10

(* A C string ends at the first NUL, or behind the bytes. *)
LEMMA StrEndIs ==
  ASSUME NEW b \in Seq(Bytes), NEW i \in Nat \ {0}, i <= Len(b) + 1
  PROVE  /\ StrEnd(b, i) \in Nat /\ i <= StrEnd(b, i) /\ StrEnd(b, i) <= Len(b) + 1
         /\ \A k \in i..(StrEnd(b, i) - 1) : b[k] # NUL
         /\ StrEnd(b, i) <= Len(b) => b[StrEnd(b, i)] = NUL
<1>1. Len(b) \in Nat
  BY LenProperties
<1>2. PICK I : I = {k \in i..Len(b) : b[k] = NUL}
  OBVIOUS
<1>3. PICK e : e = SelectInSubSeq(b, i, Len(b), LAMBDA x : x = NUL)
  OBVIOUS
<1>4. e = IF I # {} THEN Min(I) ELSE 0
  BY <1>2, <1>3 DEF SelectInSubSeq
<1>5. I \in SUBSET Nat
  BY <1>1, <1>2
<1>6. StrEnd(b, i) = IF e = 0 THEN Len(b) + 1 ELSE e
  BY <1>3 DEF StrEnd
<1>7. CASE I = {}
  <2>1. StrEnd(b, i) = Len(b) + 1
    BY <1>4, <1>6, <1>7
  <2>2. \A k \in i..Len(b) : b[k] # NUL
    BY <1>2, <1>7
  <2> QED
    BY <1>1, <2>1, <2>2
<1>8. CASE I # {}
  <2>1. e \in I /\ \A k \in I : e <= k
    BY <1>4, <1>5, <1>8, MinOfNats
  <2>2. e \in Nat /\ i <= e /\ e <= Len(b) /\ b[e] = NUL
    BY <1>1, <1>2, <2>1
  <2>3. StrEnd(b, i) = e
    BY <1>6, <2>2
  <2>4. ASSUME NEW k \in i..(e - 1) PROVE b[k] # NUL
    <3>1. k \in i..Len(b) /\ ~(e <= k)
      BY <1>1, <2>2
    <3> QED
      BY <1>2, <2>1, <3>1
  <2> QED
    BY <1>1, <2>2, <2>3, <2>4
<1> QED
  BY <1>7, <1>8

(* The authcid starts behind the first C string. *)
LEMMA AuthcidIs ==
  ASSUME NEW b \in Seq(Bytes), 1 <= Len(b)
  PROVE  Authcid(b) = StrEnd(b, 1) + 1
<1>1. Len(b) \in Nat
  BY LenProperties
<1>2. PICK a : a = StrEnd(b, 1)
  OBVIOUS
<1>3. a \in Nat /\ 1 <= a /\ \A k \in 1..(a - 1) : b[k] # NUL
  BY <1>1, <1>2, StrEndIs
<1>4. CASE b[1] = NUL
  <2>1. ~(1 \in 1..(a - 1))
    BY <1>3, <1>4
  <2>2. a = 1
    BY <1>3, <2>1
  <2> QED
    BY <1>2, <1>4, <2>2 DEF Authcid
<1>5. CASE b[1] # NUL
  BY <1>5 DEF Authcid
<1> QED
  BY <1>4, <1>5

(* The ways to read b as authzid NUL authcid NUL passwd. *)
Nuls(b) == {k \in 1..Len(b) : b[k] = NUL}
PlainReadings(b) ==
  {r \in [i : Nuls(b), j : Nuls(b)] :
     r.i < r.j /\ r.j < Len(b) /\ \A k \in Nuls(b) : k < r.j => k = r.i}

(* A reading is the first two NULs. *)
LEMMA OnePlainReading ==
  ASSUME NEW b \in Seq(Bytes), NEW r \in PlainReadings(b)
  PROVE  /\ 3 <= Len(b) /\ r.i = StrEnd(b, 1) /\ r.j = StrEnd(b, r.i + 1)
         /\ r.i \in Nat \ {0} /\ r.j \in Nat /\ r.i < r.j /\ r.j < Len(b)
<1>1. Len(b) \in Nat
  BY LenProperties
<1>2. PICK x, y : x = r.i /\ y = r.j
  OBVIOUS
<1>3. /\ x \in Nuls(b) /\ y \in Nuls(b) /\ x < y /\ y < Len(b)
      /\ \A k \in Nuls(b) : k < y => k = x
  BY <1>2 DEF PlainReadings
<1>4. x \in 1..Len(b) /\ y \in 1..Len(b) /\ b[x] = NUL /\ b[y] = NUL
  BY <1>3 DEF Nuls
<1>5. PICK a : a = StrEnd(b, 1)
  OBVIOUS
<1>6. /\ a \in Nat /\ 1 <= a /\ a <= Len(b) + 1
      /\ \A k \in 1..(a - 1) : b[k] # NUL
      /\ a <= Len(b) => b[a] = NUL
  BY <1>1, <1>5, StrEndIs
<1>7. a <= x
  <2>1. ~(x \in 1..(a - 1))
    BY <1>4, <1>6
  <2> QED
    BY <1>1, <1>4, <1>6, <2>1
<1>8. a = x
  <2>1. a \in 1..Len(b) /\ a < y
    BY <1>1, <1>3, <1>4, <1>6, <1>7
  <2>2. a \in Nuls(b)
    BY <1>6, <2>1 DEF Nuls
  <2> QED
    BY <1>3, <2>1, <2>2
<1>9. PICK c \in Nat \ {0} : c = x + 1 /\ c <= Len(b) + 1
  BY <1>1, <1>4
<1>10. PICK e : e = StrEnd(b, c)
  OBVIOUS
<1>11. /\ e \in Nat /\ c <= e /\ e <= Len(b) + 1
       /\ \A k \in c..(e - 1) : b[k] # NUL
       /\ e <= Len(b) => b[e] = NUL
  BY <1>9, <1>10, StrEndIs
<1>12. e <= y
  <2>1. ~(y \in c..(e - 1))
    BY <1>4, <1>11
  <2> QED
    BY <1>1, <1>3, <1>4, <1>9, <1>11, <2>1
<1>13. e = y
  <2>1. e \in 1..Len(b) /\ e # x
    BY <1>1, <1>4, <1>9, <1>11, <1>12
  <2>2. e \in Nuls(b)
    BY <1>1, <1>11, <2>1 DEF Nuls
  <2>3. ~(e < y)
    BY <1>3, <2>1, <2>2
  <2> QED
    BY <1>1, <1>4, <1>11, <1>12, <2>3
<1>14. 3 <= Len(b) /\ x \in Nat \ {0} /\ y \in Nat
  BY <1>1, <1>3, <1>4
<1> QED
  BY <1>2, <1>3, <1>5, <1>8, <1>9, <1>10, <1>13, <1>14

(* The payload is accepted exactly if it can be read. *)
LEMMA PlainOk ==
  ASSUME NEW b \in Seq(Bytes)
  PROVE  ParsePlain(b).ok <=> PlainReadings(b) # {}
<1>1. Len(b) \in Nat
  BY LenProperties
<1>2. PICK a : a = StrEnd(b, 1)
  OBVIOUS
<1>3. /\ a \in Nat /\ 1 <= a /\ a <= Len(b) + 1
      /\ \A k \in 1..(a - 1) : b[k] # NUL
      /\ a <= Len(b) => b[a] = NUL
  BY <1>1, <1>2, StrEndIs
<1>4. PICK i, e : i = Authcid(b) /\ e = StrEnd(b, i)
  OBVIOUS
<1>5. ParsePlain(b).ok <=> ~(Len(b) < 3 \/ i > Len(b) \/ e >= Len(b))
  BY <1>4 DEF ParsePlain
<1>6. 3 <= Len(b) => i = a + 1
  BY <1>1, <1>2, <1>4, AuthcidIs
<1>7. ASSUME NEW r \in PlainReadings(b) PROVE ParsePlain(b).ok
  <2>1. /\ 3 <= Len(b) /\ r.i = StrEnd(b, 1) /\ r.j = StrEnd(b, r.i + 1)
        /\ r.i \in Nat \ {0} /\ r.j \in Nat /\ r.i < r.j /\ r.j < Len(b)
    BY OnePlainReading
  <2>2. i = r.i + 1 /\ e = r.j
    BY <1>2, <1>4, <1>6, <2>1
  <2> QED
    BY <1>1, <1>5, <2>1, <2>2
<1>8. ASSUME ParsePlain(b).ok PROVE PlainReadings(b) # {}
  <2>1. 3 <= Len(b) /\ i = a + 1 /\ ~(i > Len(b)) /\ ~(e >= Len(b))
    BY <1>1, <1>5, <1>6, <1>8
  <2>2. i \in Nat \ {0} /\ i <= Len(b) + 1
    BY <1>1, <1>3, <2>1
  <2>3. /\ e \in Nat /\ i <= e /\ e <= Len(b) + 1
        /\ \A k \in i..(e - 1) : b[k] # NUL
        /\ e <= Len(b) => b[e] = NUL
    BY <1>4, <2>2, StrEndIs
  <2>4. a \in 1..Len(b) /\ e \in 1..Len(b) /\ a < e /\ e < Len(b)
    BY <1>1, <1>3, <2>1, <2>3
  <2>5. a \in Nuls(b) /\ e \in Nuls(b)
    BY <1>1, <1>3, <2>3, <2>4 DEF Nuls
  <2>6. ASSUME NEW k \in Nuls(b), k < e PROVE k = a
    <3>1. k \in 1..Len(b) /\ b[k] = NUL
      BY DEF Nuls
    <3>2. ~(k \in 1..(a - 1)) /\ ~(k \in i..(e - 1))
      BY <1>3, <2>3, <3>1
    <3> QED
      BY <1>1, <1>3, <2>1, <2>3, <2>6, <3>1, <3>2
  <2>7. PICK r : r = [i |-> a, j |-> e]
    OBVIOUS
  <2>8. r \in [i : Nuls(b), j : Nuls(b)] /\ r.i = a /\ r.j = e
    BY <2>5, <2>7
  <2>9. r \in PlainReadings(b)
    BY <2>4, <2>6, <2>8 DEF PlainReadings
  <2> QED
    BY <2>9
<1> QED
  BY <1>7, <1>8

(* The payload is split as it reads. *)
LEMMA PlainSplits ==
  ASSUME NEW b \in Seq(Bytes), NEW r \in PlainReadings(b)
  PROVE  /\ ParsePlain(b).authcid = SubSeq(b, r.i + 1, r.j - 1)
         /\ NUL \notin ToSet(From(b, r.j + 1)) => ParsePlain(b).passwd = From(b, r.j + 1)
<1>1. Len(b) \in Nat
  BY LenProperties
<1>2. /\ 3 <= Len(b) /\ r.i = StrEnd(b, 1) /\ r.j = StrEnd(b, r.i + 1)
      /\ r.i \in Nat \ {0} /\ r.j \in Nat /\ r.i < r.j /\ r.j < Len(b)
  BY OnePlainReading
<1>3. PICK x \in Nat, y \in Nat : x = r.i /\ y = r.j
  BY <1>2
<1>4. Authcid(b) = x + 1
  BY <1>1, <1>2, <1>3, AuthcidIs
<1>5. StrEnd(b, x + 1) = y
  BY <1>2, <1>3
<1>6. ~(Len(b) < 3) /\ ~(x + 1 > Len(b)) /\ ~(y >= Len(b))
  BY <1>1, <1>2, <1>3
<1>7. ParsePlain(b) = [ok |-> TRUE, authcid |-> SubSeq(b, x + 1, y - 1),
                       passwd |-> SubSeq(b, y + 1, StrEnd(b, y + 1) - 1)]
  BY <1>4, <1>5, <1>6 DEF ParsePlain
<1>8. ASSUME NUL \notin ToSet(From(b, y + 1)) PROVE StrEnd(b, y + 1) - 1 = Len(b)
  <2>1. PICK c \in Nat \ {0} : c = y + 1 /\ c <= Len(b) + 1 /\ c <= Len(b)
    BY <1>1, <1>6
  <2>2. PICK e : e = StrEnd(b, c)
    OBVIOUS
  <2>3. e \in Nat /\ c <= e /\ e <= Len(b) + 1 /\ (e <= Len(b) => b[e] = NUL)
    BY <2>1, <2>2, StrEndIs
  <2>4. PICK t : t = SubSeq(b, c, Len(b))
    OBVIOUS
  <2>5. t \in Seq(Bytes) /\ Len(t) = Len(b) - c + 1 /\ \A k \in 1..Len(t) : t[k] = b[c + k - 1]
    <3>1. /\ t \in Seq(Bytes) /\ Len(t) = IF c <= Len(b) THEN Len(b) - c + 1 ELSE 0
          /\ \A k \in 1..Len(t) : t[k] = b[c + k - 1]
      BY <1>1, <2>4, Part
    <3> QED
      BY <2>1, <3>1
  <2>6. \A k \in 1..Len(t) : t[k] # NUL
    <3>1. NUL \notin ToSet(t)
      BY <1>8, <2>1, <2>4 DEF From
    <3>2. DOMAIN t = 1..Len(t)
      BY <2>5
    <3> QED
      BY <3>1, <3>2 DEF ToSet
  <2>7. ~(e <= Len(b))
    <3> SUFFICES ASSUME e <= Len(b) PROVE FALSE
      OBVIOUS
    <3>1. PICK k \in Nat : k = e - c + 1
      BY <2>3
    <3>2. k \in 1..Len(t) /\ c + k - 1 = e
      BY <1>1, <2>3, <2>5, <3>1
    <3> QED
      BY <2>3, <2>5, <2>6, <3>2
  <2> QED
    BY <1>1, <2>1, <2>2, <2>3, <2>7
<1>9. ParsePlain(b).authcid = SubSeq(b, r.i + 1, r.j - 1)
  <2>1. ParsePlain(b).authcid = SubSeq(b, x + 1, y - 1)
    BY <1>7
  <2> QED
    BY <1>3, <2>1
<1>10. ASSUME NUL \notin ToSet(From(b, r.j + 1)) PROVE ParsePlain(b).passwd = From(b, r.j + 1)
  <2>1. StrEnd(b, y + 1) - 1 = Len(b)
    BY <1>3, <1>8, <1>10
  <2>2. ParsePlain(b).passwd = SubSeq(b, y + 1, Len(b))
    BY <1>7, <2>1
  <2> QED
    BY <1>3, <2>2 DEF From
<1> QED
  BY <1>9, <1>10

(* What a client sends is decoded and split as it was put together. *)
LEMMA SaslIs ==
  ASSUME NEW b \in Seq(Bytes), NEW at \in 1..(Len(Encode(b)) + 1),
         NEW p, p = auth_handle_sasl(InsertAt(Encode(b), at, SPACE))
  PROVE  /\ p.ok <=> PlainReadings(b) # {} /\ Len(Encode(b)) <= CLEAN
         /\ p.ok => \A r \in PlainReadings(b) :
                      /\ p.authcid = SubSeq(b, r.i + 1, r.j - 1)
                      /\ NUL \notin ToSet(From(b, r.j + 1)) => p.passwd = From(b, r.j + 1)
<1>1. PICK w : w = InsertAt(Encode(b), at, SPACE)
  OBVIOUS
<1>2. /\ base64_decode(w).ok <=> Len(Encode(b)) <= CLEAN
      /\ base64_decode(w).ok => base64_decode(w).out = b
  BY <1>1, DecodeIs
<1>3. CASE Len(Encode(b)) <= CLEAN
  <2>1. p = ParsePlain(b)
    BY <1>1, <1>2, <1>3 DEF auth_handle_sasl
  <2>2. p.ok <=> PlainReadings(b) # {}
    BY <2>1, PlainOk
  <2>3. ASSUME NEW r \in PlainReadings(b)
        PROVE  /\ p.authcid = SubSeq(b, r.i + 1, r.j - 1)
               /\ NUL \notin ToSet(From(b, r.j + 1)) => p.passwd = From(b, r.j + 1)
    BY <2>1, PlainSplits
  <2> QED
    BY <1>3, <2>2, <2>3
<1>4. CASE ~(Len(Encode(b)) <= CLEAN)
  <2>1. p = [ok |-> FALSE, authcid |-> << >>, passwd |-> << >>]
    BY <1>1, <1>2, <1>4 DEF auth_handle_sasl
  <2>2. ~p.ok
    BY <2>1
  <2> QED
    BY <1>4, <2>2
<1> QED
  BY <1>3, <1>4

(* A payload of any length, encoded as RFC 4648 says and with white space put
   in anywhere, is accepted exactly if its base64 fits base64_decode's array
   and it is authzid NUL authcid NUL passwd, and auth_handle_sasl takes the
   authcid and the passwd that the client meant. *)
THEOREM SaslReferenceHolds == Spec => []SaslReference
<1>1. InType => SaslReference
  <2> SUFFICES ASSUME InType, kind = "sasl"
               PROVE  SaslReference
    BY DEF SaslReference
  <2>1. Alphabet.sasl \in SUBSET Bytes
    BY DEF Alphabet, Bytes, NUL
  <2>2. in \in Seq(Alphabet.sasl)
    BY DEF InType
  <2>3. in \in Seq(Bytes)
    <3>1. Len(in) \in Nat /\ in \in [1..Len(in) -> Alphabet.sasl]
      BY <2>2, LenProperties
    <3>2. in \in [1..Len(in) -> Bytes]
      BY <2>1, <3>1
    <3> QED
      BY <3>1, <3>2, SeqDef
  <2>4. ASSUME NEW at \in 1..(Len(Encode(in)) + 1),
               NEW p, p = auth_handle_sasl(InsertAt(Encode(in), at, SPACE))
        PROVE  /\ p.ok <=> PlainReadings(in) # {} /\ Len(Encode(in)) <= CLEAN
               /\ p.ok => \A r \in PlainReadings(in) :
                      /\ p.authcid = SubSeq(in, r.i + 1, r.j - 1)
                      /\ NUL \notin ToSet(From(in, r.j + 1)) => p.passwd = From(in, r.j + 1)
    BY <2>3, <2>4, SaslIs
  <2> QED
    BY <2>4 DEF SaslReference, PlainReadings, Nuls
<1> QED
  BY <1>1, InTypeAlways, PTL
=============================================================================
