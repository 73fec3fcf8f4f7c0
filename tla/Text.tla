-------------------------------- MODULE Text --------------------------------
(***************************************************************************)
(* The conversions of the C server, as operators, each compared with a     *)
(* definition of what it is for on every input up to a length: JIDs        *)
(* (src/c/src/util.c), SASL PLAIN with its base64 (util.c, auth.c) and the *)
(* password line of user.conf (user.c).                                    *)
(*                                                                         *)
(* The state is one input, written symbol by symbol, and the conversion it *)
(* is for.  A string is a sequence of characters, of which only those that *)
(* the code tells apart are named; bytes and base64 digits are numbers.    *)
(***************************************************************************)
EXTENDS Integers, Sequences, SequencesExt, FiniteSetsExt

CONSTANTS
  FIELD,    \* size of the arrays for local, domain and resource: 256
  CLEAN,    \* size of base64_decode's array: 4096
  LINE,     \* size of the array for a line of user.conf: 1024
  MaxLen    \* bound: [conversion -> length of the inputs]

ASSUME ConstAssumption ==
  /\ FIELD \in Nat \ {0, 1}
  /\ CLEAN \in Nat \ {0} /\ CLEAN % 4 = 0
  /\ LINE \in Nat /\ LINE > 4      \* room for the key

VARIABLES
  kind,  \* the conversion
  in     \* its input

vars == <<kind, in>>

From(s, i) == SubSeq(s, i, Len(s))
strchr(s, ch) == SelectInSeq(s, LAMBDA x : x = ch)
(* snprintf or memcpy into an array of a size *)
Cut(s, size) == SubSeq(s, 1, Min({Len(s), size - 1}))
-----------------------------------------------------------------------------
(* JIDs *)

(* mutant: the '@' is counted as part of the domain *)
DomainLen_At(s) ==
  LET at == strchr(s, "@")
      slash == strchr(s, "/")
  IN IF slash = 0 THEN Len(s) - at ELSE slash - at

(* The length of the domain; less than 0 when the '@' is behind the '/', which
   as a size_t is larger than any array. *)
DomainLen(s) ==
  LET at == strchr(s, "@")
      slash == strchr(s, "/")
  IN IF slash = 0 THEN Len(s) - at ELSE slash - at - 1

(* jid_parse; "domain" ends at the end of the string at the latest, although
   more than that is copied when its length is less than 0. *)
jid_parse(s) ==
  LET at == strchr(s, "@")
      slash == strchr(s, "/")
      dlen == DomainLen(s)
  IN [ok |-> s # << >> /\ at # 1 /\ dlen # 0,
      local |-> Cut(SubSeq(s, 1, at - 1), FIELD),
      domain |-> Cut(IF dlen < 0 THEN From(s, at + 1) ELSE SubSeq(s, at + 1, at + dlen), FIELD),
      resource |-> IF slash = 0 THEN << >> ELSE Cut(From(s, slash + 1), FIELD)]

jid_bare(local, domain) == local \o <<"@">> \o domain

(* The ways to read s as a JID: local, '@', domain, '/', resource. *)
JidReadings(s) ==
  {r \in [i : 0..Len(s), j : 1..(Len(s) + 1)] :
    /\ r.i < r.j - 1                                        \* a domain
    /\ IF r.i = 0 THEN strchr(s, "@") = 0
                  ELSE r.i > 1 /\ s[r.i] = "@" /\ strchr(SubSeq(s, 1, r.i - 1), "@") = 0
    /\ strchr(SubSeq(s, 1, r.j - 1), "/") = 0
    /\ r.j <= Len(s) => s[r.j] = "/"}

BareStable(p) ==
  LET q == jid_parse(jid_bare(p.local, p.domain))
  IN p.ok /\ p.local # << >> => q.ok /\ q.local = p.local /\ q.domain = p.domain

InOrder(s) == strchr(s, "/") = 0 \/ strchr(s, "@") < strchr(s, "/")

(* A JID with no '@' behind its '/' is accepted if and only if it can be read,
   and is split as it reads.  (The others are split as no reader would.)  The
   bare JID made of it is parsed to the same user again: sessions and roster
   items are compared by their bare JIDs, so two users never have the same
   one. *)
JidReference ==
  kind = "jid" /\ InOrder(in) =>
    /\ BareStable(jid_parse(in))
    /\ jid_parse(in).ok <=> JidReadings(in) # {}
    /\ \A r \in JidReadings(in) :
         /\ jid_parse(in).local = Cut(SubSeq(in, 1, r.i - 1), FIELD)
         /\ jid_parse(in).domain = Cut(SubSeq(in, r.i + 1, r.j - 1), FIELD)
         /\ jid_parse(in).resource = Cut(From(in, r.j + 1), FIELD)

-----------------------------------------------------------------------------
(* SASL PLAIN *)

PAD == 64     \* '='
SPACE == 65   \* any character that is not of the alphabet
NUL == 0

(* Four digits make three bytes, less one for each of the last two that is
   padding. *)
Group(q) ==
  LET v(k) == IF q[k] = PAD THEN 0 ELSE q[k]
      triple == v(1) * 2^18 + v(2) * 2^12 + v(3) * 2^6 + v(4)
  IN <<triple \div 2^16>>
     \o (IF q[3] = PAD THEN << >> ELSE <<(triple \div 2^8) % 2^8>>)
     \o (IF q[4] = PAD THEN << >> ELSE <<triple % 2^8>>)

(* What the loop keeps of the first n characters *)
Cleaned(s) ==
  LET clean[n \in 0..Len(s)] == IF n = 0 THEN << >>
                                ELSE IF s[n] = SPACE THEN clean[n - 1]
                                ELSE Append(clean[n - 1], s[n])
  IN clean

(* What the loop has written for the first n groups *)
Decoded(clean) ==
  LET out[n \in 0..(Len(clean) \div 4)] ==
        IF n = 0 THEN << >> ELSE out[n - 1] \o Group(SubSeq(clean, 4*n - 3, 4*n))
  IN out

base64_decode(s) ==
  LET clean == Cleaned(s)[Len(s)]
  IN IF Len(clean) > CLEAN \/ Len(clean) % 4 # 0
       THEN [ok |-> FALSE, out |-> << >>]
       ELSE [ok |-> TRUE, out |-> Decoded(clean)[Len(clean) \div 4]]

(* RFC 4648: bit n of the bytes b, digit k of them, and all digits, padded *)
Weight == <<128, 64, 32, 16, 8, 4, 2, 1>>
Bit(b, n) ==
  IF (n \div 8) >= Len(b) THEN 0 ELSE (b[(n \div 8) + 1] \div Weight[(n % 8) + 1]) % 2
Digit(b, k) ==
  Bit(b, 6*k)*32 + Bit(b, 6*k + 1)*16 + Bit(b, 6*k + 2)*8
  + Bit(b, 6*k + 3)*4 + Bit(b, 6*k + 4)*2 + Bit(b, 6*k + 5)
Encode(b) ==
  [k \in 1..(4 * ((Len(b) + 2) \div 3)) |->
     IF 6*(k - 1) >= 8*Len(b) THEN PAD ELSE Digit(b, k - 1)]

(* The end of the C string that starts at i *)
StrEnd(b, i) ==
  LET e == SelectInSubSeq(b, i, Len(b), LAMBDA x : x = NUL) IN IF e = 0 THEN Len(b) + 1 ELSE e

(* mutant: an authzid is not skipped *)
Authcid_First(b) == 2

(* Where the authcid starts: behind the authzid and its NUL *)
Authcid(b) == IF b[1] = NUL THEN 2 ELSE StrEnd(b, 1) + 1

(* auth_handle_sasl, from the decoded payload to the two strings *)
ParsePlain(b) ==
  LET i == Authcid(b)
      e == StrEnd(b, i)
  IN IF Len(b) < 3 \/ i > Len(b) \/ e >= Len(b)
       THEN [ok |-> FALSE, authcid |-> << >>, passwd |-> << >>]
       ELSE [ok |-> TRUE, authcid |-> SubSeq(b, i, e - 1),
             passwd |-> SubSeq(b, e + 1, StrEnd(b, e + 1) - 1)]

(* auth_handle_sasl: the two steps together *)
auth_handle_sasl(text) ==
  LET d == base64_decode(text) IN
  IF d.ok THEN ParsePlain(d.out)
  ELSE [ok |-> FALSE, authcid |-> << >>, passwd |-> << >>]

(* What a client encodes, with white space put in anywhere, is accepted if and
   only if its base64 fits the array and it is authzid NUL authcid NUL passwd,
   with a passwd; and it is split at the first two NULs. *)
SaslReference ==
  kind = "sasl" =>
    LET text == Encode(in)
        Nuls == {k \in 1..Len(in) : in[k] = NUL}
        Readings == {r \in [i : Nuls, j : Nuls] :
                       r.i < r.j /\ r.j < Len(in) /\ \A k \in Nuls : k < r.j => k = r.i}
    IN \A at \in 1..(Len(text) + 1) :
       LET p == auth_handle_sasl(InsertAt(text, at, SPACE)) IN
       /\ p.ok <=> Readings # {} /\ Len(text) <= CLEAN
       /\ p.ok => \A r \in Readings : /\ p.authcid = SubSeq(in, r.i + 1, r.j - 1)
                              /\ NUL \notin ToSet(From(in, r.j + 1)) => p.passwd = From(in, r.j + 1)
-----------------------------------------------------------------------------
(* user.conf.  The key is one character, and BL stands for any blank. *)

KEY == "k"
BL == " "
NL == "\n"
CR == "\r"   \* a blank to isspace, no line end to fgets

(* user_create, user_change_password: fprintf *)
ConfText(pw) == <<KEY, BL, "=", BL>> \o pw \o <<NL>>

(* fgets: a line ends behind its NL, or when the array is full. *)
NextLine(text, i) ==
  LET e == SelectInSubSeq(text, i, Len(text), LAMBDA x : x = NL)
  IN Min({IF e = 0 THEN Len(text) ELSE e, i + LINE - 2}) + 1

(* Where line n starts; behind the text when there is none *)
LineStarts(text) ==
  LET start[n \in 0..Len(text)] == IF n = 0 THEN 1 ELSE NextLine(text, start[n - 1])
  IN start

Lines(text) ==
  LET start == LineStarts(text)
      count == Cardinality({n \in 0..Len(text) : start[n] <= Len(text)})
  IN [n \in 1..count |-> SubSeq(text, start[n - 1], NextLine(text, start[n - 1]) - 1)]

(* line[strcspn(line, "\n\r")] = 0 *)
Chomp(line) ==
  LET e == SelectInSeq(line, LAMBDA x : x \in {NL, CR})
  IN IF e = 0 THEN line ELSE SubSeq(line, 1, e - 1)

(* mutant: blanks at the end are kept *)
Trim_Left(s) ==
  LET i == SelectInSeq(s, LAMBDA x : x # BL) IN IF i = 0 THEN << >> ELSE From(s, i)

Trim(s) ==
  LET i == SelectInSeq(s, LAMBDA x : x # BL)
      j == SelectLastInSeq(s, LAMBDA x : x # BL)
  IN IF i = 0 THEN << >> ELSE SubSeq(s, i, j)

(* A line as key and value; << >> when it has none *)
KeyValue(line) ==
  LET s == Trim(Chomp(line))
      eq == strchr(s, "=")
  IN IF s = << >> \/ eq = 0 THEN << >>
     ELSE IF s[1] = "#" THEN << >>
     ELSE <<Trim(SubSeq(s, 1, eq - 1)), Trim(From(s, eq + 1))>>

(* user_check_password: the first line with the key decides. *)
user_check_password(text, pw) ==
  LET lines == Lines(text)
      kvs == [n \in DOMAIN lines |-> KeyValue(lines[n])]
      n == SelectInSeq(kvs, LAMBDA kv : kv # << >> /\ Head(kv) = <<KEY>>)
  IN n # 0 /\ kvs[n][2] = pw

(* The owner can log in with the password that was set if and only if it has no
   line end or CR, no blanks at its ends, and fits the line (an empty one would do,
   but is never set). *)
PasswordWorks ==
  kind = "conf" =>
    (user_check_password(ConfText(in), in) <=>
       /\ NL \notin ToSet(in) /\ CR \notin ToSet(in)
       /\ in # << >> => Head(in) # BL /\ Last(in) # BL
       /\ Len(in) + 4 < LINE)
-----------------------------------------------------------------------------
Alphabet ==
  [jid |-> {"a", "b", "@", "/"},
   sasl |-> {NUL, 97, 251},
   conf |-> {"a", "=", "#", BL, NL, CR, KEY}]

Init == kind \in DOMAIN Alphabet /\ in = << >>

(* One more symbol *)
Next ==
  /\ Len(in) < MaxLen[kind]
  /\ \E x \in Alphabet[kind] : in' = Append(in, x)
  /\ UNCHANGED kind

Spec == Init /\ [][Next]_vars
=============================================================================
