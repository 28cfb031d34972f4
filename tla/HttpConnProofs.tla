--------------------------- MODULE HttpConnProofs ---------------------------
(***************************************************************************)
(* Proofs about one HTTP connection, for any messages, any cut of the      *)
(* input and of the output, any sizes of the buffers and both trigger      *)
(* modes: a request is parsed as it was sent, answered by the route that   *)
(* names the most of its path, and a file arrives whole behind headers     *)
(* that left in one piece.                                                 *)
(***************************************************************************)
EXTENDS HttpConn, FiniteSetTheorems, SequenceTheorems, WellFoundedInduction, TLAPS

-----------------------------------------------------------------------------
(* Numbers and sequences *)

(* A set of numbers has a least one. *)
LEMMA Least ==
  ASSUME NEW T, T \subseteq Nat, T # {}
  PROVE  \E m \in T : \A k \in T : m <= k
<1> DEFINE R == {p \in Nat \X Nat : p[1] < p[2]}
<1>1. IsWellFoundedOn(OpToRel(<, Nat), Nat)
  BY NatLessThanWellFounded
<1>2. R = OpToRel(<, Nat)
  BY Zenon DEF OpToRel
<1>3. IsWellFoundedOn(R, Nat)
  BY <1>1, <1>2, Zenon
<1>4. \E x \in T : \A y \in T : ~ (<<y, x>> \in R)
  <2> HIDE DEF R
  <2> QED
    BY <1>3, WFMin
<1>5. PICK x \in T : \A y \in T : ~ (<<y, x>> \in R)
  BY <1>4
<1>6. ASSUME NEW y \in T PROVE x <= y
  <2>1. x \in Nat /\ y \in Nat
    OBVIOUS
  <2>2. ~ (<<y, x>> \in R)
    BY <1>5
  <2> QED
    BY <2>1, <2>2
<1> QED
  BY <1>6

(* A set that has 0, and with every number the next, has all of them. *)
LEMMA SetInduction ==
  ASSUME NEW S, 0 \in S, \A n \in Nat : n \in S => n + 1 \in S
  PROVE  Nat \subseteq S
<1> SUFFICES ASSUME Nat \ S # {} PROVE FALSE
  OBVIOUS
<1>1. PICK m \in Nat \ S : \A k \in Nat \ S : m <= k
  BY Least
<1>2. m # 0 /\ m - 1 \in Nat
  BY <1>1
<1>3. m - 1 \in S
  BY <1>1, <1>2
<1> QED
  BY <1>1, <1>2, <1>3

(* A sequence behind another. *)
LEMMA Joined ==
  ASSUME NEW S, NEW a \in Seq(S), NEW b \in Seq(S)
  PROVE  /\ a \o b \in Seq(S) /\ Len(a \o b) = Len(a) + Len(b)
         /\ \A p \in 1 .. Len(a) : (a \o b)[p] = a[p]
         /\ \A p \in 1 .. Len(b) : (a \o b)[Len(a) + p] = b[p]
  OBVIOUS

(* The equation of FlattenSeq's recursive function. *)
FlatEq(f, s, n) == f = [i \in 1 .. n |-> IF i = 1 THEN s[i] ELSE f[i - 1] \o s[i]]

(* It has a solution. *)
LEMMA FlatExists ==
  ASSUME NEW s, NEW n \in Nat
  PROVE  \E f : FlatEq(f, s, n)
<1> DEFINE S == {k \in Nat : \E f : FlatEq(f, s, k)}
<1>1. 0 \in S
  <2>1. FlatEq([i \in 1 .. 0 |-> i], s, 0)
    BY DEF FlatEq
  <2> QED
    BY <2>1
<1>2. ASSUME NEW k \in Nat, k \in S PROVE k + 1 \in S
  <2>1. PICK f : FlatEq(f, s, k)
    BY <1>2
  <2>2. \A i \in 1 .. k : f[i] = IF i = 1 THEN s[i] ELSE f[i - 1] \o s[i]
    BY <2>1 DEF FlatEq
  <2> DEFINE g == [i \in 1 .. k + 1 |->
                     IF i = k + 1 THEN (IF i = 1 THEN s[i] ELSE f[k] \o s[i]) ELSE f[i]]
  <2>3. ASSUME NEW i \in 1 .. k + 1 PROVE g[i] = IF i = 1 THEN s[i] ELSE g[i - 1] \o s[i]
    <3>1. CASE i = k + 1
      <4>1. g[i] = IF i = 1 THEN s[i] ELSE f[k] \o s[i]
        BY <3>1
      <4>2. i # 1 => g[i - 1] = f[k]
        BY <3>1
      <4> HIDE DEF g
      <4> QED
        BY <4>1, <4>2
    <3>2. CASE i # k + 1
      <4>1. i \in 1 .. k /\ g[i] = f[i]
        BY <3>2
      <4>2. i # 1 => g[i - 1] = f[i - 1]
        BY <3>2
      <4> HIDE DEF g
      <4> QED
        BY <4>1, <4>2, <2>2
    <3> QED
      BY <3>1, <3>2
  <2>4. g = [i \in 1 .. k + 1 |-> IF i = 1 THEN s[i] ELSE g[i - 1] \o s[i]]
    BY <2>3
  <2>5. FlatEq(g, s, k + 1)
    <3> HIDE DEF g
    <3> QED
      BY <2>4 DEF FlatEq
  <2> HIDE DEF g
  <2> QED
    BY <2>5
<1> HIDE DEF S
<1>3. n \in S
  BY <1>1, <1>2, SetInduction
<1> QED
  BY <1>3 DEF S

(* FlattenSeq computes it. *)
LEMMA FlatDef ==
  ASSUME NEW s, Len(s) \in Nat \ {0}
  PROVE  \E f : FlatEq(f, s, Len(s)) /\ FlattenSeq(s) = f[Len(s)]
<1> DEFINE F == CHOOSE f : f = [i \in 1 .. Len(s) |-> IF i = 1 THEN s[i] ELSE f[i - 1] \o s[i]]
<1>1. FlatEq(F, s, Len(s))
  BY FlatExists DEF FlatEq
<1>2. FlattenSeq(s) = F[Len(s)]
  BY DEF FlattenSeq
<1> HIDE DEF F
<1> QED
  BY <1>1, <1>2, SMTT(30)

(* Pieces of three elements each, one behind the other. *)
LEMMA FlattenThrees ==
  ASSUME NEW S, NEW s \in Seq(Seq(S)), \A i \in 1 .. Len(s) : Len(s[i]) = 3
  PROVE  /\ FlattenSeq(s) \in Seq(S)
         /\ Len(FlattenSeq(s)) = 3 * Len(s)
         /\ \A i \in 1 .. Len(s), j \in 1 .. 3 : FlattenSeq(s)[3 * (i - 1) + j] = s[i][j]
<1>0. Len(s) \in Nat /\ \A i \in 1 .. Len(s) : s[i] \in Seq(S)
  BY LenProperties, ElementOfSeq
<1>1. CASE Len(s) = 0
  <2>1. FlattenSeq(s) = s
    BY <1>1 DEF FlattenSeq
  <2>2. s = << >>
    BY <1>1
  <2>3. << >> \in Seq(S) /\ Len(<< >>) = 0
    OBVIOUS
  <2> QED
    BY <1>1, <2>1, <2>2, <2>3
<1>2. CASE Len(s) # 0
  <2>1. PICK f : FlatEq(f, s, Len(s)) /\ FlattenSeq(s) = f[Len(s)]
    BY <1>0, <1>2, FlatDef
  <2>2. \A i \in 1 .. Len(s) : f[i] = IF i = 1 THEN s[i] ELSE f[i - 1] \o s[i]
    BY <2>1 DEF FlatEq
  <2> DEFINE Right(k) == /\ f[k] \in Seq(S) /\ Len(f[k]) = 3 * k
                         /\ \A i \in 1 .. k, j \in 1 .. 3 : f[k][3 * (i - 1) + j] = s[i][j]
             G == {k \in Nat : k \in 1 .. Len(s) => Right(k)}
  <2>3. 0 \in G
    OBVIOUS
  <2>4. ASSUME NEW k \in Nat, k \in G PROVE k + 1 \in G
    <3> HIDE DEF Right
    <3> SUFFICES ASSUME k + 1 \in 1 .. Len(s) PROVE Right(k + 1)
      OBVIOUS
    <3>1. s[k + 1] \in Seq(S) /\ Len(s[k + 1]) = 3
      BY <1>0
    <3>2. CASE k = 0
      <4>1. f[k + 1] = s[k + 1]
        BY <2>2, <3>2
      <4>2. \A i \in 1 .. k + 1, j \in 1 .. 3 : i = 1 /\ 3 * (i - 1) + j = j
        BY <3>2
      <4> QED
        BY <3>1, <3>2, <4>1, <4>2 DEF Right
    <3>3. CASE k # 0
      <4>a. Right(k)
        BY <1>0, <2>4, <3>3
      <4>b. k + 1 # 1 /\ (k + 1) - 1 = k
        BY <3>3
      <4>0. Right(k) /\ f[k + 1] = f[k] \o s[k + 1]
        BY <2>2, <4>a, <4>b
      <4>1. /\ f[k] \in Seq(S) /\ Len(f[k]) = 3 * k
            /\ \A i \in 1 .. k, j \in 1 .. 3 : f[k][3 * (i - 1) + j] = s[i][j]
            /\ f[k + 1] = f[k] \o s[k + 1]
        BY <4>0 DEF Right
      <4> DEFINE a == f[k]
                 b == s[k + 1]
      <4>c. /\ a \o b \in Seq(S) /\ Len(a \o b) = Len(a) + Len(b)
            /\ \A p \in 1 .. Len(a) : (a \o b)[p] = a[p]
            /\ \A p \in 1 .. Len(b) : (a \o b)[Len(a) + p] = b[p]
        <5>1. a \in Seq(S) /\ b \in Seq(S)
          BY <3>1, <4>1
        <5> HIDE DEF a, b
        <5> QED
          BY <5>1, Joined
      <4>2. f[k + 1] \in Seq(S) /\ Len(f[k + 1]) = 3 * (k + 1)
        BY <3>1, <4>1, <4>c
      <4>3. ASSUME NEW i \in 1 .. k + 1, NEW j \in 1 .. 3
            PROVE  f[k + 1][3 * (i - 1) + j] = s[i][j]
        <5>1. CASE i = k + 1
          <6>1. 3 * (i - 1) + j = Len(f[k]) + j
            BY <4>1, <5>1
          <6> QED
            BY <3>1, <4>1, <4>c, <5>1, <6>1
        <5>2. CASE i # k + 1
          <6>1. i \in 1 .. k /\ 3 * (i - 1) + j \in 1 .. Len(f[k])
            BY <4>1, <5>2
          <6> QED
            BY <4>1, <4>c, <6>1
        <5> QED
          BY <5>1, <5>2
      <4> QED
        BY <4>2, <4>3 DEF Right
    <3> QED
      BY <3>2, <3>3
  <2> HIDE DEF G, Right
  <2>5. Len(s) \in G
    BY <1>0, <2>3, <2>4, SetInduction
  <2>6. Right(Len(s))
    BY <1>0, <1>2, <2>5 DEF G
  <2> QED
    BY <2>1, <2>6 DEF Right
<1> QED
  BY <1>1, <1>2

(* The elements of what is flattened are those of the pieces. *)
LEMMA FlattenType ==
  ASSUME NEW S, NEW s \in Seq(Seq(S))
  PROVE  FlattenSeq(s) \in Seq(S)
<1>0. Len(s) \in Nat /\ \A i \in 1 .. Len(s) : s[i] \in Seq(S)
  BY LenProperties, ElementOfSeq
<1>1. CASE Len(s) = 0
  <2>1. FlattenSeq(s) = s
    BY <1>1 DEF FlattenSeq
  <2>2. s = << >> /\ << >> \in Seq(S)
    BY <1>1
  <2> QED
    BY <2>1, <2>2
<1>2. CASE Len(s) # 0
  <2>1. PICK f : FlatEq(f, s, Len(s)) /\ FlattenSeq(s) = f[Len(s)]
    BY <1>0, <1>2, FlatDef
  <2>2. \A i \in 1 .. Len(s) : f[i] = IF i = 1 THEN s[i] ELSE f[i - 1] \o s[i]
    BY <2>1 DEF FlatEq
  <2> DEFINE G == {k \in Nat : k \in 1 .. Len(s) => f[k] \in Seq(S)}
  <2>3. 0 \in G
    OBVIOUS
  <2>4. ASSUME NEW k \in Nat, k \in G PROVE k + 1 \in G
    <3> SUFFICES ASSUME k + 1 \in 1 .. Len(s) PROVE f[k + 1] \in Seq(S)
      OBVIOUS
    <3>1. s[k + 1] \in Seq(S)
      BY <1>0
    <3>2. CASE k = 0
      BY <2>2, <3>1, <3>2
    <3>3. CASE k # 0
      <4>1. f[k] \in Seq(S)
        BY <1>0, <2>4, <3>3
      <4>2. k + 1 # 1 /\ (k + 1) - 1 = k
        BY <3>3
      <4>3. f[k + 1] = f[k] \o s[k + 1]
        BY <2>2, <4>2
      <4> DEFINE a == f[k]
                 b == s[k + 1]
      <4>4. a \o b \in Seq(S)
        <5>1. a \in Seq(S) /\ b \in Seq(S)
          BY <3>1, <4>1
        <5> HIDE DEF a, b
        <5> QED
          BY <5>1, Joined
      <4> QED
        BY <4>3, <4>4
    <3> QED
      BY <3>2, <3>3
  <2> HIDE DEF G
  <2>5. Len(s) \in G
    BY <1>0, <2>3, <2>4, SetInduction
  <2> QED
    BY <1>0, <1>2, <2>1, <2>5 DEF G
<1> QED
  BY <1>1, <1>2

-----------------------------------------------------------------------------
(* The text of a message *)

Symbols == {"line", "CR", "LF", "NUL", "x"} \cup Headers

(* Where the empty line of m starts, and where its body does. *)
HeadEnd(m) == 3 * (Len(m.headers) + 1)
BodyStart(m) == HeadEnd(m) + 2

(* The fields of a message. *)
LEMMA MessageFacts ==
  ASSUME NEW m \in Messages
  PROVE  /\ m.headers \in Seq(Headers) /\ Len(m.headers) \in Nat
         /\ \A i \in 1 .. Len(m.headers) : m.headers[i] \in Headers
         /\ m.body \in Seq({"x", "CR", "LF"}) /\ Len(m.body) \in Nat
         /\ m.length \in Int /\ m.crlf \in BOOLEAN
         /\ m.path.parts \in Seq(STRING) /\ m.path.plain \in BOOLEAN
<1>1. m \in [method : STRING, path : [parts : Seq(STRING), plain : BOOLEAN],
             headers : Seq(Headers), body : Seq({"x", "CR", "LF"}),
             length : Int, crlf : BOOLEAN]
  BY HttpAssumption
<1>2. /\ m.headers \in Seq(Headers) /\ m.body \in Seq({"x", "CR", "LF"})
      /\ m.length \in Int /\ m.crlf \in BOOLEAN
      /\ m.path \in [parts : Seq(STRING), plain : BOOLEAN]
  BY <1>1
<1> QED
  BY <1>2, LenProperties, ElementOfSeq

(* The end of a line. *)
LEMMA EolType ==
  ASSUME NEW m \in Messages
  PROVE  Eol(m) \in Seq(Symbols) /\ <<"line">> \in Seq(Symbols)
         /\ <<"CR", "LF">> \in Seq(Symbols)
<1>1. {"CR", "LF", "line"} \subseteq Symbols
  BY DEF Symbols
<1>2. /\ <<"CR", "LF">> \in Seq(Symbols) /\ <<"LF">> \in Seq(Symbols)
      /\ <<"line">> \in Seq(Symbols)
  BY <1>1
<1>3. CASE m.crlf
  BY <1>2, <1>3 DEF Eol
<1>4. CASE ~ m.crlf
  BY <1>2, <1>4 DEF Eol
<1> QED
  BY <1>3, <1>4

(* The lines of headers. *)
LEMMA HeaderLines ==
  ASSUME NEW m \in Messages
  PROVE  [i \in DOMAIN m.headers |-> <<m.headers[i]>> \o Eol(m)] \in Seq(Seq(Symbols))
<1> DEFINE h == Len(m.headers)
           lines == [i \in 1 .. h |-> <<m.headers[i]>> \o Eol(m)]
<1>1. h \in Nat /\ DOMAIN m.headers = 1 .. h /\ \A i \in 1 .. h : m.headers[i] \in Symbols
  BY MessageFacts, LenProperties DEF Symbols
<1>2. Eol(m) \in Seq(Symbols)
  BY EolType
<1>3. ASSUME NEW i \in 1 .. h PROVE <<m.headers[i]>> \o Eol(m) \in Seq(Symbols)
  <2>1. <<m.headers[i]>> \in Seq(Symbols)
    BY <1>1
  <2> QED
    BY <1>2, <2>1, Joined
<1> HIDE DEF h
<1>4. lines \in Seq(Seq(Symbols))
  BY <1>1, <1>3, IsASeq
<1> QED
  BY <1>1, <1>4

(* A text is made of symbols. *)
LEMMA TextType ==
  ASSUME NEW m \in Messages
  PROVE  Text(m) \in Seq(Symbols)
<1> DEFINE flat == FlattenSeq([i \in DOMAIN m.headers |-> <<m.headers[i]>> \o Eol(m)])
<1>1. flat \in Seq(Symbols)
  BY HeaderLines, FlattenType
<1>2. Eol(m) \in Seq(Symbols) /\ <<"line">> \in Seq(Symbols)
  BY EolType
<1>3. m.body \in Seq(Symbols)
  <2>1. {"x", "CR", "LF"} \subseteq Symbols
    BY DEF Symbols
  <2> QED
    BY <2>1, MessageFacts, SeqMonotonic
<1> HIDE DEF flat
<1>4. Text(m) = (((<<"line">> \o Eol(m)) \o flat) \o Eol(m)) \o m.body
  BY DEF Text, flat
<1>5. <<"line">> \o Eol(m) \in Seq(Symbols)
  BY <1>2, Joined
<1>6. (<<"line">> \o Eol(m)) \o flat \in Seq(Symbols)
  BY <1>1, <1>5, Joined
<1>7. ((<<"line">> \o Eol(m)) \o flat) \o Eol(m) \in Seq(Symbols)
  BY <1>2, <1>6, Joined
<1> QED
  BY <1>3, <1>4, <1>7, Joined

(* Symbol by symbol, when its lines end in CR LF. *)
LEMMA TextFacts ==
  ASSUME NEW m \in Messages, m.crlf
  PROVE  /\ Text(m) \in Seq(Symbols) /\ Len(Text(m)) = BodyStart(m) + Len(m.body)
         /\ Text(m)[1] = "line" /\ Text(m)[2] = "CR" /\ Text(m)[3] = "LF"
         /\ \A i \in 1 .. Len(m.headers) :
              /\ Text(m)[3 * i + 1] = m.headers[i]
              /\ Text(m)[3 * i + 2] = "CR" /\ Text(m)[3 * i + 3] = "LF"
         /\ Text(m)[HeadEnd(m) + 1] = "CR" /\ Text(m)[HeadEnd(m) + 2] = "LF"
         /\ \A i \in 1 .. Len(m.body) : Text(m)[BodyStart(m) + i] = m.body[i]
<1> DEFINE h == Len(m.headers)
           lines == [i \in DOMAIN m.headers |-> <<m.headers[i]>> \o Eol(m)]
           flat == FlattenSeq(lines)
           eol == <<"CR", "LF">>
           first == <<"line">> \o eol
           front == first \o flat
           head == front \o eol
<1>1. h \in Nat /\ DOMAIN m.headers = 1 .. h /\ \A i \in 1 .. h : m.headers[i] \in Symbols
  BY MessageFacts, LenProperties DEF Symbols
<1>2. Eol(m) = eol /\ eol \in Seq(Symbols) /\ <<"line">> \in Seq(Symbols)
  <2>1. Eol(m) = eol
    BY DEF Eol
  <2> QED
    BY <2>1, EolType
<1>3. lines \in Seq(Seq(Symbols)) /\ Len(lines) = h
  <2>1. lines \in Seq(Seq(Symbols))
    BY HeaderLines
  <2>2. DOMAIN lines = 1 .. h
    BY <1>1
  <2> QED
    BY <1>1, <2>1, <2>2, LenProperties
<1>4. \A i \in 1 .. h : /\ Len(lines[i]) = 3
                         /\ lines[i][1] = m.headers[i] /\ lines[i][2] = "CR" /\ lines[i][3] = "LF"
  <2> SUFFICES ASSUME NEW i \in 1 .. h
               PROVE  /\ Len(lines[i]) = 3
                      /\ lines[i][1] = m.headers[i] /\ lines[i][2] = "CR" /\ lines[i][3] = "LF"
    OBVIOUS
  <2>1. lines[i] = <<m.headers[i]>> \o eol
    BY <1>1, <1>2
  <2> HIDE DEF lines
  <2> QED
    BY <2>1
<1>5. m.body \in Seq(Symbols) /\ Len(m.body) \in Nat
  <2>1. {"x", "CR", "LF"} \subseteq Symbols
    BY DEF Symbols
  <2> QED
    BY <2>1, MessageFacts, SeqMonotonic
<1>6. /\ flat \in Seq(Symbols) /\ Len(flat) = 3 * h
      /\ \A i \in 1 .. h, j \in 1 .. 3 : flat[3 * (i - 1) + j] = lines[i][j]
  <2>1. \A i \in 1 .. Len(lines) : Len(lines[i]) = 3
    <3> HIDE DEF lines, h
    <3> QED
      BY <1>3, <1>4
  <2> HIDE DEF lines, h
  <2>2. /\ flat \in Seq(Symbols) /\ Len(flat) = 3 * Len(lines)
        /\ \A i \in 1 .. Len(lines), j \in 1 .. 3 : flat[3 * (i - 1) + j] = lines[i][j]
    <3>1. lines \in Seq(Seq(Symbols))
      BY <1>3
    <3> QED
      BY <2>1, <3>1, FlattenThrees
  <2> HIDE DEF flat
  <2> QED
    BY <1>3, <2>2
<1>7. Text(m) = head \o m.body
  BY <1>2 DEF Text
<1>8. /\ first \in Seq(Symbols) /\ Len(first) = 3
      /\ first[1] = "line" /\ first[2] = "CR" /\ first[3] = "LF"
  BY <1>2
<1>a. Len(eol) = 2 /\ eol[1] = "CR" /\ eol[2] = "LF"
  OBVIOUS
<1> HIDE DEF h, lines, flat, first, eol
<1>9. /\ front \in Seq(Symbols) /\ Len(front) = 3 * (h + 1)
      /\ \A p \in 1 .. 3 : front[p] = first[p]
      /\ \A p \in 1 .. Len(flat) : front[3 + p] = flat[p]
  <2>1. /\ front \in Seq(Symbols) /\ Len(front) = Len(first) + Len(flat)
        /\ \A p \in 1 .. Len(first) : front[p] = first[p]
        /\ \A p \in 1 .. Len(flat) : front[Len(first) + p] = flat[p]
    <3>1. first \in Seq(Symbols) /\ flat \in Seq(Symbols)
      BY <1>6, <1>8
    <3> QED
      BY <3>1, Joined
  <2> HIDE DEF front
  <2> QED
    BY <1>1, <1>6, <1>8, <2>1
<1> HIDE DEF front
<1>10. /\ head \in Seq(Symbols) /\ Len(head) = 3 * (h + 1) + 2
       /\ \A p \in 1 .. 3 * (h + 1) : head[p] = front[p]
       /\ head[3 * (h + 1) + 1] = "CR" /\ head[3 * (h + 1) + 2] = "LF"
  <2>1. /\ head \in Seq(Symbols) /\ Len(head) = Len(front) + Len(eol)
        /\ \A p \in 1 .. Len(front) : head[p] = front[p]
        /\ \A p \in 1 .. Len(eol) : head[Len(front) + p] = eol[p]
    <3>1. front \in Seq(Symbols) /\ eol \in Seq(Symbols)
      BY <1>2, <1>9
    <3> QED
      BY <3>1, Joined
  <2> HIDE DEF head
  <2>2. 1 \in 1 .. Len(eol) /\ 2 \in 1 .. Len(eol)
    BY <1>a
  <2> QED
    BY <1>1, <1>9, <1>a, <2>1, <2>2
<1> HIDE DEF head
<1>11. /\ Text(m) \in Seq(Symbols) /\ Len(Text(m)) = 3 * (h + 1) + 2 + Len(m.body)
       /\ \A p \in 1 .. 3 * (h + 1) + 2 : Text(m)[p] = head[p]
       /\ \A p \in 1 .. Len(m.body) : Text(m)[3 * (h + 1) + 2 + p] = m.body[p]
  <2> DEFINE body == m.body
             t == Text(m)
  <2>0. body \in Seq(Symbols) /\ Len(body) \in Nat /\ t = head \o body
    BY <1>5, <1>7
  <2> HIDE DEF body, t
  <2>1. /\ t \in Seq(Symbols) /\ Len(t) = Len(head) + Len(body)
        /\ \A p \in 1 .. Len(head) : t[p] = head[p]
        /\ \A p \in 1 .. Len(body) : t[Len(head) + p] = body[p]
    BY <2>0, <1>10, Joined, SMTT(30)
  <2>2. /\ t \in Seq(Symbols) /\ Len(t) = 3 * (h + 1) + 2 + Len(body)
        /\ \A p \in 1 .. 3 * (h + 1) + 2 : t[p] = head[p]
        /\ \A p \in 1 .. Len(body) : t[3 * (h + 1) + 2 + p] = body[p]
    BY <1>1, <1>10, <2>1
  <2> QED
    BY <2>2 DEF body, t
<1>12. HeadEnd(m) = 3 * (h + 1) /\ BodyStart(m) = 3 * (h + 1) + 2
  BY DEF HeadEnd, BodyStart, h
<1>13. Text(m)[1] = "line" /\ Text(m)[2] = "CR" /\ Text(m)[3] = "LF"
  <2>1. \A p \in 1 .. 3 : p \in 1 .. 3 * (h + 1) /\ p \in 1 .. 3 * (h + 1) + 2
    BY <1>1
  <2>2. \A p \in 1 .. 3 : Text(m)[p] = first[p]
    BY <1>9, <1>10, <1>11, <2>1
  <2>3. 1 \in 1 .. 3 /\ 2 \in 1 .. 3 /\ 3 \in 1 .. 3
    OBVIOUS
  <2> QED
    BY <1>8, <2>2, <2>3
<1>14. ASSUME NEW i \in 1 .. h, NEW j \in 1 .. 3
       PROVE  Text(m)[3 * i + j] = lines[i][j]
  <2>1. 3 * (i - 1) + j \in 1 .. Len(flat) /\ 3 + (3 * (i - 1) + j) = 3 * i + j
    BY <1>1, <1>6, SMTT(30)
  <2>2. 3 * i + j \in 1 .. 3 * (h + 1)
    BY <1>1
  <2>3. front[3 * i + j] = flat[3 * (i - 1) + j]
    BY <1>9, <2>1
  <2>4. head[3 * i + j] = front[3 * i + j]
    BY <1>10, <2>2
  <2>5. 3 * i + j \in 1 .. 3 * (h + 1) + 2
    BY <1>1, <2>2
  <2> QED
    BY <1>6, <1>11, <2>3, <2>4, <2>5
<1>15. ASSUME NEW i \in 1 .. h
       PROVE  /\ Text(m)[3 * i + 1] = m.headers[i]
              /\ Text(m)[3 * i + 2] = "CR" /\ Text(m)[3 * i + 3] = "LF"
  <2>1. 1 \in 1 .. 3 /\ 2 \in 1 .. 3 /\ 3 \in 1 .. 3
    OBVIOUS
  <2> QED
    BY <1>4, <1>14, <2>1
<1>16. Text(m)[3 * (h + 1) + 1] = "CR" /\ Text(m)[3 * (h + 1) + 2] = "LF"
  <2>1. /\ 3 * (h + 1) + 1 \in 1 .. 3 * (h + 1) + 2
        /\ 3 * (h + 1) + 2 \in 1 .. 3 * (h + 1) + 2
    BY <1>1
  <2> QED
    BY <1>10, <1>11, <2>1
<1> QED
  BY <1>11, <1>12, <1>13, <1>15, <1>16 DEF h

-----------------------------------------------------------------------------
(* The routes *)

(* The places of the routes with a parameter, and of the exact ones. *)
WithParam == {5, 7, 9, 12, 13, 16, 17}
Exact == {1, 2, 3, 4, 6, 8, 10, 11, 14, 15}

ParamsAt(r) == {k \in DOMAIN r.parts : IsParam(r.parts[k])}

(* The literal segments. *)
Words == {"api", "health", "live", "ready", "books", "search", "similar", "auth", "register",
          "login", "inventory", "inbound", "orders", "cancel"}

(* No literal segment of a route is a parameter. *)
LEMMA Segments == \A s \in Words : s # BookId /\ s # OrderId
  BY Zenon DEF Words, BookId, OrderId

(* The table row by row: a route has one parameter or none, and two routes *)
(* of one kind never fit the same path.                                    *)
LEMMA RouteTable ==
  ASSUME NEW method, NEW path
  PROVE  /\ \A i \in WithParam : ParamsAt(Routes[i]) \in {{3}, {4}}
         /\ \A i \in Exact : ParamsAt(Routes[i]) = {} /\ Routes[i].parts \in Seq(Words)
         /\ \A i, j \in WithParam :
              Fits(Routes[i], method, path) /\ Fits(Routes[j], method, path) => i = j
         /\ \A i, j \in Exact :
              Fits(Routes[i], method, path) /\ Fits(Routes[j], method, path) => i = j
<1> DEFINE parts == path.parts
           fit == {i \in 1 .. 17 : Fits(Routes[i], method, path)}
           seqs == {i \in 1 .. 17 : Routes[i].parts \in Seq(Words)}
           at == [i \in 1 .. 17 |-> ParamsAt(Routes[i])]
<1>1. /\ at[1] = {}
      /\ 1 \in fit => method = "Get" /\ Len(parts) = 2 /\ parts[2] = "health"
      /\ 1 \in seqs
  <2> DEFINE r == Routes[1]
  <2>1. r.method = "Get" /\ r.parts = <<"api", "health">>
    BY DEF Routes, Get, Post, Patch
  <2> HIDE DEF r
  <2>4. r.parts \in Seq(Words)
    BY <2>1 DEF Words
  <2>2. ParamsAt(r) = {}
    BY <2>1, Segments DEF IsParam, ParamsAt, Words
  <2>3. Fits(r, method, path) => method = "Get" /\ Len(parts) = 2 /\ parts[2] = "health"
    BY <2>1, Segments DEF Fits, IsParam, Words
  <2> QED
    BY <2>2, <2>3, <2>4 DEF r
<1>2. /\ at[2] = {}
      /\ 2 \in fit => method = "Get" /\ Len(parts) = 2 /\ parts[2] = "live"
      /\ 2 \in seqs
  <2> DEFINE r == Routes[2]
  <2>1. r.method = "Get" /\ r.parts = <<"api", "live">>
    BY DEF Routes, Get, Post, Patch
  <2> HIDE DEF r
  <2>4. r.parts \in Seq(Words)
    BY <2>1 DEF Words
  <2>2. ParamsAt(r) = {}
    BY <2>1, Segments DEF IsParam, ParamsAt, Words
  <2>3. Fits(r, method, path) => method = "Get" /\ Len(parts) = 2 /\ parts[2] = "live"
    BY <2>1, Segments DEF Fits, IsParam, Words
  <2> QED
    BY <2>2, <2>3, <2>4 DEF r
<1>3. /\ at[3] = {}
      /\ 3 \in fit => method = "Get" /\ Len(parts) = 2 /\ parts[2] = "ready"
      /\ 3 \in seqs
  <2> DEFINE r == Routes[3]
  <2>1. r.method = "Get" /\ r.parts = <<"api", "ready">>
    BY DEF Routes, Get, Post, Patch
  <2> HIDE DEF r
  <2>4. r.parts \in Seq(Words)
    BY <2>1 DEF Words
  <2>2. ParamsAt(r) = {}
    BY <2>1, Segments DEF IsParam, ParamsAt, Words
  <2>3. Fits(r, method, path) => method = "Get" /\ Len(parts) = 2 /\ parts[2] = "ready"
    BY <2>1, Segments DEF Fits, IsParam, Words
  <2> QED
    BY <2>2, <2>3, <2>4 DEF r
<1>4. /\ at[4] = {}
      /\ 4 \in fit => method = "Get" /\ Len(parts) = 2 /\ parts[2] = "books"
      /\ 4 \in seqs
  <2> DEFINE r == Routes[4]
  <2>1. r.method = "Get" /\ r.parts = <<"api", "books">>
    BY DEF Routes, Get, Post, Patch
  <2> HIDE DEF r
  <2>4. r.parts \in Seq(Words)
    BY <2>1 DEF Words
  <2>2. ParamsAt(r) = {}
    BY <2>1, Segments DEF IsParam, ParamsAt, Words
  <2>3. Fits(r, method, path) => method = "Get" /\ Len(parts) = 2 /\ parts[2] = "books"
    BY <2>1, Segments DEF Fits, IsParam, Words
  <2> QED
    BY <2>2, <2>3, <2>4 DEF r
<1>5. /\ at[5] = {3}
      /\ 5 \in fit => method = "Get" /\ Len(parts) = 3 /\ parts[2] = "books"
  <2> DEFINE r == Routes[5]
  <2>1. r.method = "Get" /\ r.parts = <<"api", "books", BookId>>
    BY DEF Routes, Get, Post, Patch
  <2> HIDE DEF r
  <2>2. ParamsAt(r) = {3}
    BY <2>1, Segments DEF IsParam, ParamsAt, Words
  <2>3. Fits(r, method, path) => method = "Get" /\ Len(parts) = 3 /\ parts[2] = "books"
    BY <2>1, Segments DEF Fits, IsParam, Words
  <2> QED
    BY <2>2, <2>3 DEF r
<1>6. /\ at[6] = {}
      /\ 6 \in fit => method = "Post" /\ Len(parts) = 2 /\ parts[2] = "books"
      /\ 6 \in seqs
  <2> DEFINE r == Routes[6]
  <2>1. r.method = "Post" /\ r.parts = <<"api", "books">>
    BY DEF Routes, Get, Post, Patch
  <2> HIDE DEF r
  <2>4. r.parts \in Seq(Words)
    BY <2>1 DEF Words
  <2>2. ParamsAt(r) = {}
    BY <2>1, Segments DEF IsParam, ParamsAt, Words
  <2>3. Fits(r, method, path) => method = "Post" /\ Len(parts) = 2 /\ parts[2] = "books"
    BY <2>1, Segments DEF Fits, IsParam, Words
  <2> QED
    BY <2>2, <2>3, <2>4 DEF r
<1>7. /\ at[7] = {3}
      /\ 7 \in fit => method = "Patch" /\ Len(parts) = 3 /\ parts[2] = "books"
  <2> DEFINE r == Routes[7]
  <2>1. r.method = "Patch" /\ r.parts = <<"api", "books", BookId>>
    BY DEF Routes, Get, Post, Patch
  <2> HIDE DEF r
  <2>2. ParamsAt(r) = {3}
    BY <2>1, Segments DEF IsParam, ParamsAt, Words
  <2>3. Fits(r, method, path) => method = "Patch" /\ Len(parts) = 3 /\ parts[2] = "books"
    BY <2>1, Segments DEF Fits, IsParam, Words
  <2> QED
    BY <2>2, <2>3 DEF r
<1>8. /\ at[8] = {}
      /\ 8 \in fit => method = "Get" /\ Len(parts) = 3 /\ parts[2] = "books" /\ parts[3] = "search"
      /\ 8 \in seqs
  <2> DEFINE r == Routes[8]
  <2>1. r.method = "Get" /\ r.parts = <<"api", "books", "search">>
    BY DEF Routes, Get, Post, Patch
  <2> HIDE DEF r
  <2>4. r.parts \in Seq(Words)
    BY <2>1 DEF Words
  <2>2. ParamsAt(r) = {}
    BY <2>1, Segments DEF IsParam, ParamsAt, Words
  <2>3. Fits(r, method, path) => method = "Get" /\ Len(parts) = 3 /\ parts[2] = "books" /\ parts[3] = "search"
    BY <2>1, Segments DEF Fits, IsParam, Words
  <2> QED
    BY <2>2, <2>3, <2>4 DEF r
<1>9. /\ at[9] = {3}
      /\ 9 \in fit => method = "Get" /\ Len(parts) = 4 /\ parts[2] = "books"
  <2> DEFINE r == Routes[9]
  <2>1. r.method = "Get" /\ r.parts = <<"api", "books", BookId, "similar">>
    BY DEF Routes, Get, Post, Patch
  <2> HIDE DEF r
  <2>2. ParamsAt(r) = {3}
    BY <2>1, Segments DEF IsParam, ParamsAt, Words
  <2>3. Fits(r, method, path) => method = "Get" /\ Len(parts) = 4 /\ parts[2] = "books"
    BY <2>1, Segments DEF Fits, IsParam, Words
  <2> QED
    BY <2>2, <2>3 DEF r
<1>10. /\ at[10] = {}
       /\ 10 \in fit => method = "Post" /\ Len(parts) = 3 /\ parts[2] = "auth" /\ parts[3] = "register"
       /\ 10 \in seqs
  <2> DEFINE r == Routes[10]
  <2>1. r.method = "Post" /\ r.parts = <<"api", "auth", "register">>
    BY DEF Routes, Get, Post, Patch
  <2> HIDE DEF r
  <2>4. r.parts \in Seq(Words)
    BY <2>1 DEF Words
  <2>2. ParamsAt(r) = {}
    BY <2>1, Segments DEF IsParam, ParamsAt, Words
  <2>3. Fits(r, method, path) => method = "Post" /\ Len(parts) = 3 /\ parts[2] = "auth" /\ parts[3] = "register"
    BY <2>1, Segments DEF Fits, IsParam, Words
  <2> QED
    BY <2>2, <2>3, <2>4 DEF r
<1>11. /\ at[11] = {}
       /\ 11 \in fit => method = "Post" /\ Len(parts) = 3 /\ parts[2] = "auth" /\ parts[3] = "login"
       /\ 11 \in seqs
  <2> DEFINE r == Routes[11]
  <2>1. r.method = "Post" /\ r.parts = <<"api", "auth", "login">>
    BY DEF Routes, Get, Post, Patch
  <2> HIDE DEF r
  <2>4. r.parts \in Seq(Words)
    BY <2>1 DEF Words
  <2>2. ParamsAt(r) = {}
    BY <2>1, Segments DEF IsParam, ParamsAt, Words
  <2>3. Fits(r, method, path) => method = "Post" /\ Len(parts) = 3 /\ parts[2] = "auth" /\ parts[3] = "login"
    BY <2>1, Segments DEF Fits, IsParam, Words
  <2> QED
    BY <2>2, <2>3, <2>4 DEF r
<1>12. /\ at[12] = {4}
       /\ 12 \in fit => method = "Get" /\ Len(parts) = 4 /\ parts[2] = "inventory"
  <2> DEFINE r == Routes[12]
  <2>1. r.method = "Get" /\ r.parts = <<"api", "inventory", "books", BookId>>
    BY DEF Routes, Get, Post, Patch
  <2> HIDE DEF r
  <2>2. ParamsAt(r) = {4}
    BY <2>1, Segments DEF IsParam, ParamsAt, Words
  <2>3. Fits(r, method, path) => method = "Get" /\ Len(parts) = 4 /\ parts[2] = "inventory"
    BY <2>1, Segments DEF Fits, IsParam, Words
  <2> QED
    BY <2>2, <2>3 DEF r
<1>13. /\ at[13] = {4}
       /\ 13 \in fit => method = "Post" /\ Len(parts) = 5 /\ parts[2] = "inventory"
  <2> DEFINE r == Routes[13]
  <2>1. r.method = "Post" /\ r.parts = <<"api", "inventory", "books", BookId, "inbound">>
    BY DEF Routes, Get, Post, Patch
  <2> HIDE DEF r
  <2>2. ParamsAt(r) = {4}
    BY <2>1, Segments DEF IsParam, ParamsAt, Words
  <2>3. Fits(r, method, path) => method = "Post" /\ Len(parts) = 5 /\ parts[2] = "inventory"
    BY <2>1, Segments DEF Fits, IsParam, Words
  <2> QED
    BY <2>2, <2>3 DEF r
<1>14. /\ at[14] = {}
       /\ 14 \in fit => method = "Post" /\ Len(parts) = 2 /\ parts[2] = "orders"
       /\ 14 \in seqs
  <2> DEFINE r == Routes[14]
  <2>1. r.method = "Post" /\ r.parts = <<"api", "orders">>
    BY DEF Routes, Get, Post, Patch
  <2> HIDE DEF r
  <2>4. r.parts \in Seq(Words)
    BY <2>1 DEF Words
  <2>2. ParamsAt(r) = {}
    BY <2>1, Segments DEF IsParam, ParamsAt, Words
  <2>3. Fits(r, method, path) => method = "Post" /\ Len(parts) = 2 /\ parts[2] = "orders"
    BY <2>1, Segments DEF Fits, IsParam, Words
  <2> QED
    BY <2>2, <2>3, <2>4 DEF r
<1>15. /\ at[15] = {}
       /\ 15 \in fit => method = "Get" /\ Len(parts) = 2 /\ parts[2] = "orders"
       /\ 15 \in seqs
  <2> DEFINE r == Routes[15]
  <2>1. r.method = "Get" /\ r.parts = <<"api", "orders">>
    BY DEF Routes, Get, Post, Patch
  <2> HIDE DEF r
  <2>4. r.parts \in Seq(Words)
    BY <2>1 DEF Words
  <2>2. ParamsAt(r) = {}
    BY <2>1, Segments DEF IsParam, ParamsAt, Words
  <2>3. Fits(r, method, path) => method = "Get" /\ Len(parts) = 2 /\ parts[2] = "orders"
    BY <2>1, Segments DEF Fits, IsParam, Words
  <2> QED
    BY <2>2, <2>3, <2>4 DEF r
<1>16. /\ at[16] = {3}
       /\ 16 \in fit => method = "Get" /\ Len(parts) = 3 /\ parts[2] = "orders"
  <2> DEFINE r == Routes[16]
  <2>1. r.method = "Get" /\ r.parts = <<"api", "orders", OrderId>>
    BY DEF Routes, Get, Post, Patch
  <2> HIDE DEF r
  <2>2. ParamsAt(r) = {3}
    BY <2>1, Segments DEF IsParam, ParamsAt, Words
  <2>3. Fits(r, method, path) => method = "Get" /\ Len(parts) = 3 /\ parts[2] = "orders"
    BY <2>1, Segments DEF Fits, IsParam, Words
  <2> QED
    BY <2>2, <2>3 DEF r
<1>17. /\ at[17] = {3}
       /\ 17 \in fit => method = "Post" /\ Len(parts) = 4 /\ parts[2] = "orders"
  <2> DEFINE r == Routes[17]
  <2>1. r.method = "Post" /\ r.parts = <<"api", "orders", OrderId, "cancel">>
    BY DEF Routes, Get, Post, Patch
  <2> HIDE DEF r
  <2>2. ParamsAt(r) = {3}
    BY <2>1, Segments DEF IsParam, ParamsAt, Words
  <2>3. Fits(r, method, path) => method = "Post" /\ Len(parts) = 4 /\ parts[2] = "orders"
    BY <2>1, Segments DEF Fits, IsParam, Words
  <2> QED
    BY <2>2, <2>3 DEF r
<1> HIDE DEF fit, parts, at, seqs
<1>18. ASSUME NEW i \in WithParam PROVE at[i] \in {{3}, {4}}
  <2>1. \/ i = 5 \/ i = 7 \/ i = 9 \/ i = 12 \/ i = 13 \/ i = 16 \/ i = 17
    BY DEF WithParam
  <2> QED
    BY <2>1, <1>5, <1>7, <1>9, <1>12, <1>13, <1>16, <1>17
<1>19. ASSUME NEW i \in Exact PROVE at[i] = {} /\ i \in seqs
  <2>1. \/ i = 1 \/ i = 2 \/ i = 3 \/ i = 4 \/ i = 6 \/ i = 8 \/ i = 10
        \/ i = 11 \/ i = 14 \/ i = 15
    BY DEF Exact
  <2> QED
    BY <2>1, <1>1, <1>2, <1>3, <1>4, <1>6, <1>8, <1>10, <1>11, <1>14, <1>15
<1>20. ASSUME NEW i \in WithParam, NEW j \in WithParam, i \in fit, j \in fit PROVE i = j
  <2>1. \/ i = 5 \/ i = 7 \/ i = 9 \/ i = 12 \/ i = 13 \/ i = 16 \/ i = 17
    BY DEF WithParam
  <2>2. \/ j = 5 \/ j = 7 \/ j = 9 \/ j = 12 \/ j = 13 \/ j = 16 \/ j = 17
    BY DEF WithParam
  <2> QED
    BY <1>20, <2>1, <2>2, <1>5, <1>7, <1>9, <1>12, <1>13, <1>16, <1>17
<1>21. ASSUME NEW i \in Exact, NEW j \in Exact, i \in fit, j \in fit PROVE i = j
  <2>1. \/ i = 1 \/ i = 2 \/ i = 3 \/ i = 4 \/ i = 6 \/ i = 8 \/ i = 10
        \/ i = 11 \/ i = 14 \/ i = 15
    BY DEF Exact
  <2>2. \/ j = 1 \/ j = 2 \/ j = 3 \/ j = 4 \/ j = 6 \/ j = 8 \/ j = 10
        \/ j = 11 \/ j = 14 \/ j = 15
    BY DEF Exact
  <2> QED
    BY <1>21, <2>1, <2>2, <1>1, <1>2, <1>3, <1>4, <1>6, <1>8, <1>10, <1>11, <1>14, <1>15
<1>22. WithParam \subseteq 1 .. 17 /\ Exact \subseteq 1 .. 17
  BY DEF WithParam, Exact
<1> QED
  BY <1>18, <1>19, <1>20, <1>21, <1>22 DEF fit, at, seqs

(* The routes are those of the two kinds. *)
LEMMA RouteKinds ==
  /\ DOMAIN Routes = Exact \cup WithParam
  /\ \A i \in WithParam : HasParam(Routes[i].parts) /\ Params(Routes[i]) = 1
  /\ \A i \in Exact : ~ HasParam(Routes[i].parts) /\ Params(Routes[i]) = 0
<1>1. DOMAIN Routes = 1 .. 17
  BY DEF Routes
<1>2. 1 .. 17 = Exact \cup WithParam
  BY DEF Exact, WithParam
<1>3. Cardinality({}) = 0 /\ Cardinality({3}) = 1 /\ Cardinality({4}) = 1
  BY FS_EmptySet, FS_Singleton
<1>4. ASSUME NEW r PROVE /\ HasParam(r.parts) <=> ParamsAt(r) # {}
                         /\ Params(r) = Cardinality(ParamsAt(r))
  BY DEF HasParam, Params, ParamsAt
<1>5. ASSUME NEW i \in WithParam
      PROVE  HasParam(Routes[i].parts) /\ Params(Routes[i]) = 1
  <2>1. ParamsAt(Routes[i]) \in {{3}, {4}}
    BY RouteTable
  <2>2. Cardinality(ParamsAt(Routes[i])) = 1 /\ ParamsAt(Routes[i]) # {}
    BY <1>3, <2>1
  <2> QED
    BY <1>4, <2>2
<1>6. ASSUME NEW i \in Exact
      PROVE  ~ HasParam(Routes[i].parts) /\ Params(Routes[i]) = 0
  <2>1. ParamsAt(Routes[i]) = {}
    BY RouteTable
  <2> QED
    BY <1>3, <1>4, <2>1
<1> QED
  BY <1>1, <1>2, <1>5, <1>6

(* Router::route finds the route that fits with the fewest parameters, and *)
(* there is only one.                                                      *)
LEMMA RouteIsMostSpecific ==
  ASSUME NEW method, NEW path, path.parts \in Seq(STRING), path.plain \in BOOLEAN
  PROVE  MostSpecific(method, path) = {Route(method, path)}
<1> DEFINE F == {i \in DOMAIN Routes : Fits(Routes[i], method, path)}
           fitting == {r \in ToSet(Routes) : Fits(r, method, path)}
           best == {r \in fitting : \A q \in fitting : Params(r) <= Params(q)}
           exact == ExactRoutes(method, path)
           param == {i \in ParamRoutes(method) : MatchPath(Routes[i].parts, path.parts)}
<1>1. fitting = {Routes[i] : i \in F}
  BY DEF ToSet
<1>2. param = F \cap WithParam
  <2>1. ASSUME NEW i \in WithParam
        PROVE  Fits(Routes[i], method, path) <=>
                 Routes[i].method = method /\ MatchPath(Routes[i].parts, path.parts)
    BY RouteKinds DEF Fits, MatchPath
  <2> QED
    BY <2>1, RouteKinds DEF ParamRoutes
<1>3. exact = {Routes[i] : i \in F \cap Exact}
  <2>1. ASSUME NEW i \in Exact
        PROVE  Fits(Routes[i], method, path) <=>
                 Routes[i].method = method /\ path.plain /\ Routes[i].parts = path.parts
    <3> DEFINE r == Routes[i]
    <3>1. Params(r) = 0 /\ \A k \in DOMAIN r.parts : ~ IsParam(r.parts[k])
      BY RouteKinds DEF HasParam
    <3> DEFINE S == STRING \cup Words
    <3>2. r.parts \in Seq(S) /\ path.parts \in Seq(S)
      <4>1. r.parts \in Seq(Words)
        BY RouteTable
      <4>2. Words \subseteq S /\ STRING \subseteq S
        OBVIOUS
      <4> QED
        BY <4>1, <4>2, SeqMonotonic
    <3> HIDE DEF r, S
    <3>3. Fits(r, method, path) <=>
            r.method = method /\ path.plain /\ r.parts = path.parts
      <4>1. CASE r.parts = path.parts
        BY <3>1, <4>1 DEF Fits
      <4>2. CASE r.parts # path.parts
        <5>1. /\ Len(r.parts) \in Nat /\ DOMAIN r.parts = 1 .. Len(r.parts)
              /\ Len(path.parts) \in Nat /\ DOMAIN path.parts = 1 .. Len(path.parts)
          BY <3>2, LenProperties
        <5>2. \/ Len(r.parts) # Len(path.parts)
              \/ \E k \in DOMAIN r.parts : r.parts[k] # path.parts[k]
          BY <3>2, <4>2, <5>1, SeqEqual
        <5> QED
          BY <3>1, <4>2, <5>2 DEF Fits
      <4> QED
        BY <4>1, <4>2
    <3> QED
      BY <3>3 DEF r
  <2>2. exact = {Routes[i] : i \in {k \in DOMAIN Routes : /\ Routes[k].method = method
                             /\ ~ HasParam(Routes[k].parts)
                             /\ path.plain /\ Routes[k].parts = path.parts}}
    BY DEF ExactRoutes, ToSet
  <2> QED
    BY <2>1, <2>2, RouteKinds
<1>4. /\ \A i, j \in F \cap WithParam : i = j
      /\ \A i, j \in F \cap Exact : i = j
  BY RouteTable
<1>5. /\ F \subseteq Exact \cup WithParam
      /\ \A i \in WithParam : Params(Routes[i]) = 1
      /\ \A i \in Exact : Params(Routes[i]) = 0
  BY RouteKinds
<1>6. /\ MostSpecific(method, path) = IF fitting = {} THEN {NoRoute} ELSE {r.handler : r \in best}
      /\ exact # {} => Route(method, path) = (CHOOSE r \in exact : TRUE).handler
      /\ exact = {} /\ param # {} => Route(method, path) = Routes[Min(param)].handler
      /\ exact = {} /\ param = {} => Route(method, path) = NoRoute
  BY DEF MostSpecific, Route
<1> HIDE DEF F, exact, param
<1>7. CASE exact # {}
  <2>1. PICK i \in F \cap Exact : TRUE
    BY <1>3, <1>7
  <2>2. exact = {Routes[i]} /\ fitting # {}
    BY <1>1, <1>3, <1>4, <2>1
  <2>3. best = {Routes[i]}
    BY <1>1, <1>4, <1>5, <2>1
  <2>4. (CHOOSE r \in exact : TRUE) = Routes[i]
    BY <2>2
  <2> QED
    BY <1>6, <1>7, <2>2, <2>3, <2>4
<1>8. CASE exact = {} /\ param # {}
  <2>1. PICK i \in F \cap WithParam : TRUE
    BY <1>2, <1>8
  <2>2. F = {i} /\ param = {i}
    <3> HIDE DEF fitting, best
    <3>1. F \cap Exact = {}
      BY <1>3, <1>8
    <3>2. F = F \cap WithParam
      BY <1>5, <3>1
    <3>3. F \cap WithParam = {i}
      BY <1>4, <2>1
    <3> QED
      BY <1>2, <3>2, <3>3
  <2>3. fitting = {Routes[i]}
    BY <1>1, <2>2
  <2>4. best = {Routes[i]}
    BY <1>5, <2>1, <2>3
  <2>5. Min(param) = i
    <3>1. i \in Int
      BY <2>1 DEF WithParam
    <3> QED
      BY <2>2, <3>1 DEF Min
  <2> HIDE DEF fitting, best
  <2> QED
    BY <1>6, <1>8, <2>3, <2>4, <2>5
<1>9. CASE exact = {} /\ param = {}
  <2>1. F = {}
    <3> HIDE DEF fitting, best
    <3>1. F \cap Exact = {}
      BY <1>3, <1>9
    <3>2. F \cap WithParam = {}
      BY <1>2, <1>9
    <3> QED
      BY <1>5, <3>1, <3>2
  <2> QED
    BY <1>1, <1>6, <1>9, <2>1
<1> QED
  BY <1>7, <1>8, <1>9

-----------------------------------------------------------------------------
(* parse_line *)

Bytes(n) == (1 .. n) \X Symbols

EndOfLine(i) == Byte(i) \in {"CR", "LF"}

(* It stops at the first end of a line behind checked_idx_, if there is    *)
(* one.                                                                    *)
LEMMA ParseLineStops ==
  ASSUME Len(buf) \in Nat, checked \in 0 .. Len(buf)
  PROVE  \/ /\ \A i \in checked + 1 .. Len(buf) : ~ EndOfLine(i)
            /\ ParseLine = [status |-> "Open", idx |-> Len(buf), last |-> 0]
         \/ \E p \in checked + 1 .. Len(buf) :
              /\ EndOfLine(p)
              /\ \A i \in checked + 1 .. p - 1 : ~ EndOfLine(i)
              /\ ParseLine =
                   IF Byte(p) = "CR"
                   THEN IF p = Len(buf) THEN [status |-> "Open", idx |-> p - 1, last |-> p]
                        ELSE IF Byte(p + 1) = "LF"
                        THEN [status |-> "Ok", idx |-> p + 1, last |-> p + 1]
                        ELSE [status |-> "Bad", idx |-> p - 1, last |-> p]
                   ELSE IF p > 1 /\ Byte(p - 1) = "CR"
                   THEN [status |-> "Ok", idx |-> p, last |-> p]
                   ELSE [status |-> "Bad", idx |-> p - 1, last |-> p]
<1> DEFINE ends == {i \in checked + 1 .. Len(buf) : Byte(i) \in {"CR", "LF"}}
           q == CHOOSE i \in ends : \A j \in ends : i <= j
<1>1. CASE ends = {}
  <2>1. ParseLine = [status |-> "Open", idx |-> Len(buf), last |-> 0]
    BY <1>1 DEF ParseLine
  <2> QED
    BY <1>1, <2>1 DEF EndOfLine
<1>2. CASE ends # {}
  <2>1. ends \subseteq Nat
    OBVIOUS
  <2>2. q \in ends /\ \A j \in ends : q <= j
    <3> HIDE DEF ends
    <3>1. \E i \in ends : \A j \in ends : i <= j
      BY <1>2, <2>1, Least
    <3> QED
      BY <3>1
  <2>3. ParseLine =
          IF Byte(q) = "CR"
          THEN IF q = Len(buf) THEN [status |-> "Open", idx |-> q - 1, last |-> q]
               ELSE IF Byte(q + 1) = "LF"
               THEN [status |-> "Ok", idx |-> q + 1, last |-> q + 1]
               ELSE [status |-> "Bad", idx |-> q - 1, last |-> q]
          ELSE IF q > 1 /\ Byte(q - 1) = "CR"
          THEN [status |-> "Ok", idx |-> q, last |-> q]
          ELSE [status |-> "Bad", idx |-> q - 1, last |-> q]
    BY <1>2, Zenon DEF ParseLine
  <2> HIDE DEF q
  <2>4. q \in checked + 1 .. Len(buf) /\ EndOfLine(q)
    BY <2>2 DEF EndOfLine
  <2>5. \A i \in checked + 1 .. q - 1 : ~ EndOfLine(i)
    BY <2>2, <2>4 DEF EndOfLine
  <2> QED
    BY <2>3, <2>4, <2>5
<1> QED
  BY <1>1, <1>2

(* It never goes back, and a whole line has at least one byte. *)
LEMMA ParseLineBounds ==
  ASSUME Len(buf) \in Nat, checked \in 0 .. Len(buf)
  PROVE  /\ ParseLine.idx \in checked .. Len(buf)
         /\ ParseLine.status = "Ok" => ParseLine.idx > checked
<1> DEFINE pl == ParseLine
<1>1. CASE pl = [status |-> "Open", idx |-> Len(buf), last |-> 0]
  BY <1>1
<1>2. CASE ~ (pl = [status |-> "Open", idx |-> Len(buf), last |-> 0])
  <2>1. PICK p \in checked + 1 .. Len(buf) :
               pl = IF Byte(p) = "CR"
                    THEN IF p = Len(buf) THEN [status |-> "Open", idx |-> p - 1, last |-> p]
                         ELSE IF Byte(p + 1) = "LF"
                         THEN [status |-> "Ok", idx |-> p + 1, last |-> p + 1]
                         ELSE [status |-> "Bad", idx |-> p - 1, last |-> p]
                    ELSE IF p > 1 /\ Byte(p - 1) = "CR"
                    THEN [status |-> "Ok", idx |-> p, last |-> p]
                    ELSE [status |-> "Bad", idx |-> p - 1, last |-> p]
    BY <1>2, ParseLineStops, Zenon
  <2> HIDE DEF pl
  <2>2. /\ pl.idx \in checked .. Len(buf)
        /\ pl.status = "Ok" => pl.idx > checked
    <3>1. CASE Byte(p) = "CR" /\ p = Len(buf)
      BY <2>1, <3>1
    <3>2. CASE Byte(p) = "CR" /\ p # Len(buf) /\ Byte(p + 1) = "LF"
      BY <2>1, <3>2
    <3>3. CASE Byte(p) = "CR" /\ p # Len(buf) /\ Byte(p + 1) # "LF"
      BY <2>1, <3>3
    <3>4. CASE Byte(p) # "CR" /\ p > 1 /\ Byte(p - 1) = "CR"
      BY <2>1, <3>4
    <3>5. CASE Byte(p) # "CR" /\ ~ (p > 1 /\ Byte(p - 1) = "CR")
      BY <2>1, <3>5
    <3> QED
      BY <3>1, <3>2, <3>3, <3>4, <3>5
  <2> QED
    BY <2>2 DEF pl
<1> QED
  BY <1>1, <1>2

(* What is zeroed keeps its place and its message. *)
LEMMA ZeroedType ==
  ASSUME NEW n \in Nat, buf \in Seq(Bytes(n)), NEW idx
  PROVE  Zeroed(idx) \in Seq(Bytes(n)) /\ Len(Zeroed(idx)) = Len(buf)
<1>1. Len(buf) \in Nat /\ DOMAIN buf = 1 .. Len(buf)
  BY LenProperties
<1>2. \A i \in 1 .. Len(buf) : buf[i] \in Bytes(n) /\ <<buf[i][1], "NUL">> \in Bytes(n)
  <2>1. "NUL" \in Symbols
    BY DEF Symbols
  <2>2. \A i \in 1 .. Len(buf) : buf[i] \in Bytes(n)
    BY ElementOfSeq
  <2>3. ASSUME NEW b \in Bytes(n) PROVE <<b[1], "NUL">> \in Bytes(n)
    BY <2>1 DEF Bytes
  <2> QED
    BY <2>2, <2>3
<1> DEFINE z(i) == IF i \in {idx - 1, idx} THEN <<buf[i][1], "NUL">> ELSE buf[i]
           s == [i \in 1 .. Len(buf) |-> z(i)]
<1>3. \A i \in 1 .. Len(buf) : z(i) \in Bytes(n)
  BY <1>2
<1>4. Zeroed(idx) = s
  BY <1>1 DEF Zeroed
<1> HIDE DEF z
<1>5. s \in Seq(Bytes(n)) /\ Len(s) = Len(buf)
  <2>1. s \in Seq(Bytes(n))
    BY <1>1, <1>3, IsASeq
  <2>2. DOMAIN s = 1 .. Len(buf)
    OBVIOUS
  <2> HIDE DEF s
  <2> QED
    BY <1>1, <2>1, <2>2, LenProperties
<1> QED
  BY <1>4, <1>5

-----------------------------------------------------------------------------
(* Types *)

(* The types that the step from a state to the next needs, beyond TypeOK:  *)
(* the bytes belong to messages that were sent, and behind the request     *)
(* line there is one.                                                      *)
Typing == /\ TypeOK
          /\ buf \in Seq(Bytes(Len(sent))) /\ wire \in Seq(Bytes(Len(sent)))
          /\ check # "RequestLine" => parsed # 0
          /\ \E S : answered \in Seq(S)

(* A sequence with one more element. *)
LEMMA Appended ==
  ASSUME NEW s, \E S : s \in Seq(S), NEW e
  PROVE  /\ \E S : Append(s, e) \in Seq(S)
         /\ Len(s) \in Nat /\ Len(Append(s, e)) = Len(s) + 1
         /\ \A k \in 1 .. Len(s) : Append(s, e)[k] = s[k]
         /\ Append(s, e)[Len(s) + 1] = e
         /\ DOMAIN s = 1 .. Len(s) /\ DOMAIN Append(s, e) = 1 .. Len(s) + 1
<1>1. PICK S : s \in Seq(S)
  OBVIOUS
<1> DEFINE T == S \cup {e}
<1>2. s \in Seq(T) /\ e \in T
  BY <1>1, SeqMonotonic
<1> HIDE DEF T
<1>3. Append(s, e) \in Seq(T)
  BY <1>2, AppendProperties
<1>4. Len(Append(s, e)) = Len(s) + 1 /\ Len(s) \in Nat
  BY <1>2, AppendProperties, LenProperties
<1>5. DOMAIN s = 1 .. Len(s) /\ DOMAIN Append(s, e) = 1 .. Len(s) + 1
  BY <1>2, <1>3, <1>4, LenProperties
<1>6. /\ \A k \in 1 .. Len(s) : Append(s, e)[k] = s[k]
      /\ Append(s, e)[Len(s) + 1] = e
  BY <1>2, AppendProperties
<1> QED
  BY <1>3, <1>4, <1>5, <1>6

(* What the connection's constants are. *)
LEMMA Sizes ==
  /\ ReadBufSize \in Nat \ {0} /\ HeadLen \in Nat \ {0} /\ FileLen \in Nat \ {0}
  /\ ApiLen \in Nat \ {0} /\ MaxMessages \in Nat \ {0}
  BY HttpAssumption

(* A message more. *)
LEMMA SendFacts ==
  ASSUME Typing, NEW m \in Messages, Send(m)
  PROVE  /\ sent' \in Seq(Messages) /\ Len(sent) \in Nat /\ Len(sent') = Len(sent) + 1
         /\ \A k \in 1 .. Len(sent) : sent'[k] = sent[k]
         /\ sent'[Len(sent')] = m
         /\ Bytes(Len(sent)) \subseteq Bytes(Len(sent'))
         /\ wire' \in Seq(Bytes(Len(sent'))) /\ Len(wire') = Len(wire) + Len(Text(m))
         /\ \A j \in 1 .. Len(wire) : wire'[j] = wire[j]
         /\ \A j \in 1 .. Len(Text(m)) : wire'[Len(wire) + j] = <<Len(sent'), Text(m)[j]>>
<1> DEFINE t == Text(m)
           n == Len(sent')
           new == [i \in 1 .. Len(t) |-> <<n, t[i]>>]
<1>1. sent \in Seq(Messages) /\ sent' = Append(sent, m)
  BY DEF Typing, TypeOK, Send
<1>2. /\ sent' \in Seq(Messages) /\ Len(sent) \in Nat /\ n = Len(sent) + 1
      /\ \A k \in 1 .. Len(sent) : sent'[k] = sent[k]
      /\ sent'[Len(sent) + 1] = m
  BY <1>1, AppendProperties, LenProperties
<1>3. Bytes(Len(sent)) \subseteq Bytes(n)
  BY <1>2 DEF Bytes
<1>4. wire \in Seq(Bytes(n))
  BY <1>3, SeqMonotonic DEF Typing
<1>5. t \in Seq(Symbols) /\ Len(t) \in Nat /\ DOMAIN t = 1 .. Len(t)
      /\ \A i \in 1 .. Len(t) : t[i] \in Symbols
  BY TextType, LenProperties, ElementOfSeq
<1>6. wire' = wire \o new
  BY <1>5 DEF Send
<1> HIDE DEF t, n
<1>7. new \in Seq(Bytes(n)) /\ Len(new) = Len(t)
  <2>1. \A i \in 1 .. Len(t) : <<n, t[i]>> \in Bytes(n)
    BY <1>2, <1>5 DEF Bytes
  <2>2. new \in Seq(Bytes(n))
    BY <1>5, <2>1, IsASeq
  <2>3. DOMAIN new = 1 .. Len(t)
    OBVIOUS
  <2> QED
    BY <1>5, <2>2, <2>3, LenProperties
<1>8. \A j \in 1 .. Len(t) : new[j] = <<n, t[j]>>
  OBVIOUS
<1> HIDE DEF new
<1>9. /\ wire \o new \in Seq(Bytes(n)) /\ Len(wire \o new) = Len(wire) + Len(new)
      /\ \A p \in 1 .. Len(wire) : (wire \o new)[p] = wire[p]
      /\ \A p \in 1 .. Len(new) : (wire \o new)[Len(wire) + p] = new[p]
  <2> DEFINE B == Bytes(n)
  <2>1. wire \in Seq(B) /\ new \in Seq(B)
    BY <1>4, <1>7
  <2> HIDE DEF B
  <2>2. /\ wire \o new \in Seq(B) /\ Len(wire \o new) = Len(wire) + Len(new)
        /\ \A p \in 1 .. Len(wire) : (wire \o new)[p] = wire[p]
        /\ \A p \in 1 .. Len(new) : (wire \o new)[Len(wire) + p] = new[p]
    BY <2>1, Joined
  <2> QED
    BY <2>2 DEF B
<1>10. /\ wire' \in Seq(Bytes(n)) /\ Len(wire') = Len(wire) + Len(t)
       /\ \A j \in 1 .. Len(wire) : wire'[j] = wire[j]
       /\ \A j \in 1 .. Len(t) : wire'[Len(wire) + j] = <<n, t[j]>>
  BY <1>6, <1>7, <1>8, <1>9
<1> QED
  BY <1>2, <1>3, <1>10 DEF t, n

(* What has been received moves from the wire to the buffer. *)
LEMMA ReadFacts ==
  ASSUME Typing, NEW n, Read(n)
  PROVE  /\ n \in 1 .. Len(wire) /\ Len(wire) \in Nat /\ Len(buf) \in Nat
         /\ Len(buf) + n <= ReadBufSize
         /\ buf' \in Seq(Bytes(Len(sent))) /\ wire' \in Seq(Bytes(Len(sent)))
         /\ Len(buf') = Len(buf) + n /\ Len(wire') = Len(wire) - n
         /\ \A i \in 1 .. Len(buf) : buf'[i] = buf[i]
         /\ \A i \in 1 .. n : buf'[Len(buf) + i] = wire[i]
         /\ \A i \in 1 .. Len(wire) - n : wire'[i] = wire[n + i]
<1> DEFINE B == Bytes(Len(sent))
           front == SubSeq(wire, 1, n)
           rest == SubSeq(wire, n + 1, Len(wire))
<1>1. /\ wire \in Seq(B) /\ buf \in Seq(B) /\ n \in 1 .. Len(wire) /\ n <= Room
      /\ buf' = buf \o front /\ wire' = rest
  BY DEF Typing, Read
<1>2. Len(wire) \in Nat /\ Len(buf) \in Nat /\ n \in Nat
  BY <1>1, LenProperties
<1> HIDE DEF B
<1>3. /\ front \in Seq(B) /\ Len(front) = n /\ \A i \in 1 .. n : front[i] = wire[i]
  BY <1>1, <1>2, SubSeqProperties
<1>4. /\ rest \in Seq(B) /\ Len(rest) = Len(wire) - n
      /\ \A i \in 1 .. Len(wire) - n : rest[i] = wire[n + i]
  BY <1>1, <1>2, SubSeqProperties
<1> HIDE DEF front, rest
<1>5. /\ buf \o front \in Seq(B) /\ Len(buf \o front) = Len(buf) + Len(front)
      /\ \A p \in 1 .. Len(buf) : (buf \o front)[p] = buf[p]
      /\ \A p \in 1 .. Len(front) : (buf \o front)[Len(buf) + p] = front[p]
  <2>1. buf \in Seq(B) /\ front \in Seq(B)
    BY <1>1, <1>3
  <2> QED
    BY <2>1, Joined
<1>6. Len(buf) + n <= ReadBufSize
  BY <1>1, <1>2, Sizes DEF Room
<1> QED
  BY <1>1, <1>2, <1>3, <1>4, <1>5, <1>6 DEF B

(* An answer is begun. *)
LEMMA AnswerFacts ==
  ASSUME Typing, NEW code, NEW handler, NEW body, Answer(code, handler, body)
  PROVE  /\ toSend' \in Nat /\ bytesSent' = 0 /\ got' = << >> /\ cutHead' = FALSE
         /\ pc' = "out" /\ \E S : answered' \in Seq(S)
<1>1. \E S : answered' \in Seq(S)
  BY Appended DEF Answer, Typing
<1>2. toSend' \in Nat
  BY Sizes DEF Answer
<1> QED
  BY <1>1, <1>2 DEF Answer

(* do_request ends in an answer, of which nothing has been sent yet. *)
LEMMA DoRequestFacts ==
  ASSUME Typing, NEW body, DoRequest(body)
  PROVE  /\ toSend' \in Nat /\ bytesSent' = 0 /\ got' = << >> /\ cutHead' = FALSE
         /\ pc' = "out" /\ \E S : answered' \in Seq(S)
<1>1. PICK code \in Codes(sent[parsed]) :
        Answer(code, IF IsApi(sent[parsed]) THEN Route(sent[parsed].method, sent[parsed].path)
                     ELSE NoRoute, body)
  BY DEF DoRequest
<1> QED
  BY <1>1, AnswerFacts

(* The line that parse_line has found is taken. *)
LEMMA TakeLineFacts ==
  ASSUME Typing, ParseLine.status = "Ok", TakeLine
  PROVE  /\ Len(buf) \in Nat /\ checked' \in checked + 1 .. Len(buf)
         /\ start' = checked' /\ checked' = ParseLine.idx /\ start + 1 \in 1 .. Len(buf)
         /\ buf' \in Seq(Bytes(Len(sent))) /\ Len(buf') = Len(buf)
         /\ buf' = Zeroed(ParseLine.idx)
         /\ buf[start + 1] \in Bytes(Len(sent)) /\ buf[start + 1][1] \in 1 .. Len(sent)
         /\ Line \in Messages /\ Line.length \in Int
<1> DEFINE B == Bytes(Len(sent))
           idx == ParseLine.idx
<1>1. buf \in Seq(B) /\ Len(buf) \in Nat /\ Len(sent) \in Nat
  BY LenProperties DEF Typing, TypeOK
<1>2. checked \in 0 .. Len(buf) /\ start \in 0 .. checked
  BY DEF Typing, TypeOK
<1>3. idx \in checked + 1 .. Len(buf)
  BY <1>1, <1>2, ParseLineBounds
<1>4. Zeroed(idx) \in Seq(B) /\ Len(Zeroed(idx)) = Len(buf)
  BY <1>1, ZeroedType
<1>5. start + 1 \in 1 .. Len(buf)
  BY <1>1, <1>2, <1>3
<1>6. buf[start + 1] \in B
  BY <1>1, <1>5, ElementOfSeq
<1>7. buf[start + 1][1] \in 1 .. Len(sent)
  BY <1>6 DEF Bytes
<1>8. Line \in Messages
  BY <1>7, ElementOfSeq DEF Typing, TypeOK, Line
<1>9. Line.length \in Int
  BY <1>8, MessageFacts
<1>10. checked' = idx /\ start' = idx /\ buf' = Zeroed(idx)
  BY DEF TakeLine
<1> HIDE DEF B, idx
<1> QED
  BY <1>1, <1>3, <1>4, <1>5, <1>6, <1>7, <1>8, <1>9, <1>10 DEF B, idx

(* parse_content: how far it looks. *)
LEMMA ContentFacts ==
  ASSUME Typing, Content
  PROVE  /\ Len(buf) \in Nat /\ checked' \in checked .. Len(buf) /\ start' = checked'
         /\ ~ CallsParseLine => checked' = checked /\ buf' = buf /\ rescanned' = rescanned
         /\ CallsParseLine => rescanned' = TRUE
         /\ buf' \in Seq(Bytes(Len(sent))) /\ Len(buf') = Len(buf)
         /\ rescanned' \in BOOLEAN
         /\ \/ /\ Complete(checked')
               /\ DoRequest([i \in 1 .. length |-> buf'[checked' + i][2]])
               /\ UNCHANGED lineOk
            \/ /\ ~ Complete(checked')
               /\ lineOk' = FALSE
               /\ UNCHANGED <<pc, writeVars, answered, got, cutHead>>
         /\ UNCHANGED <<trig, clientVars, check, parsed, linger, length, why>>
<1> DEFINE from == IF CallsParseLine THEN ParseLine.idx ELSE checked
<1>1. buf \in Seq(Bytes(Len(sent))) /\ Len(buf) \in Nat /\ Len(sent) \in Nat
  BY LenProperties DEF Typing, TypeOK
<1>2. checked \in 0 .. Len(buf) /\ rescanned \in BOOLEAN
  BY DEF Typing, TypeOK
<1>3. ParseLine.idx \in checked .. Len(buf)
  BY <1>1, <1>2, ParseLineBounds
<1>4. checked' = from /\ start' = from
  BY DEF Content
<1>5. CASE CallsParseLine
  <2>1. buf' = Zeroed(from) /\ rescanned' = TRUE
    BY <1>5 DEF Content
  <2>2. buf' \in Seq(Bytes(Len(sent))) /\ Len(buf') = Len(buf)
    BY <1>1, <2>1, ZeroedType
  <2>3. checked' \in checked .. Len(buf)
    BY <1>3, <1>4, <1>5
  <2> QED
    BY <1>1, <1>4, <1>5, <2>1, <2>2, <2>3 DEF Content
<1>6. CASE ~ CallsParseLine
  <2>1. buf' = buf /\ rescanned' = rescanned /\ checked' = checked
    BY <1>4, <1>6 DEF Content
  <2>3. checked' \in checked .. Len(buf)
    BY <1>1, <1>2, <2>1
  <2> QED
    BY <1>1, <1>2, <1>4, <1>6, <2>1, <2>3 DEF Content
<1> QED
  BY <1>5, <1>6

(* Every step keeps the types. *)
LEMMA TypingStep ==
  ASSUME Typing, [Next]_vars
  PROVE  Typing'
<1>0. /\ Len(sent) \in Nat /\ Len(buf) \in Nat /\ Len(buf) <= ReadBufSize
      /\ checked \in 0 .. Len(buf) /\ start \in 0 .. checked
  BY LenProperties DEF Typing, TypeOK
<1>1. ASSUME NEW m \in Messages, Send(m) PROVE Typing'
  <2>1. buf' \in Seq(Bytes(Len(sent')))
    <3>1. buf' = buf /\ Bytes(Len(sent)) \subseteq Bytes(Len(sent'))
      BY <1>1, SendFacts DEF Send
    <3> QED
      BY <3>1, SeqMonotonic DEF Typing
  <2>2. TypeOK'
    <3>1. sent' \in Seq(Messages) /\ Len(sent') = Len(sent) + 1 /\ Len(sent) < MaxMessages
      BY <1>1, SendFacts DEF Send
    <3>2. Len(sent') <= MaxMessages /\ parsed' \in 0 .. Len(sent')
      BY <1>0, <1>1, <3>1, Sizes DEF Typing, TypeOK, Send, parseVars
    <3>3. piped' \in BOOLEAN
      BY <1>1 DEF Send
    <3> QED
      BY <1>1, <3>1, <3>2, <3>3 DEF Typing, TypeOK, Send, parseVars, writeVars
  <2> QED
    BY <1>1, <2>1, <2>2, SendFacts DEF Typing, Send, parseVars
<1>2. ASSUME NEW n, Read(n) PROVE Typing'
  <2>1. /\ buf' \in Seq(Bytes(Len(sent))) /\ wire' \in Seq(Bytes(Len(sent)))
        /\ Len(buf') = Len(buf) + n /\ n \in Nat /\ Len(buf') <= ReadBufSize
    BY <1>2, ReadFacts
  <2>2. checked \in 0 .. Len(buf')
    BY <1>0, <2>1
  <2>3. pc' \in {"parse", "closed"} /\ lineOk' \in BOOLEAN /\ why' \in {"open", "outside", "full", "done"}
    BY <1>2 DEF Typing, TypeOK, Read
  <2> QED
    BY <1>2, <2>1, <2>2, <2>3 DEF Typing, TypeOK, Read, writeVars
<1>3. CASE ReadFull
  BY <1>3 DEF Typing, TypeOK, ReadFull, Close, clientVars, parseVars, writeVars
<1>4. CASE Disconnect
  BY <1>4 DEF Typing, TypeOK, Disconnect, Close, clientVars, parseVars, writeVars
<1>5. CASE NoLine
  <2>1. checked' \in checked .. Len(buf)
    BY <1>0, <1>5, ParseLineBounds DEF NoLine
  <2>2. checked' \in 0 .. Len(buf) /\ start \in 0 .. checked'
    BY <1>0, <2>1
  <2>3. rescanned' \in BOOLEAN
    BY <1>5 DEF NoLine, Rescans
  <2> QED
    BY <1>5, <2>2, <2>3 DEF Typing, TypeOK, NoLine, clientVars, parseVars, writeVars
<1>6. CASE RequestLine
  <2>1. /\ checked' \in checked + 1 .. Len(buf) /\ start' = checked'
        /\ buf' \in Seq(Bytes(Len(sent))) /\ Len(buf') = Len(buf)
        /\ buf[start + 1][1] \in 1 .. Len(sent)
    BY <1>6, TakeLineFacts DEF RequestLine
  <2>2. checked' \in 0 .. Len(buf') /\ start' \in 0 .. checked'
    BY <1>0, <2>1
  <2>3. parsed' \in 0 .. Len(sent) /\ parsed' # 0 /\ check' = "Header"
    BY <1>0, <1>6, <2>1 DEF RequestLine
  <2> QED
    BY <1>6, <2>1, <2>2, <2>3 DEF Typing, TypeOK, RequestLine, clientVars, writeVars
<1>7. CASE Header
  <2>1. /\ checked' \in checked + 1 .. Len(buf) /\ start' = checked'
        /\ buf' \in Seq(Bytes(Len(sent))) /\ Len(buf') = Len(buf)
        /\ Line.length \in Int
    BY <1>7, TakeLineFacts DEF Header
  <2>2. checked' \in 0 .. Len(buf') /\ start' \in 0 .. checked'
    BY <1>0, <2>1
  <2>3. length' \in Int /\ linger' \in BOOLEAN
    BY <1>7, <2>1 DEF Header, Typing, TypeOK
  <2> QED
    BY <1>7, <2>1, <2>2, <2>3 DEF Typing, TypeOK, Header, clientVars, writeVars
<1>8. CASE HeaderThrows
  BY <1>8 DEF Typing, TypeOK, HeaderThrows, clientVars, parseVars, writeVars
<1>9. CASE HeadersEnd
  <2>1. /\ checked' \in checked + 1 .. Len(buf) /\ start' = checked'
        /\ buf' \in Seq(Bytes(Len(sent))) /\ Len(buf') = Len(buf)
    BY <1>9, TakeLineFacts DEF HeadersEnd
  <2>2. checked' \in 0 .. Len(buf') /\ start' \in 0 .. checked'
    BY <1>0, <2>1
  <2> QED
    BY <1>9, <2>1, <2>2 DEF Typing, TypeOK, HeadersEnd, clientVars, writeVars
<1>10. CASE BadRequestLine
  <2>1. /\ checked' \in checked + 1 .. Len(buf) /\ start' = checked'
        /\ buf' \in Seq(Bytes(Len(sent))) /\ Len(buf') = Len(buf)
    BY <1>10, TakeLineFacts DEF BadRequestLine
  <2>2. checked' \in 0 .. Len(buf') /\ start' \in 0 .. checked'
    BY <1>0, <2>1
  <2>3. /\ toSend' \in Nat /\ bytesSent' = 0 /\ cutHead' = FALSE
        /\ pc' = "out" /\ \E S : answered' \in Seq(S)
    BY <1>10, AnswerFacts DEF BadRequestLine
  <2> QED
    BY <1>10, <2>1, <2>2, <2>3 DEF Typing, TypeOK, BadRequestLine, clientVars
<1>11. CASE RequestWithoutBody
  <2>1. /\ checked' \in checked + 1 .. Len(buf) /\ start' = checked'
        /\ buf' \in Seq(Bytes(Len(sent))) /\ Len(buf') = Len(buf)
    BY <1>11, TakeLineFacts DEF RequestWithoutBody
  <2>2. checked' \in 0 .. Len(buf') /\ start' \in 0 .. checked'
    BY <1>0, <2>1
  <2>3. /\ toSend' \in Nat /\ bytesSent' = 0 /\ cutHead' = FALSE
        /\ pc' = "out" /\ \E S : answered' \in Seq(S)
    BY <1>11, DoRequestFacts DEF RequestWithoutBody
  <2> QED
    BY <1>11, <2>1, <2>2, <2>3 DEF Typing, TypeOK, RequestWithoutBody, clientVars
<1>12. CASE Content
  <2>1. /\ checked' \in checked .. Len(buf) /\ start' = checked'
        /\ buf' \in Seq(Bytes(Len(sent))) /\ Len(buf') = Len(buf)
        /\ rescanned' \in BOOLEAN
        /\ UNCHANGED <<trig, clientVars, check, parsed, linger, length, why>>
    BY <1>12, ContentFacts
  <2>2. checked' \in 0 .. Len(buf') /\ start' \in 0 .. checked'
    BY <1>0, <2>1
  <2>3. CASE DoRequest([i \in 1 .. length |-> buf'[checked' + i][2]]) /\ UNCHANGED lineOk
    <3>1. /\ toSend' \in Nat /\ bytesSent' = 0 /\ cutHead' = FALSE
          /\ pc' = "out" /\ \E S : answered' \in Seq(S)
      BY <2>3, DoRequestFacts
    <3> QED
      BY <2>1, <2>2, <2>3, <3>1 DEF Typing, TypeOK, clientVars
  <2>4. CASE lineOk' = FALSE /\ UNCHANGED <<pc, writeVars, answered, got, cutHead>>
    BY <2>1, <2>2, <2>4 DEF Typing, TypeOK, clientVars, writeVars
  <2> QED
    BY <1>12, <2>3, <2>4, ContentFacts
<1>13. ASSUME NEW n, WritePart(n) PROVE Typing'
  <2>1. n \in Nat /\ n < toSend
    BY <1>13 DEF WritePart
  <2>2. toSend' \in Nat /\ bytesSent' \in Nat
    BY <1>13, <2>1, SMTT(30) DEF WritePart, Typing, TypeOK
  <2>3. cutHead' \in BOOLEAN
    BY <1>13 DEF WritePart
  <2> QED
    BY <1>13, <2>2, <2>3 DEF Typing, TypeOK, WritePart, clientVars, parseVars
<1>14. CASE WriteRest
  <2>1. CASE linger
    <3>1. ResetState /\ UNCHANGED why /\ pc' = "in"
      BY <1>14, <2>1 DEF WriteRest
    <3>2. buf' \in Seq(Bytes(Len(sent))) /\ Len(buf') = 0 /\ 0 <= ReadBufSize
      BY <3>1, Sizes DEF ResetState
    <3>3. checked' \in 0 .. Len(buf') /\ start' \in 0 .. checked' /\ parsed' \in 0 .. Len(sent)
      BY <1>0, <3>1, <3>2 DEF ResetState
    <3>4. linger' = FALSE /\ lineOk' = TRUE /\ length' = 0 /\ check' = "RequestLine"
      BY <3>1, Zenon DEF ResetState
    <3>5. /\ toSend' \in Nat /\ bytesSent' \in Nat
          /\ UNCHANGED <<trig, sent, wire, piped, answered, rescanned, cutHead>>
      BY <1>14 DEF WriteRest, clientVars
    <3>6. linger' \in BOOLEAN /\ lineOk' \in BOOLEAN
      BY <3>4, Zenon
    <3>7. length' \in Int /\ check' = "RequestLine"
      BY <3>4
    <3>8. Len(buf') <= ReadBufSize
      BY <3>2
    <3> QED
      BY <3>1, <3>2, <3>3, <3>5, <3>6, <3>7, <3>8 DEF Typing, TypeOK
  <2>2. CASE ~ linger
    BY <1>14, <2>2 DEF Typing, TypeOK, WriteRest, clientVars, parseVars
  <2> QED
    BY <2>1, <2>2
<1>15. CASE UNCHANGED vars
  BY <1>15 DEF Typing, TypeOK, vars, clientVars, parseVars, writeVars
<1> QED
  BY <1>1, <1>2, <1>3, <1>4, <1>5, <1>6, <1>7, <1>8, <1>9, <1>10, <1>11, <1>12, <1>13,
     <1>14, <1>15 DEF Next, Process, WriteNothing, Ended

(* The first state has the types. *)
LEMMA InitTyping == Init => Typing
<1> SUFFICES ASSUME Init PROVE Typing
  OBVIOUS
<1>1. buf = << >> /\ wire = << >> /\ sent = << >> /\ answered = << >>
  BY DEF Init
<1>2. buf \in Seq(Bytes(Len(sent))) /\ wire \in Seq(Bytes(Len(sent)))
      /\ sent \in Seq(Messages) /\ answered \in Seq({}) /\ Len(sent) = 0 /\ Len(buf) = 0
  BY <1>1
<1>3. TypeOK
  <2>1. checked \in 0 .. Len(buf) /\ start \in 0 .. checked /\ parsed \in 0 .. Len(sent)
    BY <1>2 DEF Init
  <2>2. Len(buf) <= ReadBufSize /\ Len(sent) <= MaxMessages
    BY <1>2, Sizes
  <2>3. {lineOk, linger, rescanned, piped, cutHead} \subseteq BOOLEAN
    BY DEF Init
  <2>4. length \in Int /\ toSend \in Nat /\ bytesSent \in Nat
    BY DEF Init
  <2> QED
    BY <1>2, <2>1, <2>2, <2>3, <2>4 DEF Init, TypeOK
<1> QED
  BY <1>2, <1>3 DEF Init, Typing

(* Every variable has its type, the parser never looks beyond what was     *)
(* received, and the read buffer never overflows: for any messages, sizes  *)
(* and cuts of the input.                                                  *)
THEOREM HttpTyping == Spec => []TypeOK
<1>1. Init => Typing
  BY InitTyping
<1>2. Typing /\ [Next]_vars => Typing'
  BY TypingStep
<1>3. Typing => TypeOK
  BY DEF Typing
<1> QED
  BY <1>1, <1>2, <1>3, PTL DEF Spec

-----------------------------------------------------------------------------
(* Routing *)

(* An answer of the gateway is that of the handler that Router::route      *)
(* gives for its message.                                                  *)
Routed == \A k \in 1 .. Len(answered) : answered[k].code = "ApiResponse" =>
            /\ answered[k].msg \in 1 .. Len(sent)
            /\ answered[k].handler = Route(sent[answered[k].msg].method,
                                           sent[answered[k].msg].path)

(* How a step changes the answers and the messages. *)
LEMMA AnsweredStep ==
  ASSUME Typing, [Next]_vars
  PROVE  \/ UNCHANGED <<answered, sent>>
         \/ answered' = answered /\ \E m \in Messages : Send(m)
         \/ /\ Answer("BadRequest", NoRoute, << >>) /\ UNCHANGED sent
         \/ /\ \E body : DoRequest(body)
            /\ UNCHANGED sent /\ parsed \in 1 .. Len(sent)
<1>0. parsed \in 0 .. Len(sent) /\ Len(sent) \in Nat /\ (check # "RequestLine" => parsed # 0)
  BY LenProperties DEF Typing, TypeOK
<1>a. check # "RequestLine" => parsed \in 1 .. Len(sent)
  BY <1>0
<1>1. ASSUME NEW m \in Messages, Send(m) PROVE answered' = answered
  BY <1>1 DEF Send
<1>2. ASSUME NEW n, Read(n) PROVE UNCHANGED <<answered, sent>>
  BY <1>2 DEF Read
<1>3. CASE ReadFull \/ Disconnect
  BY <1>3 DEF ReadFull, Disconnect, Close, clientVars
<1>5. CASE NoLine
  BY <1>5 DEF NoLine, clientVars
<1>6. CASE RequestLine
  BY <1>6 DEF RequestLine, clientVars
<1>7. CASE Header
  BY <1>7 DEF Header, clientVars
<1>8. CASE HeaderThrows
  BY <1>8 DEF HeaderThrows, clientVars
<1>9. CASE HeadersEnd
  BY <1>9 DEF HeadersEnd, clientVars
<1>10. CASE BadRequestLine
  BY <1>10 DEF BadRequestLine, clientVars
<1>11. CASE RequestWithoutBody
  BY <1>a, <1>11 DEF RequestWithoutBody, clientVars
<1>12. CASE Content
  <2>1. check = "Content" /\ UNCHANGED sent
    BY <1>12 DEF Content, clientVars
  <2>2. \/ \E body : DoRequest(body)
        \/ UNCHANGED answered
    BY <1>12, ContentFacts
  <2> QED
    BY <1>a, <2>1, <2>2
<1>13. ASSUME NEW n, WritePart(n) PROVE UNCHANGED <<answered, sent>>
  BY <1>13 DEF WritePart, clientVars
<1>14. CASE WriteRest
  BY <1>14 DEF WriteRest, clientVars
<1>15. CASE UNCHANGED vars
  BY <1>15 DEF vars, clientVars
<1> QED
  BY <1>1, <1>2, <1>3, <1>5, <1>6, <1>7, <1>8, <1>9, <1>10, <1>11, <1>12, <1>13,
     <1>14, <1>15 DEF Next, Process, WriteNothing, Ended

(* Every step keeps the answers routed. *)
LEMMA RoutedStep ==
  ASSUME Typing, Routed, [Next]_vars
  PROVE  Routed'
<1>1. CASE UNCHANGED <<answered, sent>>
  BY <1>1 DEF Routed
<1>2. ASSUME answered' = answered, NEW m \in Messages, Send(m) PROVE Routed'
  <2>1. /\ Len(sent) \in Nat /\ Len(sent') = Len(sent) + 1
        /\ \A k \in 1 .. Len(sent) : sent'[k] = sent[k]
    BY <1>2, SendFacts
  <2> SUFFICES ASSUME NEW k \in 1 .. Len(answered), answered[k].code = "ApiResponse"
               PROVE  /\ answered[k].msg \in 1 .. Len(sent')
                      /\ answered[k].handler = Route(sent'[answered[k].msg].method,
                                                     sent'[answered[k].msg].path)
    BY <1>2 DEF Routed
  <2>2. /\ answered[k].msg \in 1 .. Len(sent)
        /\ answered[k].handler = Route(sent[answered[k].msg].method,
                                       sent[answered[k].msg].path)
    BY DEF Routed
  <2>3. sent'[answered[k].msg] = sent[answered[k].msg] /\ answered[k].msg \in 1 .. Len(sent')
    BY <2>1, <2>2
  <2> QED
    BY <2>2, <2>3
<1>3. ASSUME NEW e, answered' = Append(answered, e), UNCHANGED sent,
             e.code = "ApiResponse" => /\ e.msg \in 1 .. Len(sent)
                                       /\ e.handler = Route(sent[e.msg].method, sent[e.msg].path)
      PROVE  Routed'
  <2>1. /\ Len(answered) \in Nat /\ Len(answered') = Len(answered) + 1
        /\ \A k \in 1 .. Len(answered) : answered'[k] = answered[k]
        /\ answered'[Len(answered) + 1] = e
    BY <1>3, Appended DEF Typing
  <2> SUFFICES ASSUME NEW k \in 1 .. Len(answered'), answered'[k].code = "ApiResponse"
               PROVE  /\ answered'[k].msg \in 1 .. Len(sent)
                      /\ answered'[k].handler = Route(sent[answered'[k].msg].method,
                                                      sent[answered'[k].msg].path)
    BY <1>3 DEF Routed
  <2>2. CASE k = Len(answered) + 1
    BY <1>3, <2>1, <2>2
  <2>3. CASE k # Len(answered) + 1
    <3>1. k \in 1 .. Len(answered) /\ answered'[k] = answered[k]
      BY <2>1, <2>3
    <3> QED
      BY <3>1 DEF Routed
  <2> QED
    BY <2>2, <2>3
<1>4. CASE Answer("BadRequest", NoRoute, << >>) /\ UNCHANGED sent
  <2> DEFINE e == [msg |-> parsed, code |-> "BadRequest", handler |-> NoRoute,
                   body |-> << >>, linger |-> linger]
  <2>1. answered' = Append(answered, e) /\ e.code # "ApiResponse"
    BY <1>4 DEF Answer
  <2> HIDE DEF e
  <2> QED
    BY <1>3, <1>4, <2>1
<1>5. ASSUME NEW body, DoRequest(body), UNCHANGED sent, parsed \in 1 .. Len(sent)
      PROVE  Routed'
  <2> DEFINE m == sent[parsed]
  <2>1. PICK code \in Codes(m) :
          Answer(code, IF IsApi(m) THEN Route(m.method, m.path) ELSE NoRoute, body)
    BY <1>5 DEF DoRequest
  <2> DEFINE e == [msg |-> parsed, code |-> code,
                   handler |-> IF IsApi(m) THEN Route(m.method, m.path) ELSE NoRoute,
                   body |-> body, linger |-> linger]
  <2>2. answered' = Append(answered, e)
    BY <2>1 DEF Answer
  <2>3. code = "ApiResponse" => IsApi(m)
    BY DEF Codes, FileCodes
  <2>4. e.code = "ApiResponse" => /\ e.msg \in 1 .. Len(sent)
                                  /\ e.handler = Route(sent[e.msg].method, sent[e.msg].path)
    BY <1>5, <2>3
  <2> HIDE DEF e
  <2> QED
    BY <1>3, <1>5, <2>2, <2>4
<1> QED
  BY <1>1, <1>2, <1>4, <1>5, AnsweredStep

(* Every request for the gateway is answered by the route that names the   *)
(* most of its path, and there is only one such route: for any method and  *)
(* path that a client may send.                                            *)
THEOREM HttpRoutes == Spec => []RoutedToMostSpecific
<1>1. Init => Typing /\ Routed
  <2>1. Init => Typing
    BY InitTyping
  <2>2. Init => Routed
    <3> SUFFICES ASSUME Init PROVE Routed
      OBVIOUS
    <3>1. Len(answered) = 0
      BY DEF Init
    <3> QED
      BY <3>1 DEF Routed
  <2> QED
    BY <2>1, <2>2
<1>2. Typing /\ Routed /\ [Next]_vars => Typing' /\ Routed'
  BY TypingStep, RoutedStep
<1>3. Typing /\ Routed => RoutedToMostSpecific
  <2> SUFFICES ASSUME Typing, Routed, NEW k \in DOMAIN answered,
                      answered[k].code = "ApiResponse"
               PROVE  MostSpecific(sent[answered[k].msg].method, sent[answered[k].msg].path)
                        = {answered[k].handler}
    BY DEF RoutedToMostSpecific
  <2>1. k \in 1 .. Len(answered)
    BY Appended DEF Typing
  <2> DEFINE m == sent[answered[k].msg]
  <2>2. answered[k].msg \in 1 .. Len(sent) /\ answered[k].handler = Route(m.method, m.path)
    BY <2>1 DEF Routed
  <2>3. m \in Messages
    BY <2>2, ElementOfSeq DEF Typing, TypeOK
  <2>4. m.path.parts \in Seq(STRING) /\ m.path.plain \in BOOLEAN
    BY <2>3, MessageFacts
  <2> HIDE DEF m
  <2> QED
    BY <2>2, <2>4, RouteIsMostSpecific DEF m
<1> QED
  BY <1>1, <1>2, <1>3, PTL DEF Spec

-----------------------------------------------------------------------------
(* The bytes of an answer *)

OutBytes == {"head", "file", "api", "junk"} \X Nat

(* One piece, and two pieces, flattened. *)
LEMMA FlattenTwo ==
  ASSUME NEW S, NEW s \in Seq(Seq(S))
  PROVE  /\ Len(s) = 1 => FlattenSeq(s) = s[1]
         /\ Len(s) = 2 => FlattenSeq(s) = s[1] \o s[2]
<1>1. ASSUME Len(s) = 1 PROVE FlattenSeq(s) = s[1]
  <2>1. PICK f : FlatEq(f, s, Len(s)) /\ FlattenSeq(s) = f[Len(s)]
    <3>1. Len(s) \in Nat \ {0}
      BY <1>1
    <3> QED
      BY <3>1, FlatDef
  <2> QED
    BY <1>1, <2>1 DEF FlatEq
<1>2. ASSUME Len(s) = 2 PROVE FlattenSeq(s) = s[1] \o s[2]
  <2>1. PICK f : FlatEq(f, s, Len(s)) /\ FlattenSeq(s) = f[Len(s)]
    <3>1. Len(s) \in Nat \ {0}
      BY <1>2
    <3> QED
      BY <3>1, FlatDef
  <2>2. \A i \in 1 .. 2 : f[i] = IF i = 1 THEN s[i] ELSE f[i - 1] \o s[i]
    BY <1>2, <2>1 DEF FlatEq
  <2>3. f[1] = s[1] /\ f[2] = f[1] \o s[2]
    <3>1. 1 \in 1 .. 2 /\ 2 \in 1 .. 2 /\ 2 # 1 /\ 2 - 1 = 1
      OBVIOUS
    <3>2. f[2] = f[2 - 1] \o s[2]
      BY <2>2, <3>1
    <3> QED
      BY <2>2, <3>1, <3>2
  <2> QED
    BY <1>2, <2>1, <2>3
<1> QED
  BY <1>1, <1>2

IsPiece(p) == p.base \in {"head", "file", "api"} /\ p.off \in Nat /\ p.len \in Nat

ByteAt(p, i) == IF p.off + i - 1 \in 0 .. Size(p.base) - 1
                THEN <<p.base, p.off + i - 1>> ELSE <<"junk", 0>>

(* The bytes of one piece. *)
LEMMA PieceFacts ==
  ASSUME NEW p, IsPiece(p)
  PROVE  /\ BytesOf(p) \in Seq(OutBytes) /\ Len(BytesOf(p)) = p.len
         /\ \A i \in 1 .. p.len : BytesOf(p)[i] = ByteAt(p, i)
<1> DEFINE s == [i \in 1 .. p.len |-> ByteAt(p, i)]
<1>1. BytesOf(p) = s
  BY DEF BytesOf, ByteAt
<1>2. \A i \in 1 .. p.len : ByteAt(p, i) \in OutBytes
  BY DEF ByteAt, OutBytes, IsPiece
<1>3. p.len \in Nat
  BY DEF IsPiece
<1>4. s \in Seq(OutBytes) /\ DOMAIN s = 1 .. p.len /\ \A i \in 1 .. p.len : s[i] = ByteAt(p, i)
  BY <1>2, <1>3, IsASeq
<1> HIDE DEF s
<1>5. Len(s) = p.len
  BY <1>3, <1>4, LenProperties
<1> QED
  BY <1>1, <1>4, <1>5

FlatBytes(v) == FlattenSeq([i \in DOMAIN v |-> BytesOf(v[i])])

(* The bytes of a vector of one or two pieces. *)
LEMMA VectorFacts ==
  ASSUME NEW p, NEW q, IsPiece(p), IsPiece(q)
  PROVE  /\ FlatBytes(<<p>>) = BytesOf(p)
         /\ FlatBytes(<<p, q>>) = BytesOf(p) \o BytesOf(q)
<1> DEFINE a == BytesOf(p)
           b == BytesOf(q)
<1>1. a \in Seq(OutBytes) /\ b \in Seq(OutBytes)
  BY PieceFacts
<1>2. FlatBytes(<<p>>) = FlattenSeq(<<a>>)
  <2>1. [i \in DOMAIN <<p>> |-> BytesOf(<<p>>[i])] = <<a>>
    OBVIOUS
  <2> QED
    BY <2>1 DEF FlatBytes
<1>3. FlatBytes(<<p, q>>) = FlattenSeq(<<a, b>>)
  <2>1. [i \in DOMAIN <<p, q>> |-> BytesOf(<<p, q>>[i])] = <<a, b>>
    OBVIOUS
  <2> QED
    BY <2>1 DEF FlatBytes
<1> HIDE DEF a, b
<1>4. FlattenSeq(<<a>>) = a /\ FlattenSeq(<<a, b>>) = a \o b
  <2>1. /\ <<a>> \in Seq(Seq(OutBytes)) /\ Len(<<a>>) = 1
        /\ <<a, b>> \in Seq(Seq(OutBytes)) /\ Len(<<a, b>>) = 2
    BY <1>1
  <2>2. FlattenSeq(<<a>>) = <<a>>[1] /\ FlattenSeq(<<a, b>>) = <<a, b>>[1] \o <<a, b>>[2]
    BY <2>1, FlattenTwo
  <2> QED
    BY <2>2
<1> QED
  BY <1>2, <1>3, <1>4 DEF a, b

(* The bytes of the second piece are behind those of the first. *)
LEMMA SecondPiece ==
  ASSUME NEW p, NEW q, IsPiece(p), IsPiece(q)
  PROVE  /\ FlatBytes(<<p, q>>) \in Seq(OutBytes)
         /\ Len(FlatBytes(<<p, q>>)) = p.len + q.len
         /\ \A k \in 1 .. q.len : FlatBytes(<<p, q>>)[p.len + k] = ByteAt(q, k)
<1> DEFINE a == BytesOf(p)
           b == BytesOf(q)
           f == FlatBytes(<<p, q>>)
<1>1. /\ a \in Seq(OutBytes) /\ Len(a) = p.len
      /\ b \in Seq(OutBytes) /\ Len(b) = q.len /\ \A k \in 1 .. q.len : b[k] = ByteAt(q, k)
  BY PieceFacts
<1>2. f = a \o b
  BY VectorFacts
<1> HIDE DEF a, b, f
<1>3. /\ a \o b \in Seq(OutBytes) /\ Len(a \o b) = Len(a) + Len(b)
      /\ \A k \in 1 .. Len(b) : (a \o b)[Len(a) + k] = b[k]
  <2>1. a \in Seq(OutBytes) /\ b \in Seq(OutBytes)
    BY <1>1
  <2> QED
    BY <2>1, Joined
<1>4. /\ f \in Seq(OutBytes) /\ Len(f) = p.len + q.len
      /\ \A k \in 1 .. q.len : f[p.len + k] = ByteAt(q, k)
  BY <1>1, <1>2, <1>3
<1> QED
  BY <1>4 DEF f

Total == IF Code = "FileRequest" THEN HeadLen + FileLen
         ELSE IF Code = "ApiResponse" THEN ApiLen ELSE HeadLen

HeadPiece(n) == [base |-> "head", off |-> 0, len |-> n]
FilePiece(off, n) == [base |-> "file", off |-> off, len |-> n]

(* The whole answer. *)
LEMMA ExpectedFacts ==
  /\ Expected \in Seq(OutBytes) /\ Len(Expected) = Total /\ Total \in Nat
  /\ Code = "FileRequest" =>
       \A i \in 1 .. FileLen : Expected[HeadLen + i] = <<"file", i - 1>>
<1>1. Total \in Nat
  BY Sizes DEF Total
<1>2. Expected = FlatBytes(Pieces(Code))
  BY DEF Expected, FlatBytes
<1>3. CASE Code = "FileRequest"
  <2> DEFINE p == HeadPiece(HeadLen)
             q == FilePiece(0, FileLen)
  <2>1. Pieces(Code) = <<p, q>>
    BY <1>3 DEF Pieces, HeadPiece, FilePiece
  <2>2. IsPiece(p) /\ IsPiece(q) /\ p.len = HeadLen /\ q.len = FileLen
    BY Sizes DEF IsPiece, HeadPiece, FilePiece
  <2>3. ASSUME NEW i \in 1 .. FileLen PROVE ByteAt(q, i) = <<"file", i - 1>>
    <3>1. Size("file") = FileLen
      BY DEF Size
    <3>2. q.base = "file" /\ q.off = 0 /\ 0 + i - 1 = i - 1 /\ i - 1 \in 0 .. FileLen - 1
      BY Sizes DEF FilePiece
    <3> HIDE DEF q
    <3> QED
      BY <3>1, <3>2 DEF ByteAt
  <2> HIDE DEF p, q
  <2>4. /\ FlatBytes(<<p, q>>) \in Seq(OutBytes)
        /\ Len(FlatBytes(<<p, q>>)) = HeadLen + FileLen
        /\ \A i \in 1 .. FileLen : FlatBytes(<<p, q>>)[HeadLen + i] = ByteAt(q, i)
    <3>1. /\ FlatBytes(<<p, q>>) \in Seq(OutBytes)
          /\ Len(FlatBytes(<<p, q>>)) = p.len + q.len
          /\ \A i \in 1 .. q.len : FlatBytes(<<p, q>>)[p.len + i] = ByteAt(q, i)
      <4>1. IsPiece(p) /\ IsPiece(q)
        BY <2>2
      <4> QED
        BY <4>1, SecondPiece
    <3> QED
      BY <2>2, <3>1
  <2> QED
    BY <1>1, <1>2, <1>3, <2>1, <2>3, <2>4 DEF Total
<1>4. CASE Code # "FileRequest"
  <2> DEFINE p == IF Code = "ApiResponse" THEN [base |-> "api", off |-> 0, len |-> ApiLen]
                  ELSE HeadPiece(HeadLen)
  <2>1. Pieces(Code) = <<p>>
    BY <1>4 DEF Pieces, HeadPiece
  <2>2. IsPiece(p) /\ p.len = Total
    BY <1>4, Sizes DEF IsPiece, HeadPiece, Total
  <2> HIDE DEF p
  <2>3. Expected = BytesOf(p)
    BY <1>2, <2>1, <2>2, VectorFacts
  <2> QED
    BY <1>1, <1>4, <2>2, <2>3, PieceFacts
<1> QED
  BY <1>3, <1>4

(* What writev is about to send, and what the client has got, as long as   *)
(* the first piece was not cut: it is still whole, or gone and the second  *)
(* one has been moved on.                                                  *)
Whole ==
  /\ ~ cutHead => /\ got \in Seq(OutBytes) /\ Len(got) <= Total
                  /\ \A i \in 1 .. Len(got) : got[i] = Expected[i]
  /\ pc = "out" /\ ~ cutHead =>
       /\ Len(got) = bytesSent /\ bytesSent + toSend = Total
       /\ \/ bytesSent = 0 /\ iov = Pieces(Code)
          \/ /\ Code = "FileRequest" /\ bytesSent >= HeadLen
             /\ iov = <<HeadPiece(0), FilePiece(bytesSent - HeadLen, toSend)>>

(* The pieces hold the rest of the answer. *)
LEMMA OutgoingFacts ==
  ASSUME Typing, Whole, pc = "out", ~ cutHead
  PROVE  /\ Outgoing \in Seq(OutBytes) /\ Len(Outgoing) = toSend
         /\ \A i \in 1 .. toSend : Outgoing[i] = Expected[bytesSent + i]
<1>0. Outgoing = FlatBytes(iov)
  BY DEF Outgoing, FlatBytes
<1>a. bytesSent \in Nat /\ toSend \in Nat /\ bytesSent + toSend = Total
  BY DEF Typing, TypeOK, Whole
<1>1. CASE bytesSent = 0 /\ iov = Pieces(Code)
  <2>1. Outgoing = Expected
    BY <1>0, <1>1 DEF Expected, FlatBytes
  <2>2. toSend = Total
    BY <1>1, <1>a
  <2>3. \A i \in 1 .. toSend : bytesSent + i = i
    BY <1>1, <1>a
  <2> QED
    BY <2>1, <2>2, <2>3, ExpectedFacts
<1>2. CASE /\ Code = "FileRequest" /\ bytesSent >= HeadLen
           /\ iov = <<HeadPiece(0), FilePiece(bytesSent - HeadLen, toSend)>>
  <2> DEFINE p == HeadPiece(0)
             q == FilePiece(bytesSent - HeadLen, toSend)
  <2>1. Total = HeadLen + FileLen
    BY <1>2 DEF Total
  <2>2. /\ IsPiece(p) /\ IsPiece(q) /\ p.len = 0 /\ q.len = toSend
        /\ q.base = "file" /\ q.off = bytesSent - HeadLen
    BY <1>2, <1>a, Sizes DEF IsPiece, HeadPiece, FilePiece
  <2>3. ASSUME NEW i \in 1 .. toSend PROVE ByteAt(q, i) = Expected[bytesSent + i]
    <3> DEFINE j == bytesSent - HeadLen + i
    <3>1. j \in 1 .. FileLen /\ HeadLen + j = bytesSent + i
      BY <1>2, <1>a, <2>1, Sizes
    <3>2. Size("file") = FileLen
      BY DEF Size
    <3>3. q.off + i - 1 = j - 1 /\ j - 1 \in 0 .. FileLen - 1
      BY <1>a, <2>2, <3>1, Sizes
    <3> HIDE DEF j, q
    <3>4. ByteAt(q, i) = <<"file", j - 1>>
      BY <2>2, <3>2, <3>3 DEF ByteAt
    <3>5. Expected[HeadLen + j] = <<"file", j - 1>>
      BY <1>2, <3>1, ExpectedFacts
    <3> QED
      BY <3>1, <3>4, <3>5
  <2> HIDE DEF p, q
  <2>4. /\ FlatBytes(<<p, q>>) \in Seq(OutBytes)
        /\ Len(FlatBytes(<<p, q>>)) = 0 + toSend
        /\ \A i \in 1 .. toSend : FlatBytes(<<p, q>>)[0 + i] = ByteAt(q, i)
    <3>1. /\ FlatBytes(<<p, q>>) \in Seq(OutBytes)
          /\ Len(FlatBytes(<<p, q>>)) = p.len + q.len
          /\ \A i \in 1 .. q.len : FlatBytes(<<p, q>>)[p.len + i] = ByteAt(q, i)
      <4>1. IsPiece(p) /\ IsPiece(q)
        BY <2>2
      <4> QED
        BY <4>1, SecondPiece
    <3> QED
      BY <2>2, <3>1
  <2>5. FlatBytes(<<p, q>>) = Outgoing
    BY <1>0, <1>2 DEF p, q
  <2>6. Len(Outgoing) = toSend
    BY <1>a, <2>4, <2>5
  <2>7. \A i \in 1 .. toSend : 0 + i = i
    OBVIOUS
  <2> QED
    BY <2>3, <2>4, <2>5, <2>6, <2>7
<1> QED
  BY <1>1, <1>2 DEF Whole

(* The answer is what it was while no other is begun. *)
LEMMA SameAnswer ==
  ASSUME UNCHANGED answered
  PROVE  Code' = Code /\ Total' = Total /\ Expected' = Expected
<1>1. Code' = Code
  BY DEF Code
<1>2. Total' = Total
  BY <1>1 DEF Total
<1>3. \A base : Size(base)' = Size(base)
  BY <1>1 DEF Size
<1>4. \A piece : BytesOf(piece)' = BytesOf(piece)
  BY <1>3 DEF BytesOf
<1>5. Expected' = Expected
  BY <1>1, <1>4 DEF Expected
<1> QED
  BY <1>1, <1>2, <1>5

(* How a step changes what is being sent. *)
LEMMA WritingStep ==
  ASSUME Typing, [Next]_vars
  PROVE  \/ /\ UNCHANGED <<answered, got, cutHead>>
            /\ pc' # "out" \/ UNCHANGED <<pc, iov, toSend, bytesSent>>
         \/ \E code, handler, body : Answer(code, handler, body)
         \/ \E n : WritePart(n)
         \/ WriteRest
<1>1. ASSUME NEW m \in Messages, Send(m)
      PROVE  UNCHANGED <<answered, got, cutHead, pc, iov, toSend, bytesSent>>
  BY <1>1 DEF Send, writeVars
<1>2. ASSUME NEW n, Read(n) PROVE UNCHANGED <<answered, got, cutHead>> /\ pc' # "out"
  BY <1>2 DEF Read
<1>3. CASE ReadFull \/ Disconnect
  BY <1>3 DEF ReadFull, Disconnect, Close
<1>5. CASE NoLine
  BY <1>5 DEF NoLine
<1>6. CASE RequestLine
  BY <1>6 DEF RequestLine, writeVars
<1>7. CASE Header
  BY <1>7 DEF Header, writeVars
<1>8. CASE HeaderThrows
  BY <1>8 DEF HeaderThrows
<1>9. CASE HeadersEnd
  BY <1>9 DEF HeadersEnd, writeVars
<1>10. CASE BadRequestLine
  BY <1>10 DEF BadRequestLine
<1>11. ASSUME NEW body, DoRequest(body)
       PROVE  \E code, handler, b : Answer(code, handler, b)
  BY <1>11 DEF DoRequest
<1>12. CASE RequestWithoutBody
  BY <1>11, <1>12 DEF RequestWithoutBody
<1>13. CASE Content
  BY <1>11, <1>13, ContentFacts DEF writeVars
<1>14. CASE UNCHANGED vars
  BY <1>14 DEF vars, writeVars
<1> QED
  BY <1>1, <1>2, <1>3, <1>5, <1>6, <1>7, <1>8, <1>9, <1>10, <1>12, <1>13, <1>14
     DEF Next, Process, WriteNothing, Ended

(* The client gets a piece more, from the bytes that were to come. *)
LEMMA GotMore ==
  ASSUME Typing, Whole, pc = "out", ~ cutHead, NEW n \in 1 .. toSend,
         got' = got \o SubSeq(Outgoing, 1, n)
  PROVE  /\ got' \in Seq(OutBytes) /\ Len(got') = bytesSent + n /\ Len(got') <= Total
         /\ \A i \in 1 .. Len(got') : got'[i] = Expected[i]
<1> DEFINE more == SubSeq(Outgoing, 1, n)
<1>1. /\ got \in Seq(OutBytes) /\ Len(got) = bytesSent /\ bytesSent + toSend = Total
      /\ \A i \in 1 .. bytesSent : got[i] = Expected[i]
  BY DEF Whole
<1>2. bytesSent \in Nat /\ toSend \in Nat
  BY DEF Typing, TypeOK
<1>3. /\ Outgoing \in Seq(OutBytes) /\ Len(Outgoing) = toSend
      /\ \A i \in 1 .. toSend : Outgoing[i] = Expected[bytesSent + i]
  BY OutgoingFacts
<1>4. \A i \in 1 .. n : Outgoing[i] \in OutBytes
  BY <1>2, <1>3, ElementOfSeq
<1>5. more \in Seq(OutBytes) /\ Len(more) = n /\ \A i \in 1 .. n : more[i] = Outgoing[i]
  BY <1>2, <1>4, SubSeqProperties
<1> HIDE DEF more
<1>6. /\ got \o more \in Seq(OutBytes) /\ Len(got \o more) = Len(got) + Len(more)
      /\ \A i \in 1 .. Len(got) : (got \o more)[i] = got[i]
      /\ \A i \in 1 .. Len(more) : (got \o more)[Len(got) + i] = more[i]
  <2>1. got \in Seq(OutBytes) /\ more \in Seq(OutBytes)
    BY <1>1, <1>5
  <2> QED
    BY <2>1, Joined
<1>7. /\ got' \in Seq(OutBytes) /\ Len(got') = bytesSent + n
      /\ \A i \in 1 .. bytesSent : got'[i] = got[i]
      /\ \A i \in 1 .. n : got'[bytesSent + i] = more[i]
  BY <1>1, <1>5, <1>6 DEF more
<1>8. ASSUME NEW i \in 1 .. bytesSent + n PROVE got'[i] = Expected[i]
  <2>1. CASE i <= bytesSent
    BY <1>1, <1>2, <1>7, <2>1
  <2>2. CASE ~ (i <= bytesSent)
    <3> DEFINE j == i - bytesSent
    <3>1. j \in 1 .. n /\ j \in 1 .. toSend /\ i = bytesSent + j
      BY <1>2, <2>2
    <3> HIDE DEF j
    <3> QED
      BY <1>3, <1>5, <1>7, <3>1
  <2> QED
    BY <2>1, <2>2
<1> QED
  BY <1>1, <1>2, <1>7, <1>8

(* The file goes on behind what was sent. *)
LEMMA AdjustedFacts ==
  ASSUME NEW n, NEW w, NEW p, iov = <<HeadPiece(w), p>>, bytesSent + n >= iov[1].len
  PROVE  Adjusted(n) = <<HeadPiece(0), FilePiece((bytesSent + n) - HeadLen, toSend - n)>>
<1> DEFINE g == [iov[1] EXCEPT !.len = 0]
           h == HeadPiece(0)
           f == [base |-> "file", off |-> (bytesSent + n) - HeadLen, len |-> toSend - n]
           z == Adjusted(n)
<1>1. z = [i \in DOMAIN iov |-> IF i = 1 THEN g ELSE f]
  BY DEF Adjusted
<1>2. DOMAIN iov = 1 .. 2 /\ iov[1] = HeadPiece(w)
  OBVIOUS
<1>3. g = h
  BY <1>2 DEF HeadPiece
<1>4. f = FilePiece((bytesSent + n) - HeadLen, toSend - n)
  BY DEF FilePiece
<1> HIDE DEF g, h, f, z
<1>5. z = [i \in 1 .. 2 |-> IF i = 1 THEN h ELSE f]
  BY <1>1, <1>2, <1>3
<1>6. z = <<h, f>>
  BY <1>5
<1> QED
  BY <1>4, <1>6 DEF h, z

(* Every step keeps the answer whole. *)
LEMMA WholeStep ==
  ASSUME Typing, Whole, [Next]_vars
  PROVE  Whole'
<1>1. CASE /\ UNCHANGED <<answered, got, cutHead>>
           /\ pc' # "out" \/ UNCHANGED <<pc, iov, toSend, bytesSent>>
  <2>1. Code' = Code /\ Total' = Total /\ Expected' = Expected
    BY <1>1, SameAnswer
  <2>2. CASE pc' # "out"
    BY <1>1, <2>1, <2>2 DEF Whole
  <2>3. CASE UNCHANGED <<pc, iov, toSend, bytesSent>>
    BY <1>1, <2>1, <2>3 DEF Whole
  <2> QED
    BY <1>1, <2>2, <2>3
<1>2. ASSUME NEW code, NEW handler, NEW body, Answer(code, handler, body) PROVE Whole'
  <2> DEFINE e == [msg |-> parsed, code |-> code, handler |-> handler, body |-> body,
                   linger |-> linger]
  <2>1. /\ answered' = Append(answered, e) /\ e.code = code /\ got' = << >>
        /\ iov' = Pieces(code) /\ bytesSent' = 0
        /\ toSend' = IF code = "FileRequest" THEN HeadLen + FileLen
                     ELSE IF code = "ApiResponse" THEN ApiLen ELSE HeadLen
    BY <1>2 DEF Answer
  <2> HIDE DEF e
  <2>2. answered'[Len(answered')] = e
    BY <2>1, Appended DEF Typing
  <2>3. Code' = code
    BY <2>1, <2>2 DEF Code
  <2>4. Total' = toSend' /\ Total' \in Nat
    BY <2>1, <2>3, Sizes DEF Total
  <2>5. Pieces(Code)' = Pieces(Code')
    BY DEF Pieces
  <2>6. got' \in Seq(OutBytes) /\ Len(got') = 0
    BY <2>1
  <2>7. \A i \in 1 .. Len(got') : got'[i] = Expected'[i]
    BY <2>6
  <2>8. Len(got') <= Total' /\ Len(got') = bytesSent' /\ bytesSent' + toSend' = Total'
    BY <2>1, <2>4, <2>6
  <2>9. bytesSent' = 0 /\ iov' = Pieces(Code)'
    BY <2>1, <2>3, <2>5
  <2> QED
    BY <2>6, <2>7, <2>8, <2>9 DEF Whole
<1>3. ASSUME NEW n, WritePart(n) PROVE Whole'
  <2>0. /\ UNCHANGED <<answered, pc>> /\ pc = "out"
        /\ cutHead' = (cutHead \/ bytesSent + n < Pieces(Code)[1].len)
    BY <1>3 DEF WritePart
  <2>1. Code' = Code /\ Total' = Total /\ Expected' = Expected
    BY <2>0, SameAnswer
  <2>2. CASE cutHead'
    BY <2>2 DEF Whole
  <2>3. CASE ~ cutHead'
    <3>1. ~ cutHead /\ ~ (bytesSent + n < Pieces(Code)[1].len)
      BY <2>0, <2>3
    <3>2. bytesSent \in Nat /\ toSend \in Nat /\ n \in 1 .. toSend /\ n < toSend /\ n \in Nat
      BY <1>3, SMTT(30) DEF WritePart, Typing, TypeOK
    <3>3. /\ got' \in Seq(OutBytes) /\ Len(got') = bytesSent + n /\ Len(got') <= Total
          /\ \A i \in 1 .. Len(got') : got'[i] = Expected[i]
      BY <1>3, <2>0, <3>1, <3>2, GotMore DEF WritePart
    <3>4. bytesSent' = bytesSent + n /\ toSend' = toSend - n /\ iov' = Adjusted(n)
      BY <1>3 DEF WritePart
    <3>5. bytesSent + toSend = Total
      BY <2>0, <3>1 DEF Whole
    <3>6. Code = "FileRequest"
      <4>1. CASE bytesSent = 0 /\ Code # "FileRequest"
        <5>1. Pieces(Code)[1].len = Total
          BY <4>1 DEF Pieces, Total
        <5> QED
          BY <3>1, <3>2, <3>5, <4>1, <5>1
      <4> QED
        BY <2>0, <3>1, <4>1 DEF Whole
    <3>7. bytesSent + n >= HeadLen
      <4>1. Pieces(Code)[1].len = HeadLen
        BY <3>6 DEF Pieces
      <4> QED
        BY <3>1, <3>2, <4>1, Sizes
    <3>8. \E w \in {0, HeadLen} : \E p : iov = <<HeadPiece(w), p>> /\ (w = 0 \/ bytesSent = 0)
      <4>1. CASE bytesSent = 0 /\ iov = Pieces(Code)
        <5>1. iov = <<HeadPiece(HeadLen), FilePiece(0, FileLen)>>
          BY <3>6, <4>1 DEF Pieces, HeadPiece, FilePiece
        <5> QED
          BY <4>1, <5>1
      <4>2. CASE iov = <<HeadPiece(0), FilePiece(bytesSent - HeadLen, toSend)>>
        BY <4>2
      <4> QED
        BY <2>0, <3>1, <4>1, <4>2 DEF Whole
    <3>9. PICK w \in {0, HeadLen} :
                 \E p : iov = <<HeadPiece(w), p>> /\ (w = 0 \/ bytesSent = 0)
      BY <3>8
    <3>10. PICK p : iov = <<HeadPiece(w), p>> /\ (w = 0 \/ bytesSent = 0)
      BY <3>9
    <3>11. iov' = <<HeadPiece(0), FilePiece((bytesSent + n) - HeadLen, toSend - n)>>
      <4>1. iov[1] = HeadPiece(w) /\ DOMAIN iov = {1, 2}
        BY <3>10
      <4>2. bytesSent + n >= iov[1].len
        BY <3>2, <3>7, <3>10, <4>1, Sizes DEF HeadPiece
      <4> QED
        BY <3>4, <3>10, <4>2, AdjustedFacts
    <3>12. bytesSent' >= HeadLen /\ bytesSent' + toSend' = Total
      BY <3>2, <3>4, <3>5, <3>7
    <3>13. /\ Code' = "FileRequest" /\ bytesSent' >= HeadLen
           /\ iov' = <<HeadPiece(0), FilePiece(bytesSent' - HeadLen, toSend')>>
      <4>1. bytesSent' - HeadLen = (bytesSent + n) - HeadLen /\ toSend' = toSend - n
        BY <3>2, <3>4, Sizes
      <4>2. iov' = <<HeadPiece(0), FilePiece(bytesSent' - HeadLen, toSend')>>
        BY <3>11, <4>1
      <4> QED
        BY <2>1, <3>6, <3>12, <4>2
    <3> QED
      BY <2>1, <3>3, <3>4, <3>12, <3>13 DEF Whole, HeadPiece, FilePiece
  <2> QED
    BY <2>2, <2>3
<1>4. CASE WriteRest
  <2>0. UNCHANGED <<answered, cutHead>> /\ pc = "out" /\ pc' # "out"
    BY <1>4 DEF WriteRest
  <2>1. Code' = Code /\ Total' = Total /\ Expected' = Expected
    BY <2>0, SameAnswer
  <2>2. CASE cutHead
    BY <2>0, <2>2 DEF Whole
  <2>3. CASE ~ cutHead
    <3>1. toSend \in Nat
      BY DEF Typing, TypeOK
    <3>2. CASE toSend # 0
      <4>1. toSend \in 1 .. toSend
        BY <3>1, <3>2
      <4>2. /\ got' \in Seq(OutBytes) /\ Len(got') <= Total
            /\ \A i \in 1 .. Len(got') : got'[i] = Expected[i]
        BY <1>4, <2>0, <2>3, <4>1, GotMore DEF WriteRest
      <4> QED
        BY <2>0, <2>1, <4>2 DEF Whole
    <3>3. CASE toSend = 0
      <4>1. SubSeq(Outgoing, 1, toSend) = << >>
        BY <3>3, SubSeqEmpty
      <4>2. got' = got
        <5>1. got' = got \o << >> /\ got \in Seq(OutBytes)
          BY <1>4, <2>0, <2>3, <4>1 DEF WriteRest, Whole
        <5> QED
          BY <5>1, ConcatEmptySeq
      <4> QED
        BY <2>0, <2>1, <4>2 DEF Whole
    <3> QED
      BY <3>2, <3>3
  <2> QED
    BY <2>2, <2>3
<1> QED
  BY <1>1, <1>2, <1>3, <1>4, WritingStep

(* An answer whose headers leave in one writev reaches the client whole,   *)
(* wherever the file behind them is cut and however often: for any sizes.  *)
THEOREM HttpFileWhole == Spec => []FileWhole
<1>1. Init => Typing /\ Whole
  <2>1. Init => Typing
    BY InitTyping
  <2>2. Init => Whole
    <3> SUFFICES ASSUME Init PROVE Whole
      OBVIOUS
    <3>1. got \in Seq(OutBytes) /\ Len(got) = 0 /\ pc # "out"
      BY DEF Init
    <3>2. Len(got) <= Total
      BY <3>1, ExpectedFacts
    <3> QED
      BY <3>1, <3>2 DEF Whole
  <2> QED
    BY <2>1, <2>2
<1>2. Typing /\ Whole /\ [Next]_vars => Typing' /\ Whole'
  BY TypingStep, WholeStep
<1>3. Whole => FileWhole
  <2> SUFFICES ASSUME Whole, ~ cutHead PROVE IsPrefix(got, Expected)
    BY DEF FileWhole, ResponseWhole
  <2>1. /\ got \in Seq(OutBytes) /\ Len(got) <= Len(Expected) /\ Expected \in Seq(OutBytes)
        /\ \A i \in 1 .. Len(got) : got[i] = Expected[i]
    BY ExpectedFacts DEF Whole
  <2>2. Len(got) \in Nat /\ Len(Expected) \in Nat
    BY <2>1, LenProperties
  <2> DEFINE s == SubSeq(got, 1, Len(got))
             t == SubSeq(Expected, 1, Len(got))
  <2>3. /\ s \in Seq(OutBytes) /\ Len(s) = Len(got)
        /\ \A i \in 1 .. Len(got) : s[i] = got[i]
    <3>1. \A i \in 1 .. Len(got) : got[i] \in OutBytes
      BY <2>1, ElementOfSeq
    <3> QED
      BY <2>2, <3>1, SubSeqProperties
  <2>4. /\ t \in Seq(OutBytes) /\ Len(t) = Len(got)
        /\ \A i \in 1 .. Len(got) : t[i] = Expected[i]
    <3>1. \A i \in 1 .. Len(got) : Expected[i] \in OutBytes
      BY <2>1, <2>2, ElementOfSeq
    <3> QED
      BY <2>2, <3>1, SubSeqProperties
  <2> HIDE DEF s, t
  <2>5. s = t
    BY <2>1, <2>3, <2>4, SeqEqual
  <2> QED
    BY <2>1, <2>5 DEF s, t, IsPrefix
<1> QED
  BY <1>1, <1>2, <1>3, PTL DEF Spec

-----------------------------------------------------------------------------
(* Parsing *)

(* linger_ and content_length_ behind the first i headers of m. *)
LingerAfter(m, i) ==
  \/ linger = FALSE /\ \A j \in 1 .. i : m.headers[j] \notin {"keep", "close"}
  \/ \E j \in 1 .. i : /\ m.headers[j] \in {"keep", "close"}
                       /\ \A q \in j + 1 .. i : m.headers[q] \notin {"keep", "close"}
                       /\ linger = (m.headers[j] = "keep")

LengthAfter(m, i) ==
  \/ length = 0 /\ \A j \in 1 .. i : m.headers[j] # "len"
  \/ \E j \in 1 .. i : /\ m.headers[j] = "len"
                       /\ \A q \in j + 1 .. i : m.headers[q] # "len"
                       /\ length = Len(m.body)

(* Where the parser is in the text of m, and what it knows by then. *)
InFirstLine == /\ check = "RequestLine"
               /\ start = 0 /\ checked \in {0, 1}
               /\ linger = FALSE /\ length = 0

BehindHeader(m, i) == /\ check = "Header" /\ parsed = Len(sent)
                      /\ start = 3 * (i + 1)
                      /\ checked = start \/ (i < Len(m.headers) /\ checked = start + 1)
                      /\ LingerAfter(m, i) /\ LengthAfter(m, i)

InBody(m) == /\ check = "Content" /\ parsed = Len(sent)
             /\ start = BodyStart(m) /\ checked = start
             /\ length = Len(m.body) /\ length # 0
             /\ LingerAfter(m, Len(m.headers))

Place(m) == \/ InFirstLine
            \/ \E i \in 0 .. Len(m.headers) : BehindHeader(m, i)
            \/ InBody(m)

(* The bytes of m are those of its text, in the buffer behind line_start_  *)
(* and on the wire.                                                        *)
InText(m) == /\ Len(buf) + Len(wire) = Len(Text(m))
             /\ \A j \in 1 .. Len(wire) : wire[j] = <<Len(sent), Text(m)[Len(buf) + j]>>
             /\ \A i \in start + 1 .. Len(buf) : buf[i] = <<Len(sent), Text(m)[i]>>

Idle == /\ pc = "in" /\ wire = << >> /\ buf = << >>
        /\ checked = 0 /\ start = 0 /\ check = "RequestLine"
        /\ linger = FALSE /\ length = 0

Good == ~ rescanned /\ ~ piped /\ \A j \in 1 .. Len(sent) : WellFormed(sent[j])

(* With a client that sends well-formed requests and waits for the answer  *)
(* to each, the parser is between two requests, inside the last one, or    *)
(* behind it.                                                              *)
Synced == \/ Len(sent) = Len(answered) /\ Idle
          \/ Len(sent) = Len(answered) /\ pc = "out" /\ wire = << >>
          \/ /\ Len(sent) = Len(answered) + 1 /\ pc \in {"in", "parse"}
             /\ \E m \in Messages : m = sent[Len(sent)] /\ InText(m) /\ Place(m)

Sync == Good /\ pc \in {"in", "parse", "out"} => Synced

Unpiped == ~ piped => Len(sent) <= Len(answered) + 1

(* The last header of some kinds. *)
LEMMA LastOfFacts ==
  ASSUME NEW m \in Messages, NEW kinds
  PROVE  /\ (\A j \in 1 .. Len(m.headers) : m.headers[j] \notin kinds) =>
              LastOf(m, kinds) = "none"
         /\ \A j \in 1 .. Len(m.headers) :
              /\ m.headers[j] \in kinds
              /\ \A q \in j + 1 .. Len(m.headers) : m.headers[q] \notin kinds
              => LastOf(m, kinds) = m.headers[j]
<1> DEFINE h == Len(m.headers)
           hits == {i \in 1 .. h : m.headers[i] \in kinds}
           last == CHOOSE i \in hits : \A j \in hits : j <= i
<1>1. h \in Nat /\ DOMAIN m.headers = 1 .. h
  BY MessageFacts, LenProperties
<1>2. LastOf(m, kinds) = IF hits = {} THEN "none" ELSE m.headers[last]
  BY <1>1 DEF LastOf
<1>3. ASSUME NEW j \in 1 .. h, m.headers[j] \in kinds,
             \A q \in j + 1 .. h : m.headers[q] \notin kinds
      PROVE  last = j /\ hits # {}
  <2>1. j \in hits /\ \A i \in hits : i <= j
    BY <1>1, <1>3
  <2>2. hits \subseteq Nat
    BY <1>1
  <2> HIDE DEF hits
  <2>3. last \in hits /\ \A i \in hits : i <= last
    BY <2>1
  <2>4. last <= j /\ j <= last /\ last \in Nat /\ j \in Nat
    BY <2>1, <2>2, <2>3
  <2> QED
    BY <2>1, <2>4
<1> QED
  BY <1>2, <1>3

(* Behind all the headers of a well-formed message. *)
LEMMA AfterHeaders ==
  ASSUME NEW m \in Messages, WellFormed(m)
  PROVE  /\ LingerAfter(m, Len(m.headers)) =>
              linger = (LastOf(m, {"keep", "close"}) = "keep")
         /\ LengthAfter(m, Len(m.headers)) => length = Len(m.body)
<1> DEFINE h == Len(m.headers)
<1>1. ASSUME LingerAfter(m, h) PROVE linger = (LastOf(m, {"keep", "close"}) = "keep")
  <2>1. CASE linger = FALSE /\ \A j \in 1 .. h : m.headers[j] \notin {"keep", "close"}
    <3>1. LastOf(m, {"keep", "close"}) = "none"
      BY <2>1, LastOfFacts
    <3> QED
      BY <2>1, <3>1
  <2>2. CASE ~ (linger = FALSE /\ \A j \in 1 .. h : m.headers[j] \notin {"keep", "close"})
    <3>1. PICK j \in 1 .. h : /\ m.headers[j] \in {"keep", "close"}
                              /\ \A q \in j + 1 .. h : m.headers[q] \notin {"keep", "close"}
                              /\ linger = (m.headers[j] = "keep")
      BY <1>1, <2>2 DEF LingerAfter
    <3>2. LastOf(m, {"keep", "close"}) = m.headers[j]
      BY <3>1, LastOfFacts
    <3> QED
      BY <3>1, <3>2
  <2> QED
    BY <2>1, <2>2
<1>2. ASSUME LengthAfter(m, h) PROVE length = Len(m.body)
  <2>1. CASE length = 0 /\ \A j \in 1 .. h : m.headers[j] # "len"
    <3>1. LastOf(m, {"len"}) = "none"
      BY <2>1, LastOfFacts
    <3>2. m.body = << >>
      BY <3>1 DEF WellFormed
    <3> QED
      BY <2>1, <3>2
  <2>2. CASE ~ (length = 0 /\ \A j \in 1 .. h : m.headers[j] # "len")
    BY <1>2, <2>2 DEF LengthAfter
  <2> QED
    BY <2>1, <2>2
<1> QED
  BY <1>1, <1>2

(* parse_line on a line with text, of which any part has arrived: it waits *)
(* in front of the CR, or ends the line behind the LF.                     *)
LEMMA LineWithText ==
  ASSUME Len(buf) \in Nat, start \in Nat, checked \in {start, start + 1}, checked <= Len(buf),
         start + 1 <= Len(buf) => ~ EndOfLine(start + 1),
         start + 2 <= Len(buf) => Byte(start + 2) = "CR",
         start + 3 <= Len(buf) => Byte(start + 3) = "LF"
  PROVE  \/ ParseLine.status # "Ok" /\ ParseLine.idx \in {start, start + 1}
         \/ /\ ParseLine.status = "Ok" /\ ParseLine.idx = start + 3
            /\ start + 3 <= Len(buf)
<1> DEFINE pl == ParseLine
<1>0. checked \in 0 .. Len(buf)
  OBVIOUS
<1>1. CASE Len(buf) <= start + 1
  <2>1. \A p \in checked + 1 .. Len(buf) : ~ EndOfLine(p)
    <3> SUFFICES ASSUME NEW p \in checked + 1 .. Len(buf) PROVE ~ EndOfLine(p)
      OBVIOUS
    <3>1. p = start + 1
      BY <1>1
    <3> QED
      BY <3>1
  <2>2. pl = [status |-> "Open", idx |-> Len(buf), last |-> 0]
    BY <1>0, <2>1, ParseLineStops
  <2>3. Len(buf) \in {start, start + 1}
    BY <1>1
  <2> HIDE DEF pl
  <2>4. pl.status # "Ok" /\ pl.idx \in {start, start + 1}
    BY <2>2, <2>3
  <2> QED
    BY <2>4 DEF pl
<1>2. CASE start + 2 <= Len(buf)
  <2>0. start + 2 \in checked + 1 .. Len(buf) /\ EndOfLine(start + 2)
    BY <1>2 DEF EndOfLine
  <2>1. PICK p \in checked + 1 .. Len(buf) :
              /\ EndOfLine(p)
              /\ \A i \in checked + 1 .. p - 1 : ~ EndOfLine(i)
              /\ pl =
                   IF Byte(p) = "CR"
                   THEN IF p = Len(buf) THEN [status |-> "Open", idx |-> p - 1, last |-> p]
                        ELSE IF Byte(p + 1) = "LF"
                        THEN [status |-> "Ok", idx |-> p + 1, last |-> p + 1]
                        ELSE [status |-> "Bad", idx |-> p - 1, last |-> p]
                   ELSE IF p > 1 /\ Byte(p - 1) = "CR"
                   THEN [status |-> "Ok", idx |-> p, last |-> p]
                   ELSE [status |-> "Bad", idx |-> p - 1, last |-> p]
    BY <1>0, <2>0, ParseLineStops
  <2>2. p = start + 2
    <3>1. p # start + 1
      BY <1>2, <2>1
    <3>2. ~ (start + 2 \in checked + 1 .. p - 1)
      BY <2>0, <2>1
    <3> QED
      BY <2>0, <3>1, <3>2
  <2>3. Byte(p) = "CR" /\ p - 1 = start + 1 /\ p + 1 = start + 3
    BY <1>2, <2>2
  <2> HIDE DEF pl
  <2>4. CASE Len(buf) = start + 2
    <3>1. pl = [status |-> "Open", idx |-> p - 1, last |-> p]
      BY <2>1, <2>2, <2>3, <2>4
    <3>2. pl.status # "Ok" /\ pl.idx = start + 1
      BY <2>3, <3>1
    <3> QED
      BY <3>2 DEF pl
  <2>5. CASE Len(buf) # start + 2
    <3>1. Byte(p + 1) = "LF" /\ p # Len(buf) /\ start + 3 <= Len(buf)
      BY <1>2, <2>2, <2>3, <2>5
    <3>2. pl = [status |-> "Ok", idx |-> p + 1, last |-> p + 1]
      BY <2>1, <2>3, <3>1
    <3>3. pl.status = "Ok" /\ pl.idx = start + 3
      BY <2>3, <3>2
    <3> QED
      BY <3>1, <3>3 DEF pl
  <2> QED
    BY <2>4, <2>5
<1> QED
  BY <1>1, <1>2

(* parse_line on an empty line. *)
LEMMA EmptyLine ==
  ASSUME Len(buf) \in Nat, start \in Nat, checked = start, checked <= Len(buf),
         start + 1 <= Len(buf) => Byte(start + 1) = "CR",
         start + 2 <= Len(buf) => Byte(start + 2) = "LF"
  PROVE  \/ ParseLine.status # "Ok" /\ ParseLine.idx = start
         \/ /\ ParseLine.status = "Ok" /\ ParseLine.idx = start + 2
            /\ start + 2 <= Len(buf)
<1> DEFINE pl == ParseLine
<1>0. checked \in 0 .. Len(buf)
  OBVIOUS
<1>1. CASE Len(buf) = start
  <2>1. \A p \in checked + 1 .. Len(buf) : ~ EndOfLine(p)
    BY <1>1
  <2>2. pl = [status |-> "Open", idx |-> Len(buf), last |-> 0]
    BY <1>0, <2>1, ParseLineStops
  <2> HIDE DEF pl
  <2>3. pl.status # "Ok" /\ pl.idx = start
    BY <1>1, <2>2
  <2> QED
    BY <2>3 DEF pl
<1>2. CASE Len(buf) # start
  <2>0. start + 1 \in checked + 1 .. Len(buf) /\ EndOfLine(start + 1)
    BY <1>2 DEF EndOfLine
  <2>1. PICK p \in checked + 1 .. Len(buf) :
              /\ EndOfLine(p)
              /\ \A i \in checked + 1 .. p - 1 : ~ EndOfLine(i)
              /\ pl =
                   IF Byte(p) = "CR"
                   THEN IF p = Len(buf) THEN [status |-> "Open", idx |-> p - 1, last |-> p]
                        ELSE IF Byte(p + 1) = "LF"
                        THEN [status |-> "Ok", idx |-> p + 1, last |-> p + 1]
                        ELSE [status |-> "Bad", idx |-> p - 1, last |-> p]
                   ELSE IF p > 1 /\ Byte(p - 1) = "CR"
                   THEN [status |-> "Ok", idx |-> p, last |-> p]
                   ELSE [status |-> "Bad", idx |-> p - 1, last |-> p]
    BY <1>0, <2>0, ParseLineStops
  <2>2. p = start + 1
    <3>1. ~ (start + 1 \in checked + 1 .. p - 1)
      BY <2>0, <2>1
    <3> QED
      BY <2>0, <3>1
  <2>3. Byte(p) = "CR" /\ p - 1 = start /\ p + 1 = start + 2
    BY <1>2, <2>2
  <2> HIDE DEF pl
  <2>4. CASE Len(buf) = start + 1
    <3>1. pl = [status |-> "Open", idx |-> p - 1, last |-> p]
      BY <2>1, <2>2, <2>3, <2>4
    <3>2. pl.status # "Ok" /\ pl.idx = start
      BY <2>3, <3>1
    <3> QED
      BY <3>2 DEF pl
  <2>5. CASE Len(buf) # start + 1
    <3>1. Byte(p + 1) = "LF" /\ p # Len(buf) /\ start + 2 <= Len(buf)
      BY <1>2, <2>2, <2>3, <2>5
    <3>2. pl = [status |-> "Ok", idx |-> p + 1, last |-> p + 1]
      BY <2>1, <2>3, <3>1
    <3>3. pl.status = "Ok" /\ pl.idx = start + 2
      BY <2>3, <3>2
    <3> QED
      BY <3>1, <3>3 DEF pl
  <2> QED
    BY <2>4, <2>5
<1> QED
  BY <1>1, <1>2

(* What parse_line does with the text of a well-formed message, line by    *)
(* line.                                                                   *)
LEMMA LineAt ==
  ASSUME Typing, NEW m \in Messages, m.crlf, InText(m)
  PROVE  /\ InFirstLine =>
              \/ ParseLine.status # "Ok" /\ ParseLine.idx \in {0, 1}
              \/ /\ ParseLine.status = "Ok" /\ ParseLine.idx = 3
                 /\ LineText = "line" /\ buf[start + 1][1] = Len(sent)
         /\ \A i \in 0 .. Len(m.headers) - 1 : BehindHeader(m, i) =>
              \/ ParseLine.status # "Ok" /\ ParseLine.idx \in {start, start + 1}
              \/ /\ ParseLine.status = "Ok" /\ ParseLine.idx = start + 3
                 /\ LineText = m.headers[i + 1] /\ buf[start + 1][1] = Len(sent)
         /\ BehindHeader(m, Len(m.headers)) =>
              \/ ParseLine.status # "Ok" /\ ParseLine.idx = start
              \/ /\ ParseLine.status = "Ok" /\ ParseLine.idx = start + 2
                 /\ start + 2 <= Len(buf) /\ LineText = "CR"
<1> DEFINE h == Len(m.headers)
           t == Text(m)
<1>1. /\ Len(buf) \in Nat /\ checked \in 0 .. Len(buf) /\ start \in 0 .. checked
  BY LenProperties DEF Typing, TypeOK
<1>2. \A p \in start + 1 .. Len(buf) : Byte(p) = t[p] /\ buf[p][1] = Len(sent)
  <2> SUFFICES ASSUME NEW p \in start + 1 .. Len(buf)
               PROVE  Byte(p) = t[p] /\ buf[p][1] = Len(sent)
    OBVIOUS
  <2>1. buf[p] = <<Len(sent), t[p]>>
    BY DEF InText
  <2> QED
    BY <2>1 DEF Byte
<1>3. /\ h \in Nat /\ \A i \in 1 .. h : m.headers[i] \in Headers
      /\ t[1] = "line" /\ t[2] = "CR" /\ t[3] = "LF"
      /\ \A i \in 1 .. h : /\ t[3 * i + 1] = m.headers[i]
                           /\ t[3 * i + 2] = "CR" /\ t[3 * i + 3] = "LF"
      /\ t[3 * (h + 1) + 1] = "CR" /\ t[3 * (h + 1) + 2] = "LF"
  BY MessageFacts, TextFacts DEF HeadEnd
<1> HIDE DEF t, h
<1>4. \A k \in 1 .. 3 : start + k <= Len(buf) =>
         Byte(start + k) = t[start + k] /\ buf[start + k][1] = Len(sent)
  BY <1>1, <1>2
<1>5. /\ start + 1 <= Len(buf) =>
           Byte(start + 1) = t[start + 1] /\ buf[start + 1][1] = Len(sent)
      /\ start + 2 <= Len(buf) => Byte(start + 2) = t[start + 2]
      /\ start + 3 <= Len(buf) => Byte(start + 3) = t[start + 3]
  BY <1>4
<1>6. ASSUME t[start + 1] \notin {"CR", "LF"}, t[start + 2] = "CR", t[start + 3] = "LF",
             checked \in {start, start + 1}
      PROVE  \/ ParseLine.status # "Ok" /\ ParseLine.idx \in {start, start + 1}
             \/ /\ ParseLine.status = "Ok" /\ ParseLine.idx = start + 3
                /\ LineText = t[start + 1] /\ buf[start + 1][1] = Len(sent)
  <2>1. /\ start + 1 <= Len(buf) => ~ EndOfLine(start + 1)
        /\ start + 2 <= Len(buf) => Byte(start + 2) = "CR"
        /\ start + 3 <= Len(buf) => Byte(start + 3) = "LF"
    BY <1>5, <1>6 DEF EndOfLine
  <2>2. start \in Nat /\ checked <= Len(buf)
    BY <1>1
  <2>3. \/ ParseLine.status # "Ok" /\ ParseLine.idx \in {start, start + 1}
        \/ /\ ParseLine.status = "Ok" /\ ParseLine.idx = start + 3
           /\ start + 3 <= Len(buf)
    BY <1>1, <1>6, <2>1, <2>2, LineWithText
  <2>4. start + 3 <= Len(buf) => start + 1 <= Len(buf)
    BY <1>1
  <2> QED
    BY <1>5, <2>3, <2>4 DEF LineText
<1>7. ASSUME InFirstLine
      PROVE  \/ ParseLine.status # "Ok" /\ ParseLine.idx \in {0, 1}
             \/ /\ ParseLine.status = "Ok" /\ ParseLine.idx = 3
                /\ LineText = "line" /\ buf[start + 1][1] = Len(sent)
  <2>1. start = 0 /\ start + 1 = 1 /\ start + 2 = 2 /\ start + 3 = 3
    BY <1>7 DEF InFirstLine
  <2>2. checked \in {start, start + 1}
    BY <1>7, <2>1 DEF InFirstLine
  <2>3. t[start + 1] = "line" /\ t[start + 2] = "CR" /\ t[start + 3] = "LF"
    BY <1>3, <2>1
  <2>4. \/ ParseLine.status # "Ok" /\ ParseLine.idx \in {start, start + 1}
        \/ /\ ParseLine.status = "Ok" /\ ParseLine.idx = start + 3
           /\ LineText = t[start + 1] /\ buf[start + 1][1] = Len(sent)
    BY <1>6, <2>2, <2>3
  <2> QED
    BY <2>1, <2>3, <2>4
<1>8. ASSUME NEW i \in 0 .. h - 1, BehindHeader(m, i)
      PROVE  \/ ParseLine.status # "Ok" /\ ParseLine.idx \in {start, start + 1}
             \/ /\ ParseLine.status = "Ok" /\ ParseLine.idx = start + 3
                /\ LineText = m.headers[i + 1] /\ buf[start + 1][1] = Len(sent)
  <2> DEFINE j == i + 1
  <2>1. j \in 1 .. h /\ start = 3 * j /\ checked \in {start, start + 1}
    BY <1>3, <1>8 DEF BehindHeader
  <2> HIDE DEF j
  <2>2. /\ t[start + 1] = m.headers[j] /\ m.headers[j] \in Headers
        /\ t[start + 2] = "CR" /\ t[start + 3] = "LF"
    BY <1>3, <2>1
  <2>3. m.headers[j] \notin {"CR", "LF"}
    BY <2>2 DEF Headers
  <2> QED
    BY <1>6, <2>1, <2>2, <2>3 DEF j
<1>9. ASSUME BehindHeader(m, h)
      PROVE  \/ ParseLine.status # "Ok" /\ ParseLine.idx = start
             \/ /\ ParseLine.status = "Ok" /\ ParseLine.idx = start + 2
                /\ start + 2 <= Len(buf) /\ LineText = "CR"
  <2>1. start = 3 * (h + 1) /\ checked = start
    BY <1>3, <1>9 DEF BehindHeader, h
  <2>2. t[start + 1] = "CR" /\ t[start + 2] = "LF"
    BY <1>3, <2>1
  <2>3. start \in Nat /\ checked <= Len(buf)
    BY <1>1
  <2>4. \/ ParseLine.status # "Ok" /\ ParseLine.idx = start
        \/ /\ ParseLine.status = "Ok" /\ ParseLine.idx = start + 2
           /\ start + 2 <= Len(buf)
    BY <1>1, <1>5, <2>1, <2>2, <2>3, EmptyLine
  <2>5. start + 2 <= Len(buf) => start + 1 <= Len(buf)
    BY <1>1
  <2> QED
    BY <1>5, <2>2, <2>4, <2>5 DEF LineText
<1> QED
  BY <1>7, <1>8, <1>9 DEF h

(* Taking a line leaves the bytes behind it alone. *)
LEMMA TakeLineInText ==
  ASSUME Typing, NEW m, InText(m), ParseLine.status = "Ok", TakeLine,
         UNCHANGED <<sent, wire>>
  PROVE  /\ Len(buf') + Len(wire') = Len(Text(m))
         /\ \A j \in 1 .. Len(wire') : wire'[j] = <<Len(sent'), Text(m)[Len(buf') + j]>>
         /\ \A i \in start' + 1 .. Len(buf') : buf'[i] = <<Len(sent'), Text(m)[i]>>
<1> DEFINE idx == ParseLine.idx
<1>1. /\ Len(buf) \in Nat /\ checked \in 0 .. Len(buf) /\ start \in 0 .. checked
      /\ DOMAIN buf = 1 .. Len(buf)
  BY LenProperties DEF Typing, TypeOK
<1>2. /\ idx \in checked + 1 .. Len(buf) /\ Len(buf') = Len(buf) /\ start' = idx
      /\ buf' = Zeroed(idx)
  BY TakeLineFacts
<1> HIDE DEF idx
<1>3. ASSUME NEW i \in idx + 1 .. Len(buf) PROVE buf'[i] = <<Len(sent), Text(m)[i]>>
  <2>1. i \in 1 .. Len(buf) /\ i \notin {idx - 1, idx} /\ i \in start + 1 .. Len(buf)
    BY <1>1, <1>2
  <2>2. buf'[i] = buf[i]
    BY <1>1, <1>2, <2>1 DEF Zeroed
  <2> QED
    BY <2>1, <2>2 DEF InText
<1> QED
  BY <1>2, <1>3 DEF InText

(* parse_request_line behind the first line. *)
LEMMA TakesRequestLine ==
  ASSUME Typing, NEW m \in Messages, WellFormed(m), InText(m), Place(m), RequestLine
  PROVE  InText(m)' /\ BehindHeader(m, 0)'
<1>1. ParseLine.status = "Ok" /\ TakeLine /\ check = "RequestLine"
      /\ UNCHANGED <<sent, wire, linger, length>> /\ check' = "Header"
      /\ parsed' = buf[start + 1][1]
  BY DEF RequestLine, clientVars
<1>2. InFirstLine
  BY <1>1 DEF Place, BehindHeader, InBody
<1>3. ParseLine.idx = 3 /\ buf[start + 1][1] = Len(sent)
  BY <1>1, <1>2, LineAt DEF WellFormed
<1>4. start' = 3 /\ checked' = 3
  BY <1>1, <1>3, TakeLineFacts
<1>5. InText(m)'
  BY <1>1, TakeLineInText DEF InText
<1>6. linger' = FALSE /\ length' = 0
  BY <1>1, <1>2 DEF InFirstLine
<1>7. LingerAfter(m, 0)' /\ LengthAfter(m, 0)'
  BY <1>6 DEF LingerAfter, LengthAfter
<1>8. start' = 3 * (0 + 1) /\ checked' = start'
  BY <1>4
<1> QED
  BY <1>1, <1>3, <1>5, <1>7, <1>8 DEF BehindHeader

(* parse_headers behind a header. *)
LEMMA TakesHeader ==
  ASSUME Typing, NEW m \in Messages, m = sent[Len(sent)], WellFormed(m), InText(m), Place(m),
         Header
  PROVE  InText(m)' /\ \E i \in 0 .. Len(m.headers) : BehindHeader(m, i)'
<1> DEFINE h == Len(m.headers)
<1>1. /\ ParseLine.status = "Ok" /\ TakeLine /\ check = "Header" /\ check' = "Header"
      /\ UNCHANGED <<sent, wire, parsed>> /\ LineText # "CR"
      /\ linger' = IF LineText \in {"keep", "close"} THEN LineText = "keep" ELSE linger
      /\ length' = IF LineText = "len" THEN Line.length ELSE length
  BY DEF Header, clientVars
<1>2. h \in Nat /\ Len(m.body) \in Nat
  BY MessageFacts
<1>3. PICK i \in 0 .. h : BehindHeader(m, i)
  BY <1>1 DEF Place, InFirstLine, InBody
<1>4. i \in 0 .. h - 1
  <2>1. i # h
    BY <1>1, <1>3, LineAt DEF WellFormed
  <2> QED
    BY <1>2, <2>1
<1>5. /\ ParseLine.idx = start + 3 /\ LineText = m.headers[i + 1]
      /\ buf[start + 1][1] = Len(sent)
  BY <1>1, <1>3, <1>4, LineAt DEF WellFormed
<1>6. Line = m
  BY <1>5 DEF Line
<1>7. start = 3 * (i + 1) /\ LingerAfter(m, i) /\ LengthAfter(m, i) /\ parsed = Len(sent)
  BY <1>3 DEF BehindHeader
<1>8. start' = start + 3 /\ checked' = start'
  BY <1>1, <1>5, TakeLineFacts
<1> DEFINE n == i + 1
<1>9. start' = 3 * (n + 1) /\ n \in 0 .. h /\ n \in Nat /\ i \in Nat /\ n \in 1 .. n
  BY <1>2, <1>4, <1>7, <1>8
<1>10. \A j \in 1 .. n : j = n \/ j \in 1 .. i
  BY <1>9
<1>11. \A j \in 1 .. i : j \in 1 .. n /\ \A q \in j + 1 .. n : q = n \/ q \in j + 1 .. i
  BY <1>9
<1>12. ~ \E q \in n + 1 .. n : TRUE
  BY <1>9
<1>13. LineText = m.headers[n]
  BY <1>5
<1> HIDE DEF n, h
<1>14. LingerAfter(m, n)'
  <2>1. CASE LineText \in {"keep", "close"}
    <3>1. linger' = (m.headers[n] = "keep") /\ m.headers[n] \in {"keep", "close"}
      BY <1>1, <1>13, <2>1
    <3> QED
      BY <1>9, <1>12, <3>1 DEF LingerAfter
  <2>2. CASE LineText \notin {"keep", "close"}
    <3>1. linger' = linger /\ m.headers[n] \notin {"keep", "close"}
      BY <1>1, <1>13, <2>2
    <3>2. CASE linger = FALSE /\ \A j \in 1 .. i : m.headers[j] \notin {"keep", "close"}
      <4>1. linger' = FALSE
        BY <3>1, <3>2, Zenon
      <4> QED
        BY <1>10, <3>1, <3>2, <4>1 DEF LingerAfter
    <3>3. CASE ~ (linger = FALSE /\ \A j \in 1 .. i : m.headers[j] \notin {"keep", "close"})
      <4>1. PICK j \in 1 .. i : /\ m.headers[j] \in {"keep", "close"}
                                /\ \A q \in j + 1 .. i : m.headers[q] \notin {"keep", "close"}
                                /\ linger = (m.headers[j] = "keep")
        BY <1>7, <3>3 DEF LingerAfter
      <4>2. j \in 1 .. n /\ \A q \in j + 1 .. n : m.headers[q] \notin {"keep", "close"}
        BY <1>11, <3>1, <4>1
      <4> QED
        BY <3>1, <4>1, <4>2 DEF LingerAfter
    <3> QED
      BY <3>2, <3>3
  <2> QED
    BY <2>1, <2>2
<1>15. LengthAfter(m, n)'
  <2>1. CASE LineText = "len"
    <3>1. length' = Len(m.body) /\ m.headers[n] = "len"
      BY <1>1, <1>6, <1>13, <2>1 DEF WellFormed
    <3> QED
      BY <1>9, <1>12, <3>1 DEF LengthAfter
  <2>2. CASE LineText # "len"
    <3>1. length' = length /\ m.headers[n] # "len"
      BY <1>1, <1>13, <2>2
    <3>2. CASE length = 0 /\ \A j \in 1 .. i : m.headers[j] # "len"
      BY <1>10, <3>1, <3>2 DEF LengthAfter
    <3>3. CASE ~ (length = 0 /\ \A j \in 1 .. i : m.headers[j] # "len")
      <4>1. PICK j \in 1 .. i : /\ m.headers[j] = "len"
                                /\ \A q \in j + 1 .. i : m.headers[q] # "len"
                                /\ length = Len(m.body)
        BY <1>7, <3>3 DEF LengthAfter
      <4>2. j \in 1 .. n /\ \A q \in j + 1 .. n : m.headers[q] # "len"
        BY <1>11, <3>1, <4>1
      <4> QED
        BY <3>1, <4>1, <4>2 DEF LengthAfter
    <3> QED
      BY <3>2, <3>3
  <2> QED
    BY <2>1, <2>2
<1>16. InText(m)'
  BY <1>1, TakeLineInText DEF InText
<1>17. BehindHeader(m, n)'
  BY <1>1, <1>7, <1>8, <1>9, <1>14, <1>15 DEF BehindHeader
<1> QED
  BY <1>9, <1>16, <1>17 DEF h

(* parse_headers at the empty line. *)
LEMMA AtEmptyLine ==
  ASSUME Typing, NEW m \in Messages, WellFormed(m), InText(m), Place(m),
         check = "Header", ParseLine.status = "Ok", LineText = "CR"
  PROVE  /\ parsed = Len(sent) /\ length = Len(m.body)
         /\ LingerAfter(m, Len(m.headers))
         /\ ParseLine.idx = BodyStart(m) /\ BodyStart(m) <= Len(buf)
<1> DEFINE h == Len(m.headers)
<1>1. h \in Nat /\ \A i \in 1 .. h : m.headers[i] \in Headers
  BY MessageFacts
<1>2. PICK i \in 0 .. h : BehindHeader(m, i)
  BY DEF Place, InFirstLine, InBody
<1>3. i = h
  <2> SUFFICES ASSUME i # h PROVE FALSE
    OBVIOUS
  <2>1. i \in 0 .. h - 1 /\ i + 1 \in 1 .. h
    BY <1>1
  <2>2. LineText = m.headers[i + 1]
    BY <1>2, <2>1, LineAt DEF WellFormed
  <2>3. "CR" \in Headers
    BY <1>1, <2>1, <2>2
  <2> QED
    BY <2>3 DEF Headers
<1>4. ParseLine.idx = start + 2 /\ start + 2 <= Len(buf)
  BY <1>2, <1>3, LineAt DEF WellFormed
<1>5. /\ parsed = Len(sent) /\ start = 3 * (h + 1)
      /\ LingerAfter(m, h) /\ LengthAfter(m, h)
  BY <1>2, <1>3 DEF BehindHeader
<1>6. length = Len(m.body)
  BY <1>5, AfterHeaders
<1>7. BodyStart(m) = start + 2
  BY <1>5 DEF BodyStart, HeadEnd
<1> QED
  BY <1>4, <1>5, <1>6, <1>7

(* parse_line without a line. *)
LEMMA WaitsForLine ==
  ASSUME Typing, NEW m \in Messages, WellFormed(m), InText(m), Place(m), NoLine, ~ rescanned'
  PROVE  InText(m)' /\ Place(m)'
<1>1. /\ ParseLine.status # "Ok" /\ checked' = ParseLine.idx
      /\ UNCHANGED <<sent, wire, buf, start, check, parsed, linger, length>>
      /\ check = "Content" => ~ (ParseLine.idx > checked)
  BY DEF NoLine, Rescans, clientVars
<1>2. InText(m)'
  BY <1>1 DEF InText
<1>3. CASE InFirstLine
  <2>1. checked' \in {0, 1}
    BY <1>1, <1>3, LineAt DEF WellFormed
  <2> QED
    BY <1>1, <1>2, <1>3, <2>1 DEF InFirstLine, Place
<1>4. ASSUME NEW i \in 0 .. Len(m.headers), BehindHeader(m, i) PROVE BehindHeader(m, i)'
  <2>1. /\ LingerAfter(m, i)' /\ LengthAfter(m, i)'
    BY <1>1, <1>4 DEF BehindHeader, LingerAfter, LengthAfter
  <2>2. Len(m.headers) \in Nat
    BY MessageFacts
  <2>3. CASE i = Len(m.headers)
    <3>1. checked' = start
      BY <1>1, <1>4, <2>3, LineAt DEF WellFormed
    <3> QED
      BY <1>1, <1>4, <2>1, <3>1 DEF BehindHeader
  <2>4. CASE i # Len(m.headers)
    <3>1. i \in 0 .. Len(m.headers) - 1 /\ i < Len(m.headers)
      BY <2>2, <2>4
    <3>2. checked' \in {start, start + 1}
      BY <1>1, <1>4, <3>1, LineAt DEF WellFormed
    <3> QED
      BY <1>1, <1>4, <2>1, <3>1, <3>2 DEF BehindHeader
  <2> QED
    BY <2>3, <2>4
<1>5. CASE InBody(m)
  <2>1. /\ Len(buf) \in Nat /\ checked \in 0 .. Len(buf)
    BY LenProperties DEF Typing, TypeOK
  <2>2. ParseLine.idx \in checked .. Len(buf)
    BY <2>1, ParseLineBounds
  <2>3. checked' = checked
    BY <1>1, <1>5, <2>1, <2>2 DEF InBody
  <2>4. LingerAfter(m, Len(m.headers))'
    BY <1>1, <1>5 DEF InBody, LingerAfter
  <2> QED
    BY <1>1, <1>2, <1>5, <2>3, <2>4 DEF InBody, Place
<1> QED
  BY <1>2, <1>3, <1>4, <1>5 DEF Place

(* parse_content: the body is complete when all of the message is here.    *)
LEMMA TakesBody ==
  ASSUME Typing, NEW m \in Messages, WellFormed(m), InText(m), Place(m), Content,
         ~ rescanned'
  PROVE  /\ parsed = Len(sent) /\ length = Len(m.body) /\ LingerAfter(m, Len(m.headers))
         /\ \/ /\ wire = << >> /\ DoRequest(m.body)
            \/ InText(m)' /\ Place(m)' /\ UNCHANGED <<pc, answered>>
<1>1. check = "Content"
  BY DEF Content
<1>2. InBody(m)
  BY <1>1 DEF Place, InFirstLine, BehindHeader
<1>3. ~ CallsParseLine
  BY ContentFacts
<1>4. /\ checked' = checked /\ start' = checked /\ buf' = buf
      /\ \/ /\ Complete(checked)
            /\ DoRequest([i \in 1 .. length |-> buf[checked + i][2]])
         \/ UNCHANGED <<pc, answered>>
      /\ UNCHANGED <<sent, wire, check, parsed, linger, length>>
  BY <1>3, ContentFacts DEF clientVars
<1>5. /\ parsed = Len(sent) /\ length = Len(m.body) /\ LingerAfter(m, Len(m.headers))
      /\ checked = BodyStart(m) /\ start = checked
  BY <1>2 DEF InBody
<1>6. InText(m)' /\ Place(m)'
  <2>1. InText(m)'
    BY <1>4, <1>5 DEF InText
  <2>2. LingerAfter(m, Len(m.headers))'
    BY <1>4, <1>5 DEF LingerAfter
  <2>3. InBody(m)'
    BY <1>2, <1>4, <1>5, <2>2 DEF InBody
  <2> QED
    BY <2>1, <2>3 DEF Place
<1>7. ASSUME Complete(checked), DoRequest([i \in 1 .. length |-> buf[checked + i][2]])
      PROVE  wire = << >> /\ DoRequest(m.body)
  <2>1. /\ Len(buf) \in Nat /\ Len(wire) \in Nat /\ checked \in Nat /\ Len(m.body) \in Nat
        /\ \E S : wire \in Seq(S)
    BY LenProperties, MessageFacts DEF Typing, TypeOK
  <2>2. Len(Text(m)) = checked + Len(m.body)
    BY <1>5, TextFacts DEF WellFormed
  <2>3. checked + Len(m.body) <= Len(buf) /\ Len(buf) + Len(wire) = Len(Text(m))
    BY <1>5, <1>7 DEF Complete, InText
  <2>4. Len(wire) = 0
    BY <2>1, <2>2, <2>3
  <2>5. wire = << >>
    BY <2>1, <2>4, EmptySeq
  <2>6. \A i \in 1 .. Len(m.body) : buf[checked + i][2] = m.body[i]
    <3> SUFFICES ASSUME NEW i \in 1 .. Len(m.body) PROVE buf[checked + i][2] = m.body[i]
      OBVIOUS
    <3>1. checked + i \in start + 1 .. Len(buf)
      BY <1>5, <2>1, <2>3, SMTT(30)
    <3>2. buf[checked + i] = <<Len(sent), Text(m)[checked + i]>>
      BY <3>1 DEF InText
    <3>3. Text(m)[checked + i] = m.body[i]
      BY <1>5, TextFacts DEF WellFormed
    <3> QED
      BY <3>2, <3>3
  <2>7. [i \in 1 .. length |-> buf[checked + i][2]] = m.body
    <3>1. m.body = [i \in 1 .. Len(m.body) |-> m.body[i]]
      BY MessageFacts, LenProperties
    <3> QED
      BY <1>5, <2>6, <3>1
  <2> QED
    BY <1>7, <2>5, <2>7
<1> QED
  BY <1>4, <1>5, <1>6, <1>7

(* Inside process(), and whenever bytes wait to be read, the parser is in  *)
(* the text of the last message.                                           *)
LEMMA InLastMessage ==
  ASSUME Typing, Sync, Good, pc = "parse" \/ (pc = "in" /\ Len(wire) # 0)
  PROVE  /\ Len(sent) = Len(answered) + 1
         /\ \E m \in Messages : /\ m = sent[Len(sent)] /\ WellFormed(m)
                                /\ InText(m) /\ Place(m)
<1>1. PICK m \in Messages : m = sent[Len(sent)] /\ InText(m) /\ Place(m)
  BY DEF Sync, Synced, Idle
<1>2. Len(sent) \in Nat /\ Len(answered) \in Nat
  BY LenProperties DEF Typing, TypeOK
<1>3. Len(sent) = Len(answered) + 1
  BY DEF Sync, Synced, Idle
<1>4. Len(sent) \in 1 .. Len(sent)
  BY <1>2, <1>3
<1>5. WellFormed(m)
  BY <1>1, <1>4 DEF Good
<1> QED
  BY <1>1, <1>3, <1>5

(* A client that has waited for its answers until now, and sent well-      *)
(* formed requests only, did so before.                                    *)
LEMMA GoodBefore ==
  ASSUME Typing, [Next]_vars
  PROVE  /\ Good' => Good
         /\ ~ piped' => ~ piped
         /\ ~ rescanned' => ~ rescanned
<1> DEFINE Earlier == /\ Good' => Good
                      /\ ~ piped' => ~ piped
                      /\ ~ rescanned' => ~ rescanned
<1>1. ASSUME NEW m \in Messages, Send(m)
      PROVE  /\ (~ piped' => ~ piped) /\ rescanned' = rescanned
             /\ Len(sent) \in Nat /\ Len(sent') = Len(sent) + 1
             /\ \A k \in 1 .. Len(sent) : sent'[k] = sent[k]
  BY <1>1, SendFacts DEF Send
<1>2. ASSUME UNCHANGED <<sent, piped>>, ~ rescanned' => ~ rescanned
      PROVE  Earlier
  BY <1>2 DEF Good
<1>3. ASSUME NEW n, Read(n) PROVE Earlier
  BY <1>2, <1>3 DEF Read
<1>4. ASSUME ReadFull \/ Disconnect PROVE Earlier
  BY <1>2, <1>4 DEF ReadFull, Disconnect, Close, clientVars
<1>5. ASSUME NoLine PROVE Earlier
  BY <1>2, <1>5 DEF NoLine, Rescans, clientVars
<1>6. ASSUME RequestLine PROVE Earlier
  BY <1>2, <1>6 DEF RequestLine, clientVars
<1>7. ASSUME Header PROVE Earlier
  BY <1>2, <1>7 DEF Header, clientVars
<1>8. ASSUME HeaderThrows PROVE Earlier
  BY <1>2, <1>8 DEF HeaderThrows, clientVars
<1>9. ASSUME HeadersEnd PROVE Earlier
  BY <1>2, <1>9 DEF HeadersEnd, clientVars
<1>10. ASSUME BadRequestLine PROVE Earlier
  BY <1>2, <1>10 DEF BadRequestLine, clientVars
<1>11. ASSUME RequestWithoutBody PROVE Earlier
  BY <1>2, <1>11 DEF RequestWithoutBody, clientVars
<1>12. ASSUME Content PROVE Earlier
  BY <1>2, <1>12, ContentFacts DEF clientVars
<1>13. ASSUME NEW n, WritePart(n) PROVE Earlier
  BY <1>2, <1>13 DEF WritePart, clientVars
<1>14. ASSUME WriteRest PROVE Earlier
  BY <1>2, <1>14 DEF WriteRest, clientVars
<1>15. ASSUME UNCHANGED vars PROVE Earlier
  BY <1>2, <1>15 DEF vars, clientVars
<1>16. ASSUME NEW m \in Messages, Send(m) PROVE Earlier
  <2>0. (~ piped' => ~ piped) /\ (~ rescanned' => ~ rescanned)
    BY <1>1, <1>16
  <2> SUFFICES ASSUME Good', NEW k \in 1 .. Len(sent)
               PROVE  ~ rescanned /\ ~ piped /\ WellFormed(sent[k])
    BY <2>0 DEF Good
  <2>1. k \in 1 .. Len(sent') /\ sent'[k] = sent[k]
    BY <1>1, <1>16
  <2>2. WellFormed(sent'[k]) /\ ~ rescanned' /\ ~ piped'
    BY <2>1 DEF Good, WellFormed
  <2>3. WellFormed(sent[k])
    BY <2>1, <2>2
  <2> QED
    BY <2>0, <2>2, <2>3
<1> HIDE DEF Earlier
<1>17. Earlier
  BY <1>3, <1>4, <1>5, <1>6, <1>7, <1>8, <1>9, <1>10, <1>11, <1>12, <1>13, <1>14,
     <1>15, <1>16 DEF Next, Process, WriteNothing, Ended
<1> QED
  BY <1>17 DEF Earlier

(* A request line of a well-formed message is not refused. *)
LEMMA NotRefused ==
  ASSUME Typing, NEW m \in Messages, m = sent[Len(sent)], WellFormed(m), InText(m), Place(m)
  PROVE  ~ BadRequestLine
<1> SUFFICES ASSUME BadRequestLine PROVE FALSE
  OBVIOUS
<1>1. /\ ParseLine.status = "Ok" /\ check = "RequestLine"
      /\ LineText # "line" \/ Line.method \notin {"Get", "Post"}
  BY DEF BadRequestLine
<1>2. InFirstLine
  BY <1>1 DEF Place, BehindHeader, InBody
<1>3. LineText = "line" /\ buf[start + 1][1] = Len(sent)
  BY <1>1, <1>2, LineAt DEF WellFormed
<1>4. Line = m
  BY <1>3 DEF Line
<1> QED
  BY <1>1, <1>3, <1>4 DEF WellFormed

(* A request without a body is all there when it is answered. *)
LEMMA TakesNoBody ==
  ASSUME Typing, NEW m \in Messages, WellFormed(m), InText(m), Place(m), RequestWithoutBody
  PROVE  /\ parsed = Len(sent) /\ m.body = << >> /\ LingerAfter(m, Len(m.headers))
         /\ wire = << >>
<1>1. check = "Header" /\ ParseLine.status = "Ok" /\ LineText = "CR" /\ length = 0
  BY DEF RequestWithoutBody
<1>2. /\ parsed = Len(sent) /\ length = Len(m.body) /\ LingerAfter(m, Len(m.headers))
      /\ BodyStart(m) <= Len(buf)
  BY <1>1, AtEmptyLine
<1>3. /\ Len(buf) \in Nat /\ Len(wire) \in Nat /\ Len(m.headers) \in Nat
      /\ \E S : wire \in Seq(S)
  BY LenProperties, MessageFacts DEF Typing
<1>4. Len(Text(m)) = BodyStart(m) + Len(m.body) /\ Len(buf) + Len(wire) = Len(Text(m))
  BY TextFacts DEF WellFormed, InText
<1>5. BodyStart(m) \in Nat
  BY <1>3 DEF BodyStart, HeadEnd
<1>6. Len(wire) = 0
  BY <1>1, <1>2, <1>3, <1>4, <1>5
<1>7. wire = << >>
  BY <1>3, <1>6, EmptySeq
<1>8. m.body = << >>
  BY <1>1, <1>2, MessageFacts, EmptySeq
<1> QED
  BY <1>2, <1>7, <1>8

(* A new answer. *)
LEMMA NewAnswer ==
  ASSUME Typing, NEW body, DoRequest(body)
  PROVE  /\ pc' = "out" /\ Len(answered') = Len(answered) + 1 /\ Len(answered) \in Nat
         /\ \A k \in 1 .. Len(answered) : answered'[k] = answered[k]
         /\ answered'[Len(answered) + 1].msg = parsed
         /\ answered'[Len(answered) + 1].body = body
         /\ answered'[Len(answered) + 1].linger = linger
<1> DEFINE m == sent[parsed]
           handler == IF IsApi(m) THEN Route(m.method, m.path) ELSE NoRoute
<1>1. PICK code \in Codes(m) : Answer(code, handler, body)
  BY DEF DoRequest
<1> DEFINE e == [msg |-> parsed, code |-> code, handler |-> handler, body |-> body,
                 linger |-> linger]
<1>2. answered' = Append(answered, e) /\ pc' = "out"
  BY <1>1 DEF Answer
<1>3. e.msg = parsed /\ e.body = body /\ e.linger = linger
  OBVIOUS
<1> HIDE DEF e, handler, m
<1>4. /\ Len(answered') = Len(answered) + 1 /\ Len(answered) \in Nat
      /\ \A k \in 1 .. Len(answered) : answered'[k] = answered[k]
      /\ answered'[Len(answered) + 1] = e
  BY <1>2, Appended DEF Typing
<1> QED
  BY <1>2, <1>3, <1>4

(* Every step keeps the parser in the text. *)
LEMMA SyncStep ==
  ASSUME Typing, Sync, [Next]_vars
  PROVE  Sync'
<1> SUFFICES ASSUME Good', pc' \in {"in", "parse", "out"} PROVE Synced'
  BY DEF Sync
<1>0. Good /\ ~ rescanned' /\ ~ piped'
  <2>1. ~ rescanned' /\ ~ piped'
    BY DEF Good
  <2> QED
    BY <2>1, GoodBefore
<1>a. ASSUME NEW m \in Messages, m = sent[Len(sent)], UNCHANGED <<sent, answered>>,
             Len(sent) = Len(answered) + 1, pc' \in {"in", "parse"}, InText(m)', Place(m)'
      PROVE  Synced'
  BY <1>a DEF Synced
<1>b. ASSUME UNCHANGED <<sent, wire>>, wire = << >>, Len(sent) = Len(answered) + 1,
             NEW body, DoRequest(body)
      PROVE  Synced'
  BY <1>b, NewAnswer DEF Synced
<1>c. ASSUME pc = "parse"
      PROVE  /\ Len(sent) = Len(answered) + 1
             /\ \E m \in Messages : /\ m = sent[Len(sent)] /\ WellFormed(m)
                                    /\ InText(m) /\ Place(m)
  BY <1>0, <1>c, InLastMessage
<1>1. ASSUME NEW m \in Messages, Send(m) PROVE Synced'
  <2>1. /\ pc \in {"in", "out"} /\ ~ (Len(answered) < Len(sent)) /\ pc # "out"
        /\ UNCHANGED <<buf, checked, start, check, linger, length, pc, answered>>
    BY <1>0, <1>1 DEF Send, parseVars
  <2>2. Len(sent) = Len(answered) /\ Idle
    <3>1. Len(answered) \in Nat /\ Len(sent) \in Nat
      BY LenProperties DEF Typing, TypeOK
    <3> QED
      BY <1>0, <2>1, <3>1 DEF Sync, Synced
  <2>3. /\ Len(sent') = Len(sent) + 1 /\ m = sent'[Len(sent')]
        /\ Len(wire') = Len(wire) + Len(Text(m))
        /\ \A j \in 1 .. Len(Text(m)) : wire'[Len(wire) + j] = <<Len(sent'), Text(m)[j]>>
    BY <1>1, SendFacts
  <2>4. Len(wire) = 0 /\ Len(buf) = 0 /\ Len(buf') = 0 /\ Len(Text(m)) \in Nat
    BY <2>1, <2>2, TextType, LenProperties DEF Idle
  <2>5. InText(m)'
    <3>1. Len(wire') = Len(Text(m))
      BY <2>3, <2>4
    <3>2. \A j \in 1 .. Len(wire') : wire'[j] = <<Len(sent'), Text(m)[Len(buf') + j]>>
      <4> SUFFICES ASSUME NEW j \in 1 .. Len(Text(m))
                   PROVE  wire'[j] = <<Len(sent'), Text(m)[Len(buf') + j]>>
        BY <3>1
      <4>1. Len(wire) + j = j /\ Len(buf') + j = j
        BY <2>4
      <4>2. wire'[Len(wire) + j] = <<Len(sent'), Text(m)[j]>>
        BY <2>3
      <4> QED
        BY <4>1, <4>2
    <3>3. Len(buf') + Len(wire') = Len(Text(m))
      BY <2>4, <3>1
    <3>4. start' = 0
      BY <2>1, <2>2 DEF Idle
    <3>5. \A i \in start' + 1 .. Len(buf') : buf'[i] = <<Len(sent'), Text(m)[i]>>
      BY <2>4, <3>4
    <3> QED
      BY <3>2, <3>3, <3>5 DEF InText
  <2>6. InFirstLine'
    BY <2>1, <2>2 DEF Idle, InFirstLine
  <2>7. Len(sent') = Len(answered') + 1 /\ pc' = "in"
    BY <2>1, <2>2, <2>3
  <2> QED
    BY <2>3, <2>5, <2>6, <2>7 DEF Synced, Place
<1>2. ASSUME NEW n, Read(n) PROVE Synced'
  <2>1. /\ n \in 1 .. Len(wire) /\ Len(wire) \in Nat /\ Len(buf) \in Nat
        /\ Len(buf') = Len(buf) + n /\ Len(wire') = Len(wire) - n
        /\ \A i \in 1 .. Len(buf) : buf'[i] = buf[i]
        /\ \A i \in 1 .. n : buf'[Len(buf) + i] = wire[i]
        /\ \A i \in 1 .. Len(wire) - n : wire'[i] = wire[n + i]
    BY <1>2, ReadFacts
  <2>2. pc = "in" /\ Len(wire) # 0
    BY <1>2, <2>1 DEF Read
  <2>3. PICK m \in Messages : /\ m = sent[Len(sent)] /\ WellFormed(m) /\ InText(m) /\ Place(m)
    BY <1>0, <2>2, InLastMessage
  <2>4. Len(sent) = Len(answered) + 1
    BY <1>0, <2>2, InLastMessage
  <2>5. /\ UNCHANGED <<sent, checked, start, check, parsed, linger, length, answered>>
        /\ pc' \in {"in", "parse"}
    BY <1>2 DEF Read
  <2>6. Place(m)'
    BY <2>3, <2>5 DEF Place, InFirstLine, BehindHeader, InBody, LingerAfter, LengthAfter
  <2> DEFINE t == Text(m)
  <2>7. /\ Len(buf) + Len(wire) = Len(t)
        /\ \A j \in 1 .. Len(wire) : wire[j] = <<Len(sent), t[Len(buf) + j]>>
        /\ \A i \in start + 1 .. Len(buf) : buf[i] = <<Len(sent), t[i]>>
    BY <2>3 DEF InText
  <2>8. start \in Nat
    BY LenProperties DEF Typing, TypeOK
  <2> HIDE DEF t
  <2>9. Len(buf') + Len(wire') = Len(t)
    <3>1. Len(buf') = Len(buf) + n /\ Len(wire') = Len(wire) - n /\ n \in Nat
          /\ Len(buf) \in Nat /\ Len(wire) \in Nat
      BY <2>1
    <3>2. (Len(buf) + n) + (Len(wire) - n) = Len(buf) + Len(wire)
      BY <3>1
    <3> QED
      BY <2>7, <3>1, <3>2
  <2>10. \A j \in 1 .. Len(wire') : wire'[j] = <<Len(sent), t[Len(buf') + j]>>
    <3> SUFFICES ASSUME NEW j \in 1 .. Len(wire') PROVE wire'[j] = <<Len(sent), t[Len(buf') + j]>>
      OBVIOUS
    <3>1. j \in 1 .. Len(wire) - n /\ n + j \in 1 .. Len(wire) /\ Len(buf) + (n + j) = Len(buf') + j
      BY <2>1
    <3>2. wire'[j] = wire[n + j] /\ wire[n + j] = <<Len(sent), t[Len(buf) + (n + j)]>>
      BY <2>1, <2>7, <3>1
    <3> QED
      BY <3>1, <3>2
  <2>11. \A i \in start + 1 .. Len(buf') : buf'[i] = <<Len(sent), t[i]>>
    <3> SUFFICES ASSUME NEW i \in start + 1 .. Len(buf') PROVE buf'[i] = <<Len(sent), t[i]>>
      OBVIOUS
    <3>1. CASE i <= Len(buf)
      <4>1. i \in 1 .. Len(buf) /\ i \in start + 1 .. Len(buf)
        BY <2>1, <2>8, <3>1
      <4> QED
        BY <2>1, <2>7, <4>1
    <3>2. CASE ~ (i <= Len(buf))
      <4> DEFINE j == i - Len(buf)
      <4>1. j \in 1 .. n /\ j \in 1 .. Len(wire) /\ Len(buf) + j = i
        BY <2>1, <2>8, <3>2
      <4> HIDE DEF j
      <4>2. buf'[Len(buf) + j] = wire[j] /\ wire[j] = <<Len(sent), t[Len(buf) + j]>>
        BY <2>1, <2>7, <4>1
      <4> QED
        BY <4>1, <4>2
    <3> QED
      BY <3>1, <3>2
  <2>12. InText(m)'
    BY <2>5, <2>9, <2>10, <2>11 DEF InText, t
  <2> QED
    BY <1>a, <2>3, <2>4, <2>5, <2>6, <2>12
<1>3. CASE ReadFull \/ Disconnect \/ HeaderThrows
  BY <1>3 DEF ReadFull, Disconnect, Close, HeaderThrows
<1>4. CASE Process /\ ~ HeaderThrows
  <2>1. pc = "parse"
    BY <1>4 DEF Process, NoLine, RequestLine, Header, HeadersEnd, BadRequestLine,
                RequestWithoutBody, Content, CallsParseLine
  <2>2. Len(sent) = Len(answered) + 1
    BY <1>c, <2>1
  <2>3. PICK m \in Messages : /\ m = sent[Len(sent)] /\ WellFormed(m) /\ InText(m) /\ Place(m)
    BY <1>c, <2>1
  <2>4. CASE NoLine
    <3>1. UNCHANGED <<sent, answered>> /\ pc' = "in"
      BY <2>4 DEF NoLine, clientVars
    <3>2. InText(m)' /\ Place(m)'
      BY <1>0, <2>3, <2>4, WaitsForLine
    <3> QED
      BY <1>a, <2>2, <2>3, <3>1, <3>2
  <2>5. CASE RequestLine
    <3>1. UNCHANGED <<sent, answered>> /\ pc' = "parse"
      BY <2>1, <2>5 DEF RequestLine, clientVars
    <3>2. InText(m)' /\ BehindHeader(m, 0)'
      BY <2>3, <2>5, TakesRequestLine
    <3>3. 0 \in 0 .. Len(m.headers)
      BY MessageFacts
    <3>4. Place(m)'
      BY <3>2, <3>3 DEF Place
    <3> QED
      BY <1>a, <2>2, <2>3, <3>1, <3>2, <3>4
  <2>6. CASE Header
    <3>1. UNCHANGED <<sent, answered>> /\ pc' = "parse"
      BY <2>1, <2>6 DEF Header, clientVars
    <3>2. InText(m)' /\ Place(m)'
      BY <2>3, <2>6, TakesHeader DEF Place
    <3> QED
      BY <1>a, <2>2, <2>3, <3>1, <3>2
  <2>7. CASE HeadersEnd
    <3>1. /\ UNCHANGED <<sent, wire, answered, parsed, linger, length>> /\ pc' = "parse"
          /\ check = "Header" /\ ParseLine.status = "Ok" /\ LineText = "CR" /\ length # 0
          /\ check' = "Content" /\ TakeLine
      BY <2>1, <2>7 DEF HeadersEnd, clientVars
    <3>2. /\ parsed = Len(sent) /\ length = Len(m.body) /\ LingerAfter(m, Len(m.headers))
          /\ ParseLine.idx = BodyStart(m)
      BY <2>3, <3>1, AtEmptyLine
    <3>3. start' = BodyStart(m) /\ checked' = start'
      BY <3>1, <3>2, TakeLineFacts
    <3>4. LingerAfter(m, Len(m.headers))'
      BY <3>1, <3>2 DEF LingerAfter
    <3>5. InBody(m)'
      BY <3>1, <3>2, <3>3, <3>4 DEF InBody
    <3>6. InText(m)'
      BY <2>3, <3>1, TakeLineInText DEF InText
    <3> QED
      BY <1>a, <2>2, <2>3, <3>1, <3>5, <3>6 DEF Place
  <2>8. CASE BadRequestLine
    BY <2>3, <2>8, NotRefused
  <2>9. CASE RequestWithoutBody
    <3>1. UNCHANGED <<sent, wire>> /\ DoRequest(<< >>)
      BY <2>9 DEF RequestWithoutBody, clientVars
    <3>2. wire = << >>
      BY <2>3, <2>9, TakesNoBody
    <3> QED
      BY <1>b, <2>2, <3>1, <3>2
  <2>10. CASE Content
    <3>1. UNCHANGED <<sent, wire>>
      BY <2>10 DEF Content, clientVars
    <3>2. \/ wire = << >> /\ DoRequest(m.body)
          \/ InText(m)' /\ Place(m)' /\ UNCHANGED <<pc, answered>>
      BY <1>0, <2>3, <2>10, TakesBody
    <3>3. CASE wire = << >> /\ DoRequest(m.body)
      BY <1>b, <2>2, <3>1, <3>3
    <3>4. CASE InText(m)' /\ Place(m)' /\ UNCHANGED <<pc, answered>>
      BY <1>a, <2>1, <2>2, <2>3, <3>1, <3>4
    <3> QED
      BY <3>2, <3>3, <3>4
  <2> QED
    BY <1>4, <2>4, <2>5, <2>6, <2>7, <2>8, <2>9, <2>10 DEF Process
<1>5. ASSUME pc = "out" PROVE Len(sent) = Len(answered) /\ wire = << >>
  BY <1>0, <1>5 DEF Sync, Synced, Idle
<1>6. ASSUME NEW n, WritePart(n) PROVE Synced'
  BY <1>5, <1>6 DEF WritePart, clientVars, Synced
<1>7. CASE WriteRest
  <2>1. linger /\ pc' = "in" /\ ResetState /\ UNCHANGED <<sent, wire, answered>>
    BY <1>7 DEF WriteRest, clientVars
  <2>2. Len(sent) = Len(answered) /\ wire = << >>
    BY <1>5, <1>7 DEF WriteRest
  <2>3. linger' = FALSE
    BY <2>1, Zenon DEF ResetState
  <2>4. /\ buf' = << >> /\ checked' = 0 /\ start' = 0 /\ check' = "RequestLine" /\ length' = 0
    BY <2>1 DEF ResetState
  <2>5. Idle'
    <3>1. wire' = << >>
      BY <2>1, <2>2
    <3> QED
      BY <2>1, <2>3, <2>4, <3>1, Zenon DEF Idle
  <2> QED
    BY <2>1, <2>2, <2>5 DEF Synced
<1>8. CASE UNCHANGED vars
  <2>1. UNCHANGED <<sent, wire, buf, checked, start, check, parsed, linger, length, pc, answered>>
    BY <1>8 DEF vars, clientVars, parseVars
  <2>2. Synced
    BY <1>0, <2>1 DEF Sync
  <2>3. CASE Len(sent) = Len(answered) /\ Idle
    BY <2>1, <2>3 DEF Synced, Idle
  <2>4. CASE Len(sent) = Len(answered) /\ pc = "out" /\ wire = << >>
    BY <2>1, <2>4 DEF Synced
  <2>5. ASSUME Len(sent) = Len(answered) + 1, pc \in {"in", "parse"}, NEW m \in Messages,
               m = sent[Len(sent)], InText(m), Place(m)
        PROVE  Synced'
    <3>1. InText(m)'
      BY <2>1, <2>5 DEF InText
    <3>2. Place(m)'
      BY <2>1, <2>5 DEF Place, InFirstLine, BehindHeader, InBody, LingerAfter, LengthAfter
    <3> QED
      BY <1>a, <2>1, <2>5, <3>1, <3>2
  <2> QED
    BY <2>2, <2>3, <2>4, <2>5 DEF Synced
<1> QED
  BY <1>1, <1>2, <1>3, <1>4, <1>6, <1>7, <1>8 DEF Next, WriteNothing, Ended

(* A client that waits for its answers has at most one request open. *)
LEMMA UnpipedStep ==
  ASSUME Typing, Unpiped, [Next]_vars
  PROVE  Unpiped'
<1> SUFFICES ASSUME ~ piped' PROVE Len(sent') <= Len(answered') + 1
  BY DEF Unpiped
<1>0. Len(sent) \in Nat /\ Len(answered) \in Nat
  BY LenProperties DEF Typing, TypeOK
<1>1. Len(sent) <= Len(answered) + 1
  BY GoodBefore DEF Unpiped
<1>2. ASSUME UNCHANGED sent, NEW e, answered' = Append(answered, e)
      PROVE  Len(sent') <= Len(answered') + 1
  <2>1. Len(answered') = Len(answered) + 1
    BY <1>2, Appended DEF Typing
  <2> QED
    BY <1>0, <1>1, <1>2, <2>1
<1>3. ASSUME NEW m \in Messages, Send(m), answered' = answered
      PROVE  Len(sent') <= Len(answered') + 1
  <2>1. ~ (Len(answered) < Len(sent))
    BY <1>3 DEF Send
  <2>2. Len(sent') = Len(sent) + 1
    BY <1>3, SendFacts
  <2> QED
    BY <1>0, <1>3, <2>1, <2>2
<1>4. CASE UNCHANGED <<answered, sent>>
  BY <1>1, <1>4
<1> QED
  BY <1>2, <1>3, <1>4, AnsweredStep DEF Answer, DoRequest

(* The k-th answer answers the k-th message. *)
AsSent(k) == /\ answered[k].msg = k
             /\ answered[k].body = sent[k].body
             /\ answered[k].linger = (LastOf(sent[k], {"keep", "close"}) = "keep")

Faithful == \A k \in 1 .. Len(answered) :
              ~ rescanned /\ ~ piped /\ (\A j \in 1 .. k : WellFormed(sent[j])) => AsSent(k)

(* The answer that a step adds. *)
LEMMA NewAsSent ==
  ASSUME Typing, Sync, Unpiped, [Next]_vars, ~ rescanned', ~ piped', answered' # answered,
         \A j \in 1 .. Len(answered) + 1 : WellFormed(sent[j])
  PROVE  /\ UNCHANGED sent /\ Len(answered) + 1 = Len(sent)
         /\ Len(answered) \in Nat /\ Len(answered') = Len(answered) + 1
         /\ \A k \in 1 .. Len(answered) : answered'[k] = answered[k]
         /\ answered'[Len(sent)].msg = Len(sent)
         /\ answered'[Len(sent)].body = sent[Len(sent)].body
         /\ answered'[Len(sent)].linger =
              (LastOf(sent[Len(sent)], {"keep", "close"}) = "keep")
<1>0. Len(sent) \in Nat /\ Len(answered) \in Nat
  BY LenProperties DEF Typing, TypeOK
<1>1. ~ rescanned /\ ~ piped
  BY GoodBefore
<1>2. Len(sent) <= Len(answered) + 1
  BY <1>1 DEF Unpiped
<1>3. Good
  <2>1. \A j \in 1 .. Len(sent) : j \in 1 .. Len(answered) + 1
    BY <1>0, <1>2
  <2> QED
    BY <1>1, <2>1 DEF Good
<1>4. BadRequestLine \/ RequestWithoutBody \/ Content
  BY DEF Next, Process, Send, Read, ReadFull, Disconnect, Close, NoLine, RequestLine, Header,
         HeaderThrows, HeadersEnd, WritePart, WriteRest, WriteNothing, Ended, vars
<1>5. pc = "parse"
  BY <1>4 DEF BadRequestLine, RequestWithoutBody, Content, CallsParseLine
<1>6. Len(sent) = Len(answered) + 1
  BY <1>3, <1>5, InLastMessage
<1>7. PICK m \in Messages : /\ m = sent[Len(sent)] /\ WellFormed(m) /\ InText(m) /\ Place(m)
  BY <1>3, <1>5, InLastMessage
<1>8. /\ DoRequest(m.body) /\ parsed = Len(sent) /\ LingerAfter(m, Len(m.headers))
      /\ UNCHANGED sent
  <2>1. CASE BadRequestLine
    BY <1>7, <2>1, NotRefused
  <2>2. CASE RequestWithoutBody
    <3>1. parsed = Len(sent) /\ m.body = << >> /\ LingerAfter(m, Len(m.headers))
      BY <1>7, <2>2, TakesNoBody
    <3> QED
      BY <2>2, <3>1 DEF RequestWithoutBody, clientVars
  <2>3. CASE Content
    <3>1. /\ parsed = Len(sent) /\ LingerAfter(m, Len(m.headers))
          /\ DoRequest(m.body) \/ UNCHANGED answered
      BY <1>7, <2>3, TakesBody
    <3> QED
      BY <2>3, <3>1 DEF Content, clientVars
  <2> QED
    BY <1>4, <2>1, <2>2, <2>3
<1>9. linger = (LastOf(m, {"keep", "close"}) = "keep")
  BY <1>7, <1>8, AfterHeaders
<1>10. /\ Len(answered') = Len(answered) + 1
       /\ \A k \in 1 .. Len(answered) : answered'[k] = answered[k]
       /\ answered'[Len(answered) + 1].msg = parsed
       /\ answered'[Len(answered) + 1].body = m.body
       /\ answered'[Len(answered) + 1].linger = linger
  BY <1>8, NewAnswer
<1> QED
  BY <1>0, <1>6, <1>7, <1>8, <1>9, <1>10

(* Every step keeps the answers faithful. *)
LEMMA FaithfulStep ==
  ASSUME Typing, Sync, Unpiped, Faithful, [Next]_vars
  PROVE  Faithful'
<1> SUFFICES ASSUME NEW k \in 1 .. Len(answered'), ~ rescanned', ~ piped',
                    \A j \in 1 .. k : WellFormed(sent'[j])
             PROVE  AsSent(k)'
  BY DEF Faithful, WellFormed
<1>0. ~ rescanned /\ ~ piped /\ Len(sent) \in Nat /\ Len(answered) \in Nat
  BY GoodBefore, LenProperties DEF Typing, TypeOK
<1>1. CASE UNCHANGED <<answered, sent>>
  BY <1>0, <1>1 DEF Faithful, AsSent
<1>2. ASSUME NEW m \in Messages, Send(m), answered' = answered PROVE AsSent(k)'
  <2>1. /\ ~ (Len(answered) < Len(sent)) /\ pc # "out" /\ pc \in {"in", "out"}
    BY <1>2 DEF Send
  <2>2. /\ Len(sent') = Len(sent) + 1 /\ \A i \in 1 .. Len(sent) : sent'[i] = sent[i]
    BY <1>2, SendFacts
  <2>3. CASE k \in 1 .. Len(sent)
    <3>1. \A j \in 1 .. k : sent'[j] = sent[j] /\ WellFormed(sent[j])
      <4> SUFFICES ASSUME NEW j \in 1 .. k PROVE sent'[j] = sent[j] /\ WellFormed(sent[j])
        OBVIOUS
      <4>1. j \in 1 .. Len(sent)
        BY <1>0, <2>3
      <4> QED
        BY <2>2, <4>1
    <3>2. AsSent(k)
      BY <1>0, <1>2, <3>1 DEF Faithful
    <3>3. sent'[k] = sent[k]
      BY <2>2, <2>3
    <3> QED
      BY <1>2, <3>2, <3>3 DEF AsSent
  <2>4. CASE k \notin 1 .. Len(sent)
    <3>1. \A j \in 1 .. Len(sent) : WellFormed(sent[j])
      <4> SUFFICES ASSUME NEW j \in 1 .. Len(sent) PROVE WellFormed(sent[j])
        OBVIOUS
      <4>1. j \in 1 .. k /\ sent'[j] = sent[j]
        BY <1>0, <1>2, <2>2, <2>4
      <4> QED
        BY <4>1
    <3>2. Good
      BY <1>0, <3>1 DEF Good
    <3>3. Len(sent) = Len(answered)
      BY <1>0, <2>1, <3>2 DEF Sync, Synced
    <3> QED
      BY <1>2, <2>4, <3>3
  <2> QED
    BY <2>3, <2>4
<1>3. ASSUME answered' # answered, k \in 1 .. Len(answered) PROVE AsSent(k)'
  <2>1. /\ UNCHANGED sent /\ \E e : answered' = Append(answered, e)
    BY <1>3, AnsweredStep DEF Answer, DoRequest
  <2>2. answered'[k] = answered[k]
    BY <1>3, <2>1, Appended DEF Typing
  <2>3. AsSent(k)
    BY <1>0, <1>3, <2>1 DEF Faithful
  <2> QED
    BY <2>1, <2>2, <2>3 DEF AsSent
<1>4. ASSUME answered' # answered, k \notin 1 .. Len(answered) PROVE AsSent(k)'
  <2>1. /\ UNCHANGED sent /\ \E e : answered' = Append(answered, e)
    BY <1>4, AnsweredStep DEF Answer, DoRequest
  <2>2. Len(answered') = Len(answered) + 1
    BY <2>1, Appended DEF Typing
  <2>3. k = Len(answered) + 1
    BY <1>0, <1>4, <2>2
  <2>4. \A j \in 1 .. Len(answered) + 1 : WellFormed(sent[j])
    BY <2>1, <2>3
  <2>5. /\ UNCHANGED sent /\ Len(answered) + 1 = Len(sent)
        /\ answered'[Len(sent)].msg = Len(sent)
        /\ answered'[Len(sent)].body = sent[Len(sent)].body
        /\ answered'[Len(sent)].linger =
             (LastOf(sent[Len(sent)], {"keep", "close"}) = "keep")
    BY <1>4, <2>4, NewAsSent
  <2> QED
    BY <2>3, <2>5 DEF AsSent
<1> QED
  BY <1>1, <1>2, <1>3, <1>4, AnsweredStep

(* However a well-formed request is cut into pieces, the k-th answer is    *)
(* the answer to the k-th message, with its own body and its own wish to   *)
(* keep the connection, as long as no body was searched for line ends and  *)
(* the client waited for its answers: for any messages, whatever their     *)
(* headers and bodies, and any size of the read buffer.                    *)
THEOREM HttpParsed == Spec => []ParsedAsSent
<1>1. Init => Typing /\ Sync /\ Unpiped /\ Faithful
  <2> SUFFICES ASSUME Init PROVE Typing /\ Sync /\ Unpiped /\ Faithful
    OBVIOUS
  <2>1. Typing
    BY InitTyping
  <2>2. Len(sent) = 0 /\ Len(answered) = 0
    BY DEF Init
  <2>3. linger = FALSE
    BY Zenon DEF Init
  <2>4. Idle
    BY <2>3 DEF Init, Idle
  <2> QED
    BY <2>1, <2>2, <2>4 DEF Sync, Synced, Unpiped, Faithful
<1>2. Typing /\ Sync /\ Unpiped /\ Faithful /\ [Next]_vars
        => Typing' /\ Sync' /\ Unpiped' /\ Faithful'
  BY TypingStep, SyncStep, UnpipedStep, FaithfulStep
<1>3. Typing /\ Faithful => ParsedAsSent
  <2> SUFFICES ASSUME Typing, Faithful PROVE ParsedAsSent
    OBVIOUS
  <2>1. DOMAIN answered = 1 .. Len(answered)
    BY LenProperties DEF Typing
  <2> QED
    BY <2>1 DEF Faithful, AsSent, ParsedAsSent
<1> QED
  BY <1>1, <1>2, <1>3, PTL DEF Spec

=============================================================================
