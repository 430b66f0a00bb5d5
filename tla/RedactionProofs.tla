---------------------------- MODULE RedactionProofs ----------------------------
(***************************************************************************)
(* What the redaction of a page leaves of its texts, and what the analysis *)
(* of the redacted page tells of a table, for all pages, visions and rules.*)
(***************************************************************************)
EXTENDS PerceptionProofs

-----------------------------------------------------------------------------
(* What is kept of a text: it depends on the positions of the text only, and *)
(* of two texts in a row it is what is kept of each.                         *)

LEMMA KeptSame ==
    ASSUME NEW S, NEW s \in Seq(S), NEW K, NEW J, \A n \in 1..Len(s) : n \in K <=> n \in J
    PROVE  Kept(s, K) = Kept(s, J)
<1> DEFINE N == Len(s)
<1>1. N \in Nat
  OBVIOUS
<1>2. PICK g : /\ g[0] = <<>>
               /\ \A n \in 1..Len(s) : g[n] = IF n \in K THEN Append(g[n - 1], s[n]) ELSE g[n - 1]
               /\ Kept(s, K) = g[Len(s)]
  BY KeptRun
<1>3. PICK h : /\ h[0] = <<>>
               /\ \A n \in 1..Len(s) : h[n] = IF n \in J THEN Append(h[n - 1], s[n]) ELSE h[n - 1]
               /\ Kept(s, J) = h[Len(s)]
  BY KeptRun
<1> DEFINE Good == {n \in 0..N : g[n] = h[n]}
<1>4. 0 \in Good
  BY <1>1, <1>2, <1>3
<1>5. ASSUME NEW n \in 1..N, n - 1 \in Good PROVE n \in Good
  BY <1>2, <1>3, <1>5
<1>6. N \in 0..N
  BY <1>1
<1>7. N \in Good
  <2> HIDE DEF Good, N
  <2> QED BY <1>1, <1>4, <1>5, <1>6, Keeping!Induction
<1> QED BY <1>2, <1>3, <1>7

LEMMA KeptNone ==
    ASSUME NEW S, NEW s \in Seq(S), NEW K, \A n \in 1..Len(s) : n \notin K
    PROVE  Kept(s, K) = <<>>
<1> DEFINE N == Len(s)
<1>1. N \in Nat
  OBVIOUS
<1>2. PICK g : /\ g[0] = <<>>
               /\ \A n \in 1..Len(s) : g[n] = IF n \in K THEN Append(g[n - 1], s[n]) ELSE g[n - 1]
               /\ Kept(s, K) = g[Len(s)]
  BY KeptRun
<1> DEFINE Good == {n \in 0..N : g[n] = <<>>}
<1>4. 0 \in Good
  BY <1>1, <1>2
<1>5. ASSUME NEW n \in 1..N, n - 1 \in Good PROVE n \in Good
  BY <1>2, <1>5
<1>6. N \in 0..N
  BY <1>1
<1>7. N \in Good
  <2> HIDE DEF Good, N
  <2> QED BY <1>1, <1>4, <1>5, <1>6, Keeping!Induction
<1> QED BY <1>2, <1>7

LEMMA KeptAll ==
    ASSUME NEW S, NEW s \in Seq(S), NEW K, \A n \in 1..Len(s) : n \in K
    PROVE  Kept(s, K) = s
<1> DEFINE N == Len(s)
           part == [n \in 0..N |-> SubSeq(s, 1, n)]
<1>1. N \in Nat
  OBVIOUS
<1>2. PICK g : /\ g[0] = <<>>
               /\ \A n \in 1..Len(s) : g[n] = IF n \in K THEN Append(g[n - 1], s[n]) ELSE g[n - 1]
               /\ Kept(s, K) = g[Len(s)]
  BY KeptRun
<1>3. part[0] = <<>> /\ part[N] = s
  BY <1>1, SubSeqEmpty, SubSeqFull
<1>4. ASSUME NEW n \in 1..N PROVE part[n] = Append(part[n - 1], s[n])
  <2>1. SubSeq(s, 1, n) = SubSeq(s, 1, n - 1) \o <<s[n]>>
    <3>1. 1 \in 1..Len(s) /\ n \in 1..Len(s)
      BY <1>1
    <3> QED BY <3>1, SubSeqRecursiveSecond
  <2>2. s[n] \in S /\ SubSeq(s, 1, n - 1) \in Seq(S)
    BY <1>1
  <2>3. Append(SubSeq(s, 1, n - 1), s[n]) = SubSeq(s, 1, n - 1) \o <<s[n]>>
    BY <2>2
  <2>4. part[n] = SubSeq(s, 1, n) /\ part[n - 1] = SubSeq(s, 1, n - 1)
    BY <1>1
  <2> QED BY <2>1, <2>3, <2>4
<1> HIDE DEF part
<1> DEFINE Good == {n \in 0..N : g[n] = part[n]}
<1>5. 0 \in Good
  BY <1>1, <1>2, <1>3
<1>6. ASSUME NEW n \in 1..N, n - 1 \in Good PROVE n \in Good
  <2>1. g[n - 1] = part[n - 1] /\ n \in 0..N
    BY <1>6
  <2>2. g[n] = Append(g[n - 1], s[n])
    BY <1>2
  <2>3. g[n] = part[n]
    BY <1>4, <2>1, <2>2
  <2> QED BY <2>1, <2>3
<1>7. N \in 0..N
  BY <1>1
<1>8. N \in Good
  <2> HIDE DEF Good, N
  <2> QED BY <1>1, <1>5, <1>6, <1>7, Keeping!Induction
<1> QED BY <1>2, <1>3, <1>8

LEMMA JoinedAfter ==
    ASSUME NEW a \in Seq(Tokens)
    PROVE  \E after : /\ after[<<>>] = a
                      /\ \A x \in Seq(Tokens) : after[x] = a \o x
                      /\ \A x \in Seq(Tokens), e \in Tokens : Append(after[x], e) = after[Append(x, e)]
<1> DEFINE after == [x \in Seq(Tokens) |-> a \o x]
<1>1. after[<<>>] = a
  BY ConcatEmptySeq
<1>2. \A x \in Seq(Tokens) : after[x] = a \o x
  OBVIOUS
<1>3. ASSUME NEW x \in Seq(Tokens), NEW e \in Tokens PROVE Append(after[x], e) = after[Append(x, e)]
  <2>1. a \o x \in Seq(Tokens) /\ <<e>> \in Seq(Tokens) /\ Append(x, e) \in Seq(Tokens)
    OBVIOUS
  <2>2. after[x] = a \o x /\ after[Append(x, e)] = a \o Append(x, e)
    BY <2>1
  <2> HIDE DEF after
  <2>3. Append(a \o x, e) = (a \o x) \o <<e>> /\ Append(x, e) = x \o <<e>>
    BY <2>1
  <2>4. (a \o x) \o <<e>> = a \o (x \o <<e>>)
    BY <2>1, ConcatAssociative
  <2> QED BY <2>2, <2>3, <2>4
<1> HIDE DEF after
<1> QED BY <1>1, <1>2, <1>3

LEMMA KeptJoin ==
    ASSUME NEW a \in Seq(Tokens), NEW b \in Seq(Tokens), NEW K, NEW J,
           \A n \in 1..Len(b) : n \in J <=> n + Len(a) \in K
    PROVE  Kept(a \o b, K) = Kept(a, K) \o Kept(b, J)
<1> DEFINE A == Len(a)
           B == Len(b)
           s == a \o b
<1>1. A \in Nat /\ B \in Nat /\ s \in Seq(Tokens) /\ Len(s) = A + B /\ Kept(a, K) \in Seq(Tokens)
  BY KeptType
<1>2. \A n \in 1..A : s[n] = a[n]
  OBVIOUS
<1>3. \A n \in 1..B : s[n + A] = b[n] /\ b[n] \in Tokens
  OBVIOUS
<1>4. PICK g : /\ g[0] = <<>>
               /\ \A n \in 1..Len(s) : g[n] = IF n \in K THEN Append(g[n - 1], s[n]) ELSE g[n - 1]
               /\ Kept(s, K) = g[Len(s)]
  BY <1>1, KeptRun
<1>5. PICK h : /\ h[0] = <<>>
               /\ \A n \in 1..Len(a) : h[n] = IF n \in K THEN Append(h[n - 1], a[n]) ELSE h[n - 1]
               /\ Kept(a, K) = h[Len(a)]
  BY KeptRun
<1>6. PICK f : /\ f[0] = <<>>
               /\ \A n \in 1..Len(b) : f[n] = IF n \in J THEN Append(f[n - 1], b[n]) ELSE f[n - 1]
               /\ Kept(b, J) = f[Len(b)]
  BY KeptRun
<1> HIDE DEF s
<1>a. PICK after : /\ after[<<>>] = Kept(a, K)
                   /\ \A x \in Seq(Tokens) : after[x] = Kept(a, K) \o x
                   /\ \A x \in Seq(Tokens), e \in Tokens : Append(after[x], e) = after[Append(x, e)]
  BY <1>1, JoinedAfter
<1> DEFINE First == {n \in 0..A : g[n] = h[n]}
           kept == Kept(a, K)
           Then == {n \in 0..B : f[n] \in Seq(Tokens) /\ g[n + A] = after[f[n]]}
<1>7. g[A] = kept
  <2>1. 0 \in First
    BY <1>1, <1>4, <1>5
  <2>2. ASSUME NEW n \in 1..A, n - 1 \in First PROVE n \in First
    <3>1. n \in 1..Len(s) /\ n \in 1..Len(a)
      BY <1>1
    <3> QED BY <1>2, <1>4, <1>5, <2>2, <3>1
  <2>3. A \in 0..A
    BY <1>1
  <2>4. A \in First
    <3> HIDE DEF First, A
    <3> QED BY <1>1, <2>1, <2>2, <2>3, Keeping!Induction
  <2> QED BY <1>5, <2>4
<1>b. after[<<>>] = kept /\ \A x \in Seq(Tokens) : after[x] = kept \o x
  BY <1>a
<1> HIDE DEF kept
<1>8. 0 \in Then
  <2>2. 0 + A = A
    BY <1>1
  <2>1. f[0] \in Seq(Tokens) /\ after[f[0]] = kept
    BY <1>6, <1>b
  <2>3. 0 \in 0..B
    BY <1>1
  <2> QED BY <1>7, <2>1, <2>2, <2>3
<1>9. ASSUME NEW n \in 1..B, n - 1 \in Then PROVE n \in Then
  <2>1. n + A \in 1..Len(s) /\ (n + A) - 1 = (n - 1) + A /\ n \in 1..Len(b)
    BY <1>1
  <2>2. f[n - 1] \in Seq(Tokens) /\ g[(n + A) - 1] = after[f[n - 1]]
    BY <1>9, <2>1
  <2>3. g[n + A] = IF n + A \in K THEN Append(g[(n + A) - 1], s[n + A]) ELSE g[(n + A) - 1]
    BY <1>4, <2>1
  <2>4. f[n] = IF n \in J THEN Append(f[n - 1], b[n]) ELSE f[n - 1]
    BY <1>6, <2>1
  <2>5. n \in J <=> n + A \in K
    BY <2>1
  <2>6. s[n + A] = b[n] /\ b[n] \in Tokens
    BY <1>3
  <2>7. /\ Append(after[f[n - 1]], b[n]) = after[Append(f[n - 1], b[n])]
        /\ Append(f[n - 1], b[n]) \in Seq(Tokens)
    BY <1>a, <2>2, <2>6
  <2>8. f[n] \in Seq(Tokens) /\ g[n + A] = after[f[n]]
    BY <2>2, <2>3, <2>4, <2>5, <2>6, <2>7
  <2>9. n \in 0..B
    OBVIOUS
  <2> QED BY <2>8, <2>9
<1>10. B \in 0..B
  BY <1>1
<1>11. B \in Then
  <2> HIDE DEF Then, B
  <2> QED BY <1>1, <1>8, <1>9, <1>10, Keeping!Induction
<1>12. Len(s) = B + A
  BY <1>1
<1> QED BY <1>4, <1>6, <1>11, <1>12, <1>b DEF kept, s

-----------------------------------------------------------------------------
(* The session's placeholders in a text: what is left without them.          *)

Bare(text) == Kept(text, DOMAIN text \ Held(text, {"ours"}))

(* Each nonce is the end of a whole placeholder.                             *)
Wellplaced(text) ==
    \A n \in DOMAIN text : text[n][1] = "ours" => n > 2 /\ text[n - 2] = Opening

LEMMA HeldAt ==
    ASSUME NEW text \in Seq(Tokens), Wellplaced(text), NEW n
    PROVE  n \in Held(text, {"ours"}) <=> \E q \in DOMAIN text : text[q][1] = "ours" /\ n \in (q - 2)..q
<1>1. DOMAIN text = 1..Len(text) /\ Len(text) \in Nat
  OBVIOUS
<1>2. ASSUME n \in Held(text, {"ours"})
      PROVE  \E q \in DOMAIN text : text[q][1] = "ours" /\ n \in (q - 2)..q
  <2>1. PICK j \in 1..(Len(text) - 2) : text[j + 2][1] \in {"ours"} /\ n \in j..(j + 2)
    BY <1>2 DEF Held
  <2>2. j + 2 \in DOMAIN text /\ (j + 2) - 2 = j
    BY <1>1
  <2> QED BY <2>1, <2>2
<1>3. ASSUME NEW q \in DOMAIN text, text[q][1] = "ours", n \in (q - 2)..q
      PROVE  n \in Held(text, {"ours"})
  <2>1. q > 2 /\ text[q - 2] = Opening
    BY <1>3 DEF Wellplaced
  <2> DEFINE j == q - 2
  <2>2. j \in 1..(Len(text) - 2) /\ j + 2 = q
    BY <1>1, <2>1
  <2>3. text[j] = Opening /\ text[j + 2][1] \in {"ours"} /\ n \in j..(j + 2)
    BY <1>3, <2>1, <2>2
  <2> HIDE DEF j
  <2> QED BY <2>2, <2>3 DEF Held
<1> QED BY <1>2, <1>3

(* A text without a nonce is kept in front of one that is well placed.       *)
LEMMA BareJoin ==
    ASSUME NEW x \in Seq(Tokens), \A n \in DOMAIN x : x[n][1] # "ours",
           NEW t \in Seq(Tokens), Wellplaced(t)
    PROVE  Wellplaced(x \o t) /\ Bare(x \o t) = x \o Bare(t)
<1> DEFINE s == x \o t
           A == Len(x)
           B == Len(t)
           K == DOMAIN s \ Held(s, {"ours"})
           J == DOMAIN t \ Held(t, {"ours"})
<1>1. /\ A \in Nat /\ B \in Nat /\ s \in Seq(Tokens) /\ DOMAIN s = 1..(A + B)
      /\ DOMAIN x = 1..A /\ DOMAIN t = 1..B
  OBVIOUS
<1>2. \A n \in 1..A : s[n] = x[n]
  OBVIOUS
<1>3. \A n \in 1..B : s[n + A] = t[n]
  OBVIOUS
<1> HIDE DEF s, A, B
<1>4. ASSUME NEW q \in DOMAIN s, s[q][1] = "ours"
      PROVE  q - A \in 1..B /\ t[q - A][1] = "ours" /\ q - A > 2 /\ t[(q - A) - 2] = Opening
  <2>1. q > A
    BY <1>1, <1>2, <1>4
  <2> DEFINE r == q - A
  <2>2. r \in 1..B /\ q = r + A
    BY <1>1, <2>1
  <2> HIDE DEF r
  <2>3. t[r][1] = "ours"
    BY <1>3, <1>4, <2>2
  <2>4. r > 2 /\ t[r - 2] = Opening
    BY <1>1, <2>2, <2>3 DEF Wellplaced
  <2> QED BY <2>2, <2>3, <2>4 DEF r
<1>5. Wellplaced(s)
  <2> SUFFICES ASSUME NEW q \in DOMAIN s, s[q][1] = "ours" PROVE q > 2 /\ s[q - 2] = Opening
    BY DEF Wellplaced
  <2> DEFINE r == q - A
  <2>1. r \in 1..B /\ r > 2 /\ t[r - 2] = Opening /\ q = r + A
    BY <1>1, <1>4
  <2> HIDE DEF r
  <2>2. r - 2 \in 1..B /\ q - 2 = (r - 2) + A
    BY <1>1, <2>1
  <2> QED BY <1>1, <1>3, <2>1, <2>2
<1>6. \A n : n \in Held(s, {"ours"}) <=> \E q \in DOMAIN s : s[q][1] = "ours" /\ n \in (q - 2)..q
  BY <1>1, <1>5, HeldAt
<1>7. \A n : n \in Held(t, {"ours"}) <=> \E q \in DOMAIN t : t[q][1] = "ours" /\ n \in (q - 2)..q
  BY HeldAt
<1>8. \A n \in 1..A : n \in K
  <2> SUFFICES ASSUME NEW n \in 1..A, NEW q \in DOMAIN s, s[q][1] = "ours", n \in (q - 2)..q PROVE FALSE
    BY <1>1, <1>6
  <2>1. q - A > 2
    BY <1>4
  <2> QED BY <1>1, <2>1
<1>9. ASSUME NEW n \in 1..B PROVE n \in J <=> n + A \in K
  <2>1. n + A \in DOMAIN s /\ n \in DOMAIN t
    BY <1>1
  <2>2. ASSUME NEW q \in DOMAIN s, s[q][1] = "ours", n + A \in (q - 2)..q
        PROVE  \E r \in DOMAIN t : t[r][1] = "ours" /\ n \in (r - 2)..r
    <3>1. q - A \in DOMAIN t /\ t[q - A][1] = "ours"
      BY <1>1, <1>4, <2>2
    <3>2. n \in ((q - A) - 2)..(q - A)
      BY <1>1, <2>2
    <3> QED BY <3>1, <3>2
  <2>3. ASSUME NEW r \in DOMAIN t, t[r][1] = "ours", n \in (r - 2)..r
        PROVE  \E q \in DOMAIN s : s[q][1] = "ours" /\ n + A \in (q - 2)..q
    <3>1. r + A \in DOMAIN s /\ s[r + A][1] = "ours" /\ n + A \in ((r + A) - 2)..(r + A)
      BY <1>1, <1>3, <2>3
    <3> QED BY <3>1
  <2> QED BY <2>1, <2>2, <2>3, <1>6, <1>7
<1>10. Kept(s, K) = Kept(x, K) \o Kept(t, J)
  <2>1. \A n \in 1..Len(t) : n \in J <=> n + Len(x) \in K
    BY <1>9 DEF A, B
  <2> HIDE DEF K, J
  <2> QED BY <2>1, KeptJoin DEF s
<1>11. Kept(x, K) = x
  <2> HIDE DEF K
  <2> QED BY <1>8, KeptAll DEF A
<1> QED BY <1>5, <1>10, <1>11 DEF Bare, s

(* A placeholder of the session's is well placed and nothing of it is left.  *)
LEMMA BarePlaceholder ==
    ASSUME NEW kind \in Names, kind # "ours", NEW m \in Int, NEW t \in Seq(Tokens), Wellplaced(t)
    PROVE  /\ Wellplaced(Placeholder(kind, m) \o t)
           /\ Bare(Placeholder(kind, m) \o t) = Bare(t)
<1> DEFINE P == Placeholder(kind, m)
           s == P \o t
           B == Len(t)
           K == DOMAIN s \ Held(s, {"ours"})
           J == DOMAIN t \ Held(t, {"ours"})
<1>1. P \in Seq(Tokens) /\ Len(P) = 3 /\ P[1] = Opening /\ P[2][1] = kind /\ P[3][1] = "ours"
      /\ P[1][1] # "ours"
  <2>1. P \in Seq(Tokens)
    BY PlaceholderType
  <2>2. Len(P) = 3 /\ P[1] = Opening /\ P[2] = <<kind, m>> /\ P[3] = <<"ours", 0>>
    BY DEF Placeholder
  <2>3. Opening[1] # "ours"
    BY DEF Opening
  <2> QED BY <2>1, <2>2, <2>3
<1> HIDE DEF P
<1>a. P \in Seq(Tokens) /\ Len(P) = 3
  BY <1>1
<1>b. /\ s \in Seq(Tokens) /\ Len(s) = 3 + B
      /\ \A n \in 1..(3 + B) : s[n] = IF n <= 3 THEN P[n] ELSE t[n - 3]
  <2>1. /\ s \in Seq(Tokens) /\ Len(s) = Len(P) + B
        /\ \A n \in 1..(Len(P) + B) : s[n] = IF n <= Len(P) THEN P[n] ELSE t[n - Len(P)]
    <3>1. P \in Seq(Tokens)
      BY <1>1
    <3> QED BY <3>1
  <2> HIDE DEF s, B
  <2> QED BY <1>a, <2>1
<1>2. B \in Nat /\ s \in Seq(Tokens) /\ DOMAIN s = 1..(3 + B) /\ DOMAIN t = 1..B /\ DOMAIN P = 1..3
  BY <1>a, <1>b
<1> HIDE DEF s, B
<1>3. s[1] = P[1] /\ s[2] = P[2] /\ s[3] = P[3]
  BY <1>b, <1>2
<1>4. ASSUME NEW n \in 1..B PROVE s[n + 3] = t[n]
  <2>1. n + 3 \in 1..(3 + B) /\ ~(n + 3 <= 3) /\ (n + 3) - 3 = n
    BY <1>2
  <2> QED BY <1>b, <2>1
<1>5. ASSUME NEW q \in DOMAIN s, s[q][1] = "ours"
      PROVE  q = 3 \/ (q - 3 \in 1..B /\ t[q - 3][1] = "ours" /\ q - 3 > 2 /\ t[(q - 3) - 2] = Opening)
  <2>1. q # 1 /\ q # 2
    BY <1>1, <1>3, <1>5
  <2>2. CASE q > 3
    <3> DEFINE r == q - 3
    <3>1. r \in 1..B /\ q = r + 3
      BY <1>2, <2>2
    <3> HIDE DEF r
    <3>2. t[r][1] = "ours"
      BY <1>4, <1>5, <3>1
    <3>3. r > 2 /\ t[r - 2] = Opening
      BY <1>2, <3>1, <3>2 DEF Wellplaced
    <3> QED BY <3>1, <3>2, <3>3 DEF r
  <2> QED BY <1>2, <2>1, <2>2
<1>6. Wellplaced(s)
  <2> SUFFICES ASSUME NEW q \in DOMAIN s, s[q][1] = "ours" PROVE q > 2 /\ s[q - 2] = Opening
    BY DEF Wellplaced
  <2>1. CASE q = 3
    BY <1>1, <1>3, <2>1
  <2>2. CASE q # 3
    <3> DEFINE r == q - 3
    <3>1. r \in 1..B /\ r > 2 /\ t[r - 2] = Opening /\ q = r + 3
      BY <1>2, <1>5, <2>2
    <3> HIDE DEF r
    <3>2. r - 2 \in 1..B /\ q - 2 = (r - 2) + 3
      BY <1>2, <3>1
    <3> QED BY <1>4, <3>1, <3>2
  <2> QED BY <2>1, <2>2
<1>7. \A n : n \in Held(s, {"ours"}) <=> \E q \in DOMAIN s : s[q][1] = "ours" /\ n \in (q - 2)..q
  BY <1>2, <1>6, HeldAt
<1>8. \A n : n \in Held(t, {"ours"}) <=> \E q \in DOMAIN t : t[q][1] = "ours" /\ n \in (q - 2)..q
  BY HeldAt
<1>9. \A n \in 1..3 : n \notin K
  <2>1. 3 \in DOMAIN s /\ s[3][1] = "ours"
    BY <1>1, <1>2, <1>3
  <2>2. \A n \in 1..3 : n \in (3 - 2)..3
    OBVIOUS
  <2> QED BY <1>7, <2>1, <2>2
<1>10. ASSUME NEW n \in 1..B PROVE n \in J <=> n + 3 \in K
  <2>1. n + 3 \in DOMAIN s /\ n \in DOMAIN t
    BY <1>2
  <2>2. ASSUME NEW q \in DOMAIN s, s[q][1] = "ours", n + 3 \in (q - 2)..q
        PROVE  \E r \in DOMAIN t : t[r][1] = "ours" /\ n \in (r - 2)..r
    <3>0. q # 3
      BY <1>2, <2>2
    <3>1. q - 3 \in DOMAIN t /\ t[q - 3][1] = "ours"
      BY <1>2, <1>5, <2>2, <3>0
    <3>2. n \in ((q - 3) - 2)..(q - 3)
      BY <1>2, <2>2
    <3> QED BY <3>1, <3>2
  <2>3. ASSUME NEW r \in DOMAIN t, t[r][1] = "ours", n \in (r - 2)..r
        PROVE  \E q \in DOMAIN s : s[q][1] = "ours" /\ n + 3 \in (q - 2)..q
    <3>1. r + 3 \in DOMAIN s /\ s[r + 3][1] = "ours" /\ n + 3 \in ((r + 3) - 2)..(r + 3)
      BY <1>2, <1>4, <2>3
    <3> QED BY <3>1
  <2> QED BY <2>1, <2>2, <2>3, <1>7, <1>8
<1>11. Kept(s, K) = Kept(P, K) \o Kept(t, J)
  <2>1. \A n \in 1..Len(t) : n \in J <=> n + Len(P) \in K
    <3> HIDE DEF K, J
    <3> QED BY <1>a, <1>10 DEF B
  <2>2. P \in Seq(Tokens)
    BY <1>a
  <2> HIDE DEF K, J
  <2>3. Kept(P \o t, K) = Kept(P, K) \o Kept(t, J)
    BY <2>1, <2>2, KeptJoin
  <2> QED BY <2>3 DEF s
<1>12. Kept(P, K) = <<>>
  <2> HIDE DEF K
  <2> QED BY <1>1, <1>9, KeptNone
<1>13. Kept(t, J) \in Seq(Tokens)
  BY KeptType
<1>14. <<>> \o Kept(t, J) = Kept(t, J)
  BY <1>13, ConcatEmptySeq
<1> QED BY <1>6, <1>11, <1>12, <1>14 DEF Bare, s, P

-----------------------------------------------------------------------------
(* The order of the edits: in a slot from its end backwards.                 *)

(* The numbers up to any of a set of numbers: as many as they are.           *)
LEMMA StartOf ==
    ASSUME NEW N \in Nat, NEW P \in SUBSET (1..N), \A n \in P : \A m \in 1..(n - 1) : m \in P
    PROVE  Cardinality(P) \in 0..N /\ P = 1..Cardinality(P)
<1> DEFINE Q == (1..(N + 1)) \ P
<1>1. N + 1 \in Q /\ Q \subseteq Nat
  OBVIOUS
<1>2. PICK k \in Q : \A m \in Q : k <= m
  BY <1>1, Keeping!LeastIn
<1>3. \A n \in P : n < k
  <2> SUFFICES ASSUME NEW n \in P, ~(n < k) PROVE FALSE
    OBVIOUS
  <2>1. n # k /\ k \in 1..(n - 1)
    OBVIOUS
  <2> QED BY <2>1
<1>4. \A n \in 1..(k - 1) : n \in P
  BY <1>2
<1>6. k \in 1..(N + 1) /\ k - 1 \in Nat /\ k - 1 <= N
  BY <1>1, <1>2
<1>5. P = 1..(k - 1)
  <2>1. \A n \in P : n \in 1..(k - 1)
    BY <1>3, <1>6
  <2> QED BY <1>4, <2>1
<1>7. Cardinality(1..(k - 1)) = k - 1
  BY <1>6, FS_Interval
<1> QED BY <1>5, <1>6, <1>7

Ahead(c, a, b) ==
    \/ FirstOf(c, a) < FirstOf(c, b)
    \/ Slot(a) = Slot(b) /\ a.span[1] > b.span[1]

LEMMA FirstOfSlot ==
    ASSUME NEW S, NEW c \in Seq(S), NEW d \in ToSet(c)
    PROVE  FirstOf(c, d) \in DOMAIN c /\ Slot(c[FirstOf(c, d)]) = Slot(d)
<1> DEFINE same == {n \in DOMAIN c : Slot(c[n]) = Slot(d)}
           Best(n) == Slot(c[n]) = Slot(d) /\ \A m \in DOMAIN c : Slot(c[m]) = Slot(d) => n <= m
<1>1. DOMAIN c = 1..Len(c) /\ Len(c) \in Nat
  OBVIOUS
<1>2. same \subseteq Nat /\ same # {}
  BY <1>1 DEF ToSet
<1>3. PICK k \in same : \A m \in same : k <= m
  BY <1>2, Keeping!LeastIn
<1>4. k \in DOMAIN c /\ Best(k)
  BY <1>3
<1>5. FirstOf(c, d) = CHOOSE n \in DOMAIN c : Best(n)
  BY DEF FirstOf
<1> HIDE DEF Best
<1>6. FirstOf(c, d) \in DOMAIN c /\ Best(FirstOf(c, d))
  BY <1>4, <1>5
<1> QED BY <1>6 DEF Best

Started == {d \in Finding : d.span # NoSpan}

(* The order is that of the first place of the slot, then of the end of the  *)
(* text: what is not ahead of what is not ahead is not ahead.                *)
LEMMA AheadOrder ==
    ASSUME NEW c \in Seq(Started), NEW a \in ToSet(c), NEW b \in ToSet(c), NEW d \in ToSet(c)
    PROVE  /\ Ahead(c, a, b) => ~Ahead(c, b, a)
           /\ ~Ahead(c, a, b) /\ ~Ahead(c, b, d) => ~Ahead(c, a, d)
<1> DEFINE f(x) == FirstOf(c, x)
           g(x) == x.span[1]
<1>1. \A x \in ToSet(c) : f(x) \in DOMAIN c /\ Slot(c[f(x)]) = Slot(x)
  BY FirstOfSlot
<1>2. \A x, y \in ToSet(c) : Slot(x) = Slot(y) => f(x) = f(y)
  BY DEF FirstOf
<1>3. \A x, y \in ToSet(c) : f(x) = f(y) => Slot(x) = Slot(y)
  BY <1>1
<1>4. DOMAIN c \subseteq Nat
  OBVIOUS
<1>5. \A x \in ToSet(c) : f(x) \in Nat
  BY <1>1, <1>4
<1>6. \A x \in ToSet(c) : g(x) \in Nat
  <2> SUFFICES ASSUME NEW x \in ToSet(c) PROVE g(x) \in Nat
    OBVIOUS
  <2>1. x \in Started
    BY DEF ToSet
  <2>2. x.span \in Spans
    BY <2>1 DEF Started, Finding
  <2> QED BY <2>2 DEF Spans
<1>7. \A x, y \in ToSet(c) : Ahead(c, x, y) <=> (f(x) < f(y) \/ (f(x) = f(y) /\ g(x) > g(y)))
  BY <1>2, <1>3 DEF Ahead
<1> HIDE DEF f, g
<1>8. /\ Ahead(c, a, b) <=> (f(a) < f(b) \/ (f(a) = f(b) /\ g(a) > g(b)))
      /\ Ahead(c, b, a) <=> (f(b) < f(a) \/ (f(b) = f(a) /\ g(b) > g(a)))
      /\ Ahead(c, b, d) <=> (f(b) < f(d) \/ (f(b) = f(d) /\ g(b) > g(d)))
      /\ Ahead(c, a, d) <=> (f(a) < f(d) \/ (f(a) = f(d) /\ g(a) > g(d)))
  BY <1>7
<1>9. /\ f(a) \in Nat /\ f(b) \in Nat /\ f(d) \in Nat
      /\ g(a) \in Nat /\ g(b) \in Nat /\ g(d) \in Nat
  BY <1>5, <1>6
<1> QED BY <1>8, <1>9

InOrder(c, s) == \A i, j \in DOMAIN s : i < j => ~Ahead(c, s[j], s[i])

LEMMA SpansInOrder ==
    ASSUME NEW c \in Seq(Started)
    PROVE  SpanOrder(c) \in Seq(ToSet(c)) /\ InOrder(c, SpanOrder(c))
<1> DEFINE N == Len(c)
           S == ToSet(c)
           T == {s \in Seq(S) : InOrder(c, s)}
<1>1. N \in Nat /\ DOMAIN c = 1..N /\ \A n \in 1..N : c[n] \in S
  BY DEF ToSet
<1>2. SpanOrder(c) = SpanSorting!Fold(c, c)
  BY DEF SpanOrder, Sorted, SpanSorting!Fold, SpanSorting!FoldOn, FoldLeft, MapThenFoldSet, Max,
         SpanSorting!Top, SpanStep
<1>3. /\ \A a, b \in S : Ahead(c, a, b) => ~Ahead(c, b, a)
      /\ \A a, b, d \in S : ~Ahead(c, a, b) /\ ~Ahead(c, b, d) => ~Ahead(c, a, d)
  BY AheadOrder
<1> HIDE DEF S
<1>4. ASSUME NEW s \in T, NEW e \in S PROVE SpanStep(c, s, e) \in T
  <2> DEFINE P == {n \in DOMAIN s : ~Ahead(c, e, s[n])}
             k == Cardinality(P)
             t == InsertAt(s, k + 1, e)
             L == Len(s)
  <2>1. s \in Seq(S) /\ DOMAIN s = 1..L /\ L \in Nat /\ InOrder(c, s) /\ \A n \in 1..L : s[n] \in S
    OBVIOUS
  <2>2. SpanStep(c, s, e) = t
    BY DEF SpanStep, Ahead
  <2>3. ASSUME NEW n \in P, NEW m \in 1..(n - 1) PROVE m \in P
    <3>1. m \in 1..L /\ n \in 1..L /\ m < n
      BY <2>1
    <3>2. ~Ahead(c, e, s[n]) /\ ~Ahead(c, s[n], s[m])
      BY <2>1, <3>1 DEF InOrder
    <3>3. ~Ahead(c, e, s[m])
      BY <1>3, <2>1, <3>1, <3>2
    <3> QED BY <2>1, <3>1, <3>3
  <2>4. k \in 0..L /\ P = 1..k
    <3>1. P \in SUBSET (1..L)
      BY <2>1
    <3> HIDE DEF P, L
    <3> QED BY <2>1, <2>3, <3>1, StartOf
  <2>5. \A n \in 1..k : ~Ahead(c, e, s[n])
    BY <2>4
  <2>6. \A n \in 1..L : n > k => ~Ahead(c, s[n], e)
    <3> SUFFICES ASSUME NEW n \in 1..L, n > k PROVE ~Ahead(c, s[n], e)
      OBVIOUS
    <3>1. n \notin P
      <4> HIDE DEF P
      <4> QED BY <2>4
    <3>2. Ahead(c, e, s[n])
      BY <2>1, <3>1
    <3> QED BY <1>3, <2>1, <3>2
  <2> HIDE DEF P, k, t, L
  <2>7. /\ t \in Seq(S) /\ Len(t) = L + 1
        /\ \A n \in 1..(L + 1) : t[n] = IF n < k + 1 THEN s[n] ELSE IF n = k + 1 THEN e ELSE s[n - 1]
    <3> DEFINE i == k + 1
    <3>1. i \in 1..(Len(s) + 1)
      BY <2>1, <2>4 DEF L
    <3> HIDE DEF i
    <3>2. /\ InsertAt(s, i, e) \in Seq(S) /\ Len(InsertAt(s, i, e)) = Len(s) + 1
          /\ \A n \in 1..(Len(s) + 1) :
                InsertAt(s, i, e)[n] = IF n < i THEN s[n] ELSE IF n = i THEN e ELSE s[n - 1]
      BY <2>1, <3>1, InsertedAt
    <3> QED BY <3>2 DEF t, L, i
  <2>8. InOrder(c, t)
    <3> SUFFICES ASSUME NEW i \in 1..(L + 1), NEW j \in 1..(L + 1), i < j PROVE ~Ahead(c, t[j], t[i])
      BY <2>1, <2>7 DEF InOrder
    <3>1. CASE j < k + 1
      <4>1. t[j] = s[j] /\ t[i] = s[i] /\ i \in 1..L /\ j \in 1..L
        BY <2>1, <2>4, <2>7, <3>1
      <4> QED BY <2>1, <4>1 DEF InOrder
    <3>2. CASE j = k + 1
      <4>1. t[j] = e /\ t[i] = s[i] /\ i \in 1..k
        BY <2>1, <2>4, <2>7, <3>2
      <4> QED BY <2>5, <4>1
    <3>3. CASE j > k + 1
      <4>1. t[j] = s[j - 1] /\ j - 1 \in 1..L /\ j - 1 > k
        BY <2>1, <2>4, <2>7, <3>3
      <4>2. CASE i = k + 1
        <5>1. t[i] = e
          BY <2>7, <4>2
        <5> QED BY <2>6, <4>1, <5>1
      <4>3. CASE i < k + 1
        <5>1. t[i] = s[i] /\ i \in 1..L /\ i < j - 1
          BY <2>1, <2>4, <2>7, <3>3, <4>3
        <5> QED BY <2>1, <4>1, <5>1 DEF InOrder
      <4>4. CASE i > k + 1
        <5>1. t[i] = s[i - 1] /\ i - 1 \in 1..L /\ i - 1 < j - 1
          BY <2>1, <2>4, <2>7, <4>4
        <5> QED BY <2>1, <4>1, <5>1 DEF InOrder
      <4> QED BY <2>4, <4>2, <4>3, <4>4
    <3> QED BY <2>4, <3>1, <3>2, <3>3
  <2> QED BY <2>2, <2>7, <2>8
<1>5. <<>> \in T
  BY DEF InOrder
<1> HIDE DEF N, T
<1>6. SpanSorting!Fold(c, c) \in T
  <2>1. \A n \in 1..N : \A x \in T : SpanStep(c, x, c[n]) \in T
    BY <1>1, <1>4
  <2> QED BY <1>1, <1>5, <2>1, SpanSorting!Stays
<1> QED BY <1>2, <1>6 DEF T, S

(* What a list is put together from holds all that it holds.                 *)
LEMMA FlattenFrom ==
    ASSUME NEW S, NEW ss \in Seq(Seq(S)), NEW F, \A i \in DOMAIN ss : ToSet(ss[i]) \subseteq F
    PROVE  ToSet(FlattenSeq(ss)) \subseteq F
<1>1. DOMAIN ss = 1..Len(ss) /\ Len(ss) \in Nat /\ \A i \in 1..Len(ss) : ss[i] \in Seq(S)
  OBVIOUS
<1>2. ASSUME NEW i \in 1..Len(ss) PROVE ss[i] \in Seq(F)
  <2> DEFINE s == ss[i]
  <2>1. s \in Seq(S) /\ ToSet(s) \subseteq F
    BY <1>1
  <2> HIDE DEF s
  <2>2. Len(s) \in Nat /\ DOMAIN s = 1..Len(s) /\ \A n \in 1..Len(s) : s[n] \in F
    BY <2>1 DEF ToSet
  <2>3. s \in Seq(F)
    BY <2>1, <2>2
  <2> QED BY <2>3 DEF s
<1>3. ss \in Seq(Seq(F))
  BY <1>1, <1>2
<1>4. FlattenSeq(ss) \in Seq(F)
  BY <1>3, FlattenType
<1> QED BY <1>4 DEF ToSet

(* Of the matches that are reported of a text no two overlap.                *)
LEMMA ScanApart ==
    ASSUME NEW S, NEW text \in Seq(S), NEW least,
           NEW m \in ToSet(ScanText(text, least)), NEW n \in ToSet(ScanText(text, least))
    PROVE  m \in Matches(text, least) /\ (m = n \/ m.end <= n.start \/ n.end <= m.start)
<1> DEFINE found == Matches(text, least)
           L == Len(text)
<1>1. PICK kept, list :
               /\ KeptOf(found, kept)
               /\ list \in Seq(Seq(found)) /\ DOMAIN list = 1..L
               /\ \A i \in 1..L :
                     IF StartsAt(found, kept, i) = {} THEN list[i] = <<>>
                     ELSE \E x \in StartsAt(found, kept, i) : list[i] = <<x>>
               /\ ScanText(text, least) = FlattenSeq(list)
  BY ScanKept
<1> DEFINE F == {x \in found : kept[x] /\ x.start \in 1..L /\ list[x.start] = <<x>>}
<1>2. ASSUME NEW i \in DOMAIN list PROVE ToSet(list[i]) \subseteq F
  <2>1. CASE StartsAt(found, kept, i) = {}
    <3>1. list[i] = <<>>
      BY <1>1, <2>1
    <3> QED BY <3>1 DEF ToSet
  <2>2. CASE StartsAt(found, kept, i) # {}
    <3>1. PICK x \in StartsAt(found, kept, i) : list[i] = <<x>>
      BY <1>1, <2>2
    <3>2. ToSet(list[i]) = {x}
      BY <3>1 DEF ToSet
    <3>3. x \in found /\ kept[x] /\ x.start = i
      BY <3>1 DEF StartsAt
    <3> QED BY <1>1, <3>1, <3>2, <3>3
  <2> QED BY <2>1, <2>2
<1>3. ToSet(FlattenSeq(list)) \subseteq F
  <2>1. list \in Seq(Seq(found))
    BY <1>1
  <2> HIDE DEF F, found
  <2> QED BY <1>2, <2>1, FlattenFrom
<1>4. m \in F /\ n \in F
  BY <1>1, <1>3
<1>5. \A x \in found : x.confidence \in 0..100 /\ x.start \in 1..L /\ x.end = x.start + ValueLen
  BY MatchFields
<1>6. L \in Nat /\ ValueLen \in Nat
  BY RulesAssumption
<1>7. m \in found /\ n \in found /\ kept[m] /\ kept[n]
  BY <1>4
<1> HIDE DEF found, L
<1>8. m.start = n.start => m = n
  BY <1>4
<1>9. ~(Stronger(n, m) /\ Overlap(n, m)) /\ ~(Stronger(m, n) /\ Overlap(m, n))
  BY <1>1, <1>7 DEF KeptOf
<1>10. /\ m.confidence \in Int /\ n.confidence \in Int /\ m.start \in Int /\ n.start \in Int
       /\ m.end \in Int /\ n.end \in Int
       /\ m.end = m.start + ValueLen /\ n.end = n.start + ValueLen
  <2>1. /\ m.confidence \in 0..100 /\ m.start \in 1..L /\ m.end = m.start + ValueLen
        /\ n.confidence \in 0..100 /\ n.start \in 1..L /\ n.end = n.start + ValueLen
    BY <1>5, <1>7
  <2>2. (\A x \in 1..L : x \in Int) /\ \A x \in 0..100 : x \in Int
    BY <1>6
  <2>3. m.start \in Int /\ n.start \in Int /\ m.confidence \in Int /\ n.confidence \in Int
    BY <2>1, <2>2
  <2> QED BY <1>6, <2>1, <2>3
<1>11. m.start # n.start => Stronger(n, m) \/ Stronger(m, n)
  BY <1>6, <1>10 DEF Stronger
<1>12. m.start # n.start => m.end <= n.start \/ n.end <= m.start
  BY <1>9, <1>10, <1>11 DEF Overlap
<1> QED BY <1>7, <1>8, <1>12 DEF found

(* What is known of a finding in a text: its text is one of the three of its *)
(* element, and its span lies in it.                                         *)
Edits(p) ==
    {d \in Finding : /\ d.at \in DOMAIN p /\ d.attr \in {"value", "label", "text"} /\ d.kind # "ours"
                     /\ d.span \in Spans /\ d.span[1] < d.span[2]
                     /\ d.span[2] <= Len(TextAt(p, d.at, d.attr)) + 1}

LEMMA SlotTexts ==
    ASSUME NEW p \in Seq(Scanned), NEW i \in DOMAIN p, NEW attr
    PROVE  TextAt(p, i, attr) \in Texts
<1>1. p[i] \in Scanned
  OBVIOUS
<1>2. p[i].label \in Texts /\ p[i].value \in Texts /\ p[i].text \in Texts
  BY <1>1 DEF Scanned
<1> QED BY <1>2 DEF TextAt

LEMMA SpottedEdits ==
    ASSUME NEW p \in Seq(Scanned), NEW d \in FindingOf(p), d.span # NoSpan
    PROVE  d \in Edits(p)
<1> DEFINE text == TextAt(p, d.at, d.attr)
<1>1. Spotted(p, d) /\ d \in Finding
  BY DEF FindingOf
<1>2. d.at \in DOMAIN p /\ d.attr \in {"value", "label", "text"}
  BY <1>1 DEF Spotted
<1>3. text \in Seq(STRING \X Nat)
  BY <1>2, SlotTexts DEF Texts
<1>4. PICK m \in ToSet(ScanText(text, 0)) : d.kind = m.kind /\ d.span = <<m.start, m.end>>
  BY <1>1 DEF Spotted
<1>5. m \in Matches(text, 0)
  BY <1>3, <1>4, ScanApart
<1>6. /\ m.kind # "ours" /\ m.start \in 1..Len(text)
      /\ m.end = m.start + ValueLen /\ m.end <= Len(text) + 1
  BY <1>3, <1>5, MatchFields
<1>7. Len(text) \in Nat /\ ValueLen \in Nat /\ ValueLen > 0
  BY <1>3, RulesAssumption
<1> HIDE DEF text
<1>8. /\ <<m.start, m.end>> \in Nat \X Nat
      /\ <<m.start, m.end>>[1] = m.start /\ <<m.start, m.end>>[2] = m.end /\ m.start < m.end /\ m.start <= m.end /\ 1 <= m.start
  BY <1>6, <1>7
<1>9. d.span \in Spans /\ d.span[1] < d.span[2] /\ d.span[2] <= Len(text) + 1
  BY <1>4, <1>6, <1>8 DEF Spans
<1> QED BY <1>1, <1>2, <1>4, <1>6, <1>9 DEF Edits, text

(* No two findings with a span name one thing.                               *)
Apart(F) ==
    \A a, b \in F : a.span # NoSpan /\ b.span # NoSpan /\ a.id # b.id => ~SameTarget(a, b)

LEMMA MergedApart ==
    ASSUME NEW p \in Seq(Scanned), NEW all \in Seq(FindingOf(p))
    PROVE  MergeIndexed(all) \in Seq(FindingOf(p)) /\ Apart(ToSet(MergeIndexed(all)))
<1> DEFINE F == FindingOf(p)
           N == Len(all)
           NoTwo(s) == \A i, j \in DOMAIN s : i # j /\ s[i].span # NoSpan /\ s[j].span # NoSpan => ~SameTarget(s[i], s[j])
           T == {s \in Seq(F) : NoTwo(s)}
<1>1. F \subseteq Finding /\ \A d \in F : d.span # NoSpan => Spotted(p, d)
  BY DEF FindingOf
<1>2. DOMAIN p = 1..Len(p) /\ Len(p) \in Nat
  OBVIOUS
<1>3. \A d \in F : d.span # NoSpan => d.at # 0
  BY <1>1, <1>2 DEF Spotted
<1>4. N \in Nat /\ DOMAIN all = 1..N /\ \A n \in 1..N : all[n] \in F
  OBVIOUS
<1>5. MergeIndexed(all) = Pairing!Fold(0, all)
  <2>1. all \in Seq(Finding)
    BY <1>1
  <2>2. MergeIndexed(all) = MergePairs(all)
    BY <2>1, IndexesAgree
  <2> QED BY <2>2 DEF MergePairs, Pairing!Fold, Pairing!FoldOn, FoldLeft, MapThenFoldSet, Max, Pairing!Top
<1>6. ASSUME NEW a \in F, NEW b \in F
      PROVE  /\ Joined(a, b) \in F
             /\ Joined(a, b).span = a.span /\ Joined(a, b).kind = a.kind /\ Joined(a, b).attr = a.attr
             /\ a.span # NoSpan => Joined(a, b).at = a.at
  <2> DEFINE j == Joined(a, b)
  <2>1. a \in Finding /\ b \in Finding
    BY <1>1
  <2>2. /\ j \in Finding /\ j.kind = a.kind /\ j.attr = a.attr
        /\ j.at = IF a.at = 0 THEN b.at ELSE a.at
    BY <2>1, JoinedType
  <2>3. j.span = a.span
    BY <2>1 DEF Joined, Finding
  <2> HIDE DEF j
  <2>4. a.span # NoSpan => j.at = a.at
    BY <1>3, <2>2
  <2>5. j.span # NoSpan => Spotted(p, j)
    BY <1>1, <2>2, <2>3, <2>4 DEF Spotted
  <2>6. j \in F
    BY <2>2, <2>5 DEF FindingOf
  <2> QED BY <2>2, <2>3, <2>4, <2>6 DEF j
<1> HIDE DEF F, N
<1>7. ASSUME NEW x \in T, NEW d \in F PROVE MergePair(x, d) \in T
  <2> DEFINE same == {k \in DOMAIN x : SameTarget(x[k], d) \/ Overlapping(x[k], d)}
             k == CHOOSE i \in same : \A j \in same : i <= j
  <2>1. x \in Seq(F) /\ NoTwo(x) /\ DOMAIN x = 1..Len(x) /\ Len(x) \in Nat /\ \A i \in DOMAIN x : x[i] \in F
    OBVIOUS
  <2>2. MergePair(x, d) = IF same = {} THEN Append(x, d) ELSE [x EXCEPT ![k] = Joined(x[k], d)]
    BY DEF MergePair
  <2>3. ASSUME same = {} PROVE Append(x, d) \in T
    <3> DEFINE y == Append(x, d)
               n == Len(x) + 1
    <3>1. y \in Seq(F) /\ DOMAIN y = DOMAIN x \cup {n} /\ y[n] = d /\ \A i \in DOMAIN x : y[i] = x[i]
      BY <2>1
    <3> HIDE DEF y, n
    <3>2. \A i \in DOMAIN x : ~SameTarget(x[i], d)
      BY <2>3
    <3>3. \A i \in DOMAIN x : ~SameTarget(d, x[i])
      BY <3>2 DEF SameTarget
    <3>4. ASSUME NEW i \in DOMAIN y, NEW j \in DOMAIN y, i # j, y[i].span # NoSpan, y[j].span # NoSpan
          PROVE  ~SameTarget(y[i], y[j])
      <4>1. CASE i \in DOMAIN x /\ j \in DOMAIN x
        BY <2>1, <3>1, <3>4, <4>1
      <4>2. CASE i = n /\ j \in DOMAIN x
        BY <3>1, <3>3, <4>2
      <4>3. CASE j = n /\ i \in DOMAIN x
        BY <3>1, <3>2, <4>3
      <4> QED BY <3>1, <3>4, <4>1, <4>2, <4>3
    <3> QED BY <3>1, <3>4 DEF y
  <2>4. ASSUME same # {} PROVE [x EXCEPT ![k] = Joined(x[k], d)] \in T
    <3>1. same \subseteq DOMAIN x /\ DOMAIN x \subseteq Nat
      BY <2>1
    <3> HIDE DEF same
    <3>2. \E i \in same : \A j \in same : i <= j
      BY <2>4, <3>1, Keeping!LeastIn
    <3>3. k \in DOMAIN x
      BY <3>1, <3>2
    <3> HIDE DEF k
    <3> DEFINE e == Joined(x[k], d)
               y == [x EXCEPT ![k] = e]
    <3>4. x[k] \in F
      BY <2>1, <3>3
    <3>5. /\ e \in F /\ e.span = x[k].span /\ e.kind = x[k].kind /\ e.attr = x[k].attr
          /\ x[k].span # NoSpan => e.at = x[k].at
      BY <1>6, <3>4
    <3> HIDE DEF e
    <3>6. y \in Seq(F) /\ DOMAIN y = DOMAIN x /\ y[k] = e /\ \A i \in DOMAIN x \ {k} : y[i] = x[i]
      BY <2>1, <3>3, <3>5
    <3> HIDE DEF y
    <3>7. \A i \in DOMAIN x : /\ y[i].span = x[i].span /\ y[i].kind = x[i].kind /\ y[i].attr = x[i].attr
                              /\ x[i].span # NoSpan => y[i].at = x[i].at
      BY <3>5, <3>6
    <3>8. ASSUME NEW i \in DOMAIN y, NEW j \in DOMAIN y, i # j, y[i].span # NoSpan, y[j].span # NoSpan
          PROVE  ~SameTarget(y[i], y[j])
      <4>1. ~SameTarget(x[i], x[j])
        BY <2>1, <3>6, <3>7, <3>8
      <4> QED BY <3>6, <3>7, <3>8, <4>1 DEF SameTarget
    <3> QED BY <3>6, <3>8 DEF y, e
  <2> HIDE DEF T, same, k
  <2> QED BY <2>2, <2>3, <2>4
<1>8. <<>> \in T
  OBVIOUS
<1> HIDE DEF T
<1>9. \A n \in 1..N : \A x \in T : MergePair(x, all[n]) \in T
  BY <1>4, <1>7
<1>10. Pairing!Fold(0, all) \in T
  BY <1>4, <1>8, <1>9, Pairing!Stays
<1> DEFINE s == MergeIndexed(all)
<1>11. s \in Seq(F) /\ NoTwo(s)
  BY <1>5, <1>10 DEF T
<1> HIDE DEF s
<1>12. Apart(ToSet(s))
  BY <1>11 DEF Apart, ToSet
<1> QED BY <1>11, <1>12 DEF s, F

(* Two findings of a merged list in one text have nothing of it in common.   *)
LEMMA SpansApart ==
    ASSUME NEW p \in Seq(Scanned), NEW F \in SUBSET FindingOf(p), Apart(F),
           NEW a \in F, NEW b \in F, a.span # NoSpan, b.span # NoSpan, a.id # b.id, Slot(a) = Slot(b)
    PROVE  a.span[2] <= b.span[1] \/ b.span[2] <= a.span[1]
<1> DEFINE text == TextAt(p, a.at, a.attr)
<1>1. Spotted(p, a) /\ Spotted(p, b) /\ a.at = b.at /\ a.attr = b.attr
  BY DEF FindingOf, Slot
<1>2. text \in Seq(STRING \X Nat)
  BY <1>1, SlotTexts DEF Texts, Spotted
<1>3. PICK m \in ToSet(ScanText(text, 0)) : a.kind = m.kind /\ a.span = <<m.start, m.end>>
  BY <1>1 DEF Spotted
<1>4. PICK n \in ToSet(ScanText(text, 0)) : b.kind = n.kind /\ b.span = <<n.start, n.end>>
  BY <1>1 DEF Spotted
<1>5. m = n \/ m.end <= n.start \/ n.end <= m.start
  BY <1>2, ScanApart
<1>6. a.at # 0
  <2>1. a.at \in 1..Len(p) /\ Len(p) \in Nat
    BY <1>1 DEF Spotted
  <2> QED BY <2>1
<1>7. m # n
  BY <1>1, <1>3, <1>4, <1>6 DEF Apart, SameTarget
<1> QED BY <1>3, <1>4, <1>5, <1>7

-----------------------------------------------------------------------------
(* An edit leaves what is in front of it.  Between two edits of a text it is *)
(* the start a of the text as it was, and then well placed placeholders and  *)
(* what is left around them of the rest of the text as it was.               *)

Clean(text) == \A n \in DOMAIN text : text[n][1] # "ours"

Split(had, now, lost, a) ==
    /\ \A q \in lost : q \in Nat /\ q > Len(a)
    /\ \E z, t \in Seq(Tokens) :
           /\ had = a \o z /\ now = a \o t /\ Wellplaced(t)
           /\ Bare(t) = Kept(z, {m \in 1..Len(z) : m + Len(a) \notin lost})

LEMMA JoinAt ==
    ASSUME NEW a \in Seq(Tokens), NEW b \in Seq(Tokens)
    PROVE  /\ a \o b \in Seq(Tokens) /\ Len(a \o b) = Len(a) + Len(b)
           /\ \A k \in 1..(Len(a) + Len(b)) : (a \o b)[k] = IF k <= Len(a) THEN a[k] ELSE b[k - Len(a)]
OBVIOUS

LEMMA PartAt ==
    ASSUME NEW a \in Seq(Tokens), NEW i \in 1..(Len(a) + 1), NEW j \in (i - 1)..Len(a)
    PROVE  /\ SubSeq(a, i, j) \in Seq(Tokens) /\ Len(SubSeq(a, i, j)) = j - i + 1
           /\ \A k \in 1..(j - i + 1) : SubSeq(a, i, j)[k] = a[k + i - 1]
<1>1. Len(a) \in Nat /\ i \in Int /\ j \in Int /\ 1 <= i /\ i <= Len(a) + 1 /\ i - 1 <= j /\ j <= Len(a)
  OBVIOUS
<1> DEFINE x == SubSeq(a, i, j)
           N == j - i + 1
           f(k) == a[k + i - 1]
<1>2. x = [k \in 1..N |-> f(k)]
  BY <1>1
<1>3. \A k \in 1..N : f(k) \in Tokens
  BY <1>1
<1>4. N \in Nat
  BY <1>1
<1> HIDE DEF x, N, f
<1>5. x \in Seq(Tokens) /\ Len(x) = N /\ \A k \in 1..N : x[k] = f(k)
  BY <1>2, <1>3, <1>4
<1> QED BY <1>5 DEF x, N, f

LEMMA PartsOf ==
    ASSUME NEW a \in Seq(Tokens), NEW s \in 1..(Len(a) + 1), NEW e \in s..(Len(a) + 1), NEW t \in Seq(Tokens)
    PROVE  \E b, v, c \in Seq(Tokens) :
               /\ Len(b) = s - 1 /\ Len(v) = e - s /\ a = b \o (v \o c)
               /\ SubSeq(a \o t, 1, s - 1) = b
               /\ SubSeq(a \o t, e, Len(a \o t)) = c \o t
<1> DEFINE L == Len(a)
           T == Len(t)
           b == SubSeq(a, 1, s - 1)
           v == SubSeq(a, s, e - 1)
           c == SubSeq(a, e, L)
           w == v \o c
           u == a \o t
<1>1. L \in Nat /\ T \in Nat /\ s \in Nat /\ e \in Nat /\ 1 <= s /\ s <= e /\ e <= L + 1
  OBVIOUS
<1>2. b \in Seq(Tokens) /\ Len(b) = s - 1 /\ \A k \in 1..(s - 1) : b[k] = a[k]
  <2>1. 1 \in 1..(L + 1) /\ s - 1 \in (1 - 1)..L
    BY <1>1
  <2> HIDE DEF L
  <2>2. /\ b \in Seq(Tokens) /\ Len(b) = (s - 1) - 1 + 1 /\ \A k \in 1..((s - 1) - 1 + 1) : b[k] = a[k + 1 - 1]
    BY <2>1, PartAt DEF L
  <2> HIDE DEF b
  <2>3. (s - 1) - 1 + 1 = s - 1 /\ \A k \in 1..(s - 1) : k + 1 - 1 = k
    BY <1>1
  <2> QED BY <2>2, <2>3
<1>3. v \in Seq(Tokens) /\ Len(v) = e - s /\ \A k \in 1..(e - s) : v[k] = a[k + s - 1]
  <2>1. s \in 1..(L + 1) /\ e - 1 \in (s - 1)..L
    BY <1>1
  <2> HIDE DEF L
  <2>2. /\ v \in Seq(Tokens) /\ Len(v) = (e - 1) - s + 1 /\ \A k \in 1..((e - 1) - s + 1) : v[k] = a[k + s - 1]
    BY <2>1, PartAt DEF L
  <2> HIDE DEF v
  <2>3. (e - 1) - s + 1 = e - s
    BY <1>1
  <2> QED BY <2>2, <2>3
<1>4. c \in Seq(Tokens) /\ Len(c) = L - e + 1 /\ \A k \in 1..(L - e + 1) : c[k] = a[k + e - 1]
  <2>1. e \in 1..(L + 1) /\ L \in (e - 1)..L
    BY <1>1
  <2> HIDE DEF L
  <2> QED BY <2>1, PartAt DEF L
<1> HIDE DEF b, v, c
<1>5. /\ w \in Seq(Tokens) /\ Len(w) = L - s + 1
      /\ \A k \in 1..(L - s + 1) : w[k] = IF k <= e - s THEN v[k] ELSE c[k - (e - s)]
  <2>1. /\ w \in Seq(Tokens) /\ Len(w) = Len(v) + Len(c)
        /\ \A k \in 1..(Len(v) + Len(c)) : w[k] = IF k <= Len(v) THEN v[k] ELSE c[k - Len(v)]
    BY <1>3, <1>4, JoinAt
  <2> HIDE DEF w, L
  <2>2. Len(v) + Len(c) = L - s + 1 /\ Len(v) = e - s
    BY <1>1, <1>3, <1>4
  <2> QED BY <2>1, <2>2
<1>6. /\ u \in Seq(Tokens) /\ Len(u) = L + T
      /\ \A k \in 1..(L + T) : u[k] = IF k <= L THEN a[k] ELSE t[k - L]
  BY JoinAt
<1> HIDE DEF u, w, L, T
<1>7. ASSUME NEW k \in 1..(L - s + 1) PROVE w[k] = a[k + s - 1]
  <2>1. CASE k <= e - s
    <3>1. k \in 1..(e - s)
      BY <1>1, <2>1
    <3> QED BY <1>3, <1>5, <2>1, <3>1
  <2>2. CASE k > e - s
    <3>1. k - (e - s) \in 1..(L - e + 1) /\ (k - (e - s)) + e - 1 = k + s - 1 /\ ~(k <= e - s)
      BY <1>1, <2>2
    <3> QED BY <1>4, <1>5, <3>1
  <2> QED BY <1>1, <2>1, <2>2
<1>8. a = b \o w
  <2> DEFINE x == b \o w
  <2>1. /\ x \in Seq(Tokens) /\ Len(x) = Len(b) + Len(w)
        /\ \A k \in 1..(Len(b) + Len(w)) : x[k] = IF k <= Len(b) THEN b[k] ELSE w[k - Len(b)]
    BY <1>2, <1>5, JoinAt
  <2> HIDE DEF x
  <2>2. Len(b) + Len(w) = L /\ Len(b) = s - 1
    BY <1>1, <1>2, <1>5
  <2>3. ASSUME NEW k \in 1..L PROVE x[k] = a[k]
    <3>1. x[k] = IF k <= s - 1 THEN b[k] ELSE w[k - (s - 1)]
      BY <2>1, <2>2
    <3>2. CASE k <= s - 1
      <4>1. k \in 1..(s - 1)
        BY <1>1, <3>2
      <4> QED BY <1>2, <3>1, <3>2, <4>1
    <3>3. CASE k > s - 1
      <4>1. k - (s - 1) \in 1..(L - s + 1) /\ (k - (s - 1)) + s - 1 = k /\ ~(k <= s - 1)
        BY <1>1, <3>3
      <4>2. w[k - (s - 1)] = a[(k - (s - 1)) + s - 1]
        BY <1>7, <4>1
      <4> QED BY <3>1, <4>1, <4>2
    <3> QED BY <1>1, <3>2, <3>3
  <2>4. Len(x) = Len(a)
    BY <2>1, <2>2 DEF L
  <2>5. a = x
    BY <2>1, <2>3, <2>4, SeqEqual DEF L
  <2> QED BY <2>5 DEF x
<1>9. SubSeq(u, 1, s - 1) = b
  <2> DEFINE x == SubSeq(u, 1, s - 1)
  <2>1. 1 \in 1..(Len(u) + 1) /\ s - 1 \in (1 - 1)..Len(u)
    BY <1>1, <1>6
  <2>2. x \in Seq(Tokens) /\ Len(x) = (s - 1) - 1 + 1 /\ \A k \in 1..((s - 1) - 1 + 1) : x[k] = u[k + 1 - 1]
    BY <1>6, <2>1, PartAt
  <2> HIDE DEF x
  <2>3. (s - 1) - 1 + 1 = s - 1 /\ \A k \in 1..(s - 1) : k + 1 - 1 = k /\ k \in 1..(L + T) /\ k <= L
    BY <1>1
  <2>4. \A k \in 1..(s - 1) : x[k] = b[k]
    BY <1>2, <1>6, <2>2, <2>3
  <2>5. Len(x) = Len(b) /\ Len(x) = s - 1
    BY <1>2, <2>2, <2>3
  <2>6. x = b
    BY <1>2, <2>2, <2>4, <2>5, SeqEqual
  <2> QED BY <2>6 DEF x
<1>10. SubSeq(u, e, Len(u)) = c \o t
  <2> DEFINE x == SubSeq(u, e, Len(u))
             y == c \o t
             M == Len(u) - e + 1
  <2>1. e \in 1..(Len(u) + 1) /\ Len(u) \in (e - 1)..Len(u)
    BY <1>1, <1>6
  <2>2. x \in Seq(Tokens) /\ Len(x) = M /\ \A k \in 1..M : x[k] = u[k + e - 1]
    BY <1>6, <2>1, PartAt
  <2>3. /\ y \in Seq(Tokens) /\ Len(y) = Len(c) + T
        /\ \A k \in 1..(Len(c) + T) : y[k] = IF k <= Len(c) THEN c[k] ELSE t[k - Len(c)]
    BY <1>4, JoinAt DEF T
  <2> HIDE DEF x, y
  <2>4. M = L + T - e + 1 /\ Len(c) + T = L + T - e + 1 /\ Len(c) = L - e + 1
    BY <1>1, <1>4, <1>6
  <2> HIDE DEF M
  <2>5. ASSUME NEW k \in 1..M PROVE x[k] = y[k]
    <3>1. k \in 1..(L + T - e + 1) /\ k + e - 1 \in 1..(L + T)
      BY <1>1, <2>4
    <3>2. x[k] = IF k + e - 1 <= L THEN a[k + e - 1] ELSE t[(k + e - 1) - L]
      BY <1>6, <2>2, <3>1
    <3>3. y[k] = IF k <= L - e + 1 THEN c[k] ELSE t[k - (L - e + 1)]
      BY <2>3, <2>4, <3>1
    <3>4. CASE k <= L - e + 1
      <4>1. k \in 1..(L - e + 1) /\ k + e - 1 <= L
        BY <1>1, <3>1, <3>4
      <4> QED BY <1>4, <3>2, <3>3, <3>4, <4>1
    <3>5. CASE k > L - e + 1
      <4>1. ~(k + e - 1 <= L) /\ (k + e - 1) - L = k - (L - e + 1) /\ ~(k <= L - e + 1)
        BY <1>1, <3>1, <3>5
      <4> QED BY <3>2, <3>3, <4>1
    <3> QED BY <1>1, <3>1, <3>4, <3>5
  <2>6. Len(x) = Len(y)
    BY <2>2, <2>3, <2>4
  <2>7. x = y
    <3>1. Len(x) = M
      BY <2>2
    <3> QED BY <2>2, <2>3, <2>5, <2>6, <3>1, SeqEqual
  <2> QED BY <2>7 DEF x, y
<1> QED BY <1>2, <1>3, <1>4, <1>8, <1>9, <1>10 DEF u, w

LEMMA SplitStart ==
    ASSUME NEW had \in Seq(Tokens)
    PROVE  Split(had, had, {}, had)
<1>1. <<>> \in Seq(Tokens) /\ had = had \o <<>>
  BY ConcatEmptySeq
<1>2. Wellplaced(<<>>)
  BY DEF Wellplaced
<1>3. Bare(<<>>) = <<>> /\ \A K : Kept(<<>>, K) = <<>>
  <2>1. \A K : Kept(<<>>, K) = <<>>
    <3> SUFFICES ASSUME NEW K PROVE Kept(<<>>, K) = <<>>
      OBVIOUS
    <3>1. \A n \in 1..Len(<<>>) : n \notin K
      OBVIOUS
    <3> QED BY <1>1, <3>1, KeptNone
  <2> QED BY <2>1 DEF Bare
<1> DEFINE z == <<>>
           K == {m \in 1..Len(z) : m + Len(had) \notin {}}
<1>4. Bare(z) = Kept(z, K)
  BY <1>3
<1>5. z \in Seq(Tokens) /\ had = had \o z /\ Wellplaced(z)
  BY <1>1, <1>2
<1> HIDE DEF z
<1> QED BY <1>4, <1>5 DEF Split

(* What is left of a text: without the tokens whose places behind the first m *)
(* tokens are lost.                                                          *)
Left(x, m, lost) == Kept(x, {k \in 1..Len(x) : k + m \notin lost})

LEMMA JoinThenJoin ==
    ASSUME NEW a \in Seq(Tokens), NEW b \in Seq(Tokens), NEW c \in Seq(Tokens)
    PROVE  (a \o b) \o c = a \o (b \o c)
BY ConcatAssociative

Unfolded(a, b, c, d) ==
    /\ (a \o b) \o (c \o d) = a \o (b \o (c \o d))
    /\ (a \o (b \o c)) \o d = a \o (b \o (c \o d))

LEMMA JoinOfFour ==
    ASSUME NEW a \in Seq(Tokens), NEW b \in Seq(Tokens), NEW c \in Seq(Tokens), NEW d \in Seq(Tokens)
    PROVE  Unfolded(a, b, c, d)
<1>1. b \o c \in Seq(Tokens) /\ c \o d \in Seq(Tokens)
  OBVIOUS
<1>2. (a \o b) \o (c \o d) = a \o (b \o (c \o d))
  BY <1>1, JoinThenJoin, ZenonT(60)
<1>3. (a \o (b \o c)) \o d = a \o ((b \o c) \o d)
  BY <1>1, JoinThenJoin, ZenonT(60)
<1>4. (b \o c) \o d = b \o (c \o d)
  BY JoinThenJoin, ZenonT(60)
<1> QED BY <1>2, <1>3, <1>4, ZenonT(60) DEF Unfolded

LEMMA LeftOfJoin ==
    ASSUME NEW v \in Seq(Tokens), NEW w \in Seq(Tokens), NEW n \in Nat, NEW lost
    PROVE  /\ Left(v \o w, n, lost) = Left(v, n, lost) \o Left(w, n + Len(v), lost)
           /\ (\A k \in 1..Len(v) : k + n \in lost) => Left(v \o w, n, lost) = Left(w, n + Len(v), lost)
           /\ (\A k \in 1..Len(v) : k + n \notin lost) => Left(v \o w, n, lost) = v \o Left(w, n + Len(v), lost)
<1> DEFINE V == Len(v)
           W == Len(w)
           K == {k \in 1..Len(v \o w) : k + n \notin lost}
           J == {k \in 1..V : k + n \notin lost}
           I == {k \in 1..W : k + (n + V) \notin lost}
<1>1. V \in Nat /\ W \in Nat /\ Len(v \o w) = V + W
  BY JoinAt
<1>2. Kept(v \o w, K) = Kept(v, K) \o Kept(w, I)
  <2>1. \A k \in 1..W : k \in I <=> k + V \in K
    <3> SUFFICES ASSUME NEW k \in 1..W PROVE k \in I <=> k + V \in K
      OBVIOUS
    <3>1. k + V \in 1..(V + W) /\ (k + V) + n = k + (n + V)
      BY <1>1
    <3> QED BY <1>1, <3>1
  <2> HIDE DEF K, I
  <2> QED BY <2>1, KeptJoin DEF V, W
<1>3. Kept(v, K) = Kept(v, J)
  <2>1. \A k \in 1..V : k \in K <=> k \in J
    BY <1>1
  <2> HIDE DEF K, J
  <2> QED BY <2>1, KeptSame DEF V
<1>4. (\A k \in 1..V : k + n \in lost) => Kept(v, J) = <<>>
  <2> SUFFICES ASSUME \A k \in 1..V : k + n \in lost PROVE Kept(v, J) = <<>>
    OBVIOUS
  <2>1. \A k \in 1..V : k \notin J
    OBVIOUS
  <2> HIDE DEF J
  <2> QED BY <2>1, KeptNone DEF V
<1>5. (\A k \in 1..V : k + n \notin lost) => Kept(v, J) = v
  <2> SUFFICES ASSUME \A k \in 1..V : k + n \notin lost PROVE Kept(v, J) = v
    OBVIOUS
  <2>1. \A k \in 1..V : k \in J
    OBVIOUS
  <2> HIDE DEF J
  <2> QED BY <2>1, KeptAll DEF V
<1> DEFINE e == Kept(w, I)
<1>6. e \in Seq(Tokens)
  BY KeptType
<1>7. <<>> \o e = e
  <2> HIDE DEF e
  <2> QED BY <1>6, ConcatEmptySeq
<1> HIDE DEF K, J, I
<1>8. /\ Kept(v \o w, K) = Kept(v, J) \o e
      /\ (\A k \in 1..V : k + n \in lost) => Kept(v \o w, K) = e
      /\ (\A k \in 1..V : k + n \notin lost) => Kept(v \o w, K) = v \o e
  BY <1>2, <1>3, <1>4, <1>5, <1>7
<1> QED BY <1>8 DEF K, J, I, V, W, Left

Skipped(v, w, n, m, lost) == Left(v \o w, n, lost) = Left(w, m, lost)

Reached(v, w, n, m, lost) == Left(v \o w, n, lost) = v \o Left(w, m, lost)

LEMMA LeftOfLost ==
    ASSUME NEW v \in Seq(Tokens), NEW w \in Seq(Tokens), NEW n \in Nat, NEW lost,
           \A k \in 1..Len(v) : k + n \in lost, NEW m, m = n + Len(v)
    PROVE  Skipped(v, w, n, m, lost)
BY LeftOfJoin DEF Skipped

LEMMA LeftOfRest ==
    ASSUME NEW v \in Seq(Tokens), NEW w \in Seq(Tokens), NEW n \in Nat, NEW lost,
           \A k \in 1..Len(v) : k + n \notin lost, NEW m, m = n + Len(v)
    PROVE  Reached(v, w, n, m, lost)
BY LeftOfJoin DEF Reached

Parted(a, s, e, t, b, v, c) ==
    /\ Len(b) = s - 1 /\ Len(v) = e - s /\ a = b \o (v \o c)
    /\ SubSeq(a \o t, 1, s - 1) = b
    /\ SubSeq(a \o t, e, Len(a \o t)) = c \o t

LEMMA PartsAt ==
    ASSUME NEW a \in Seq(Tokens), NEW s \in 1..(Len(a) + 1), NEW e \in s..(Len(a) + 1), NEW t \in Seq(Tokens)
    PROVE  \E b, v, c \in Seq(Tokens) : Parted(a, s, e, t, b, v, c)
BY PartsOf DEF Parted

(* The text without its placeholders is what is left of it.                  *)
LEMMA SplitEnd ==
    ASSUME NEW had \in Seq(Tokens), Clean(had), NEW now, NEW lost, NEW a \in Seq(Tokens), Split(had, now, lost, a)
    PROVE  now \in Seq(Tokens) /\ Bare(now) = Kept(had, DOMAIN had \ lost)
<1>1. PICK z \in Seq(Tokens), t \in Seq(Tokens) :
           /\ had = a \o z /\ now = a \o t /\ Wellplaced(t)
           /\ Bare(t) = Kept(z, {m \in 1..Len(z) : m + Len(a) \notin lost})
  BY DEF Split
<1> DEFINE A == Len(a)
           L == {m \in 1..Len(had) : m + 0 \notin lost}
<1>2. A \in Nat /\ Len(had) = A + Len(z) /\ Len(z) \in Nat /\ \A k \in 1..A : had[k] = a[k]
  <2>1. /\ Len(had) = Len(a) + Len(z)
        /\ \A k \in 1..(Len(a) + Len(z)) : had[k] = IF k <= Len(a) THEN a[k] ELSE z[k - Len(a)]
    BY <1>1, JoinAt
  <2>2. A \in Nat /\ Len(z) \in Nat
    OBVIOUS
  <2> HIDE DEF A
  <2> QED BY <2>1, <2>2 DEF A
<1>3. \A n \in DOMAIN a : a[n][1] # "ours"
  <2>1. DOMAIN a = 1..A /\ DOMAIN had = 1..Len(had)
    OBVIOUS
  <2> HIDE DEF A
  <2> QED BY <1>2, <2>1 DEF Clean
<1>4. Bare(now) = a \o Bare(t)
  BY <1>1, <1>3, BareJoin
<1>5. \A k \in 1..A : k + 0 \notin lost
  BY <1>2 DEF Split
<1>6. Left(a \o z, 0, lost) = a \o Left(z, A, lost)
  <2>1. 0 \in Nat /\ A = 0 + Len(a)
    BY <1>2
  <2>2. \A k \in 1..Len(a) : k + 0 \notin lost
    BY <1>5
  <2> HIDE DEF A
  <2>3. Reached(a, z, 0, A, lost)
    BY <2>1, <2>2, LeftOfRest
  <2> QED BY <2>3 DEF Reached
<1>7. Kept(had, L) = a \o Bare(t)
  BY <1>1, <1>6 DEF Left
<1>8. Kept(had, L) = Kept(had, DOMAIN had \ lost)
  <2>1. \A m \in 1..Len(had) : m \in L <=> m \in DOMAIN had \ lost
    <3>1. DOMAIN had = 1..Len(had)
      OBVIOUS
    <3>2. \A m \in 1..Len(had) : m + 0 = m
      OBVIOUS
    <3> QED BY <3>1, <3>2
  <2> HIDE DEF L
  <2> QED BY <2>1, KeptSame
<1>9. now \in Seq(Tokens)
  BY <1>1
<1> QED BY <1>4, <1>7, <1>8, <1>9

(* An edit in front of the others takes the tokens of its span.              *)
LEMMA SplitStep ==
    ASSUME NEW had \in Seq(Tokens), Clean(had), NEW now, NEW lost, NEW a \in Seq(Tokens), Split(had, now, lost, a),
           NEW span \in Spans, span[2] <= Len(a) + 1, NEW kind \in Names, kind # "ours", NEW m \in Int
    PROVE  \E b \in Seq(Tokens) :
               /\ Len(b) = span[1] - 1
               /\ Split(had, Splice(now, span, Placeholder(kind, m)), lost \cup (span[1]..(span[2] - 1)), b)
<1> DEFINE s == span[1]
           e == span[2]
           P == Placeholder(kind, m)
           more == lost \cup (s..(e - 1))
           A == Len(a)
<1>1. PICK z \in Seq(Tokens), t \in Seq(Tokens) :
           /\ had = a \o z /\ now = a \o t /\ Wellplaced(t)
           /\ Bare(t) = Kept(z, {k \in 1..Len(z) : k + Len(a) \notin lost})
  BY DEF Split
<1>2. A \in Nat /\ s \in 1..(A + 1) /\ e \in s..(A + 1)
  <2>1. s \in Nat /\ e \in Nat /\ 1 <= s /\ s <= e
    BY DEF Spans
  <2>2. A \in Nat /\ e <= A + 1
    OBVIOUS
  <2> HIDE DEF s, e, A
  <2> QED BY <2>1, <2>2
<1>3. PICK b \in Seq(Tokens), v \in Seq(Tokens), c \in Seq(Tokens) :
               /\ Len(b) = s - 1 /\ Len(v) = e - s /\ a = b \o (v \o c)
               /\ SubSeq(a \o t, 1, s - 1) = b
               /\ SubSeq(a \o t, e, Len(a \o t)) = c \o t
  <2>1. s \in 1..(Len(a) + 1) /\ e \in s..(Len(a) + 1)
    BY <1>2
  <2> HIDE DEF s, e
  <2>2. \E b, v, c \in Seq(Tokens) : Parted(a, s, e, t, b, v, c)
    BY <1>1, <2>1, PartsAt
  <2> QED BY <2>2 DEF Parted
<1>4. \A q \in lost : q \in Nat /\ q > A
  BY DEF Split
<1>5. Splice(now, span, P) = (b \o P) \o (c \o t)
  BY <1>1, <1>3 DEF Splice
<1> HIDE DEF s, e, P, A
<1>0. s \in Int /\ e \in Int /\ A \in Int /\ 1 <= s /\ s <= e /\ e <= A + 1 /\ e - s \in Nat
  BY <1>2
<1>6. P \in Seq(Tokens)
  BY PlaceholderType DEF P
<1>7. b \in Seq(Tokens) /\ v \in Seq(Tokens) /\ c \in Seq(Tokens) /\ z \in Seq(Tokens) /\ t \in Seq(Tokens)
  BY <1>1, <1>3
<1> DEFINE ct == c \o t
           cz == c \o z
           y == v \o cz
           x == P \o ct
           vc == v \o c
<1>8. ct \in Seq(Tokens) /\ cz \in Seq(Tokens) /\ y \in Seq(Tokens) /\ x \in Seq(Tokens) /\ vc \in Seq(Tokens)
  BY <1>6, <1>7
<1>9. had = b \o y
  <2>1. Unfolded(b, v, c, z)
    BY <1>7, JoinOfFour
  <2> QED BY <1>1, <1>3, <2>1 DEF Unfolded
<1>10. Splice(now, span, P) = b \o x
  <2>1. Unfolded(b, P, c, t)
    BY <1>6, <1>7, JoinOfFour
  <2> QED BY <1>5, <2>1 DEF Unfolded
<1>11. /\ Len(a) = (s - 1) + ((e - s) + Len(c)) /\ Len(c) \in Nat /\ Len(c) = A - e + 1
  <2>1. Len(vc) = Len(v) + Len(c) /\ Len(b \o vc) = Len(b) + Len(vc)
    BY <1>7, <1>8, JoinAt
  <2>2. Len(c) \in Nat /\ Len(v) \in Nat /\ Len(b) \in Nat
    BY <1>7
  <2>3. Len(a) = Len(b) + (Len(v) + Len(c))
    BY <1>3, <2>1
  <2>4. A = (s - 1) + ((e - s) + Len(c))
    BY <1>3, <2>3 DEF A
  <2>5. Len(c) = A - e + 1
    BY <1>2, <2>2, <2>4
  <2> QED BY <2>2, <2>4, <2>5 DEF A
<1>a. Len(b) = s - 1 /\ Len(v) = e - s
  BY <1>3
(* No token of the part behind the span is the nonce.                        *)
<1>12. Clean(c)
  <2> SUFFICES ASSUME NEW n \in DOMAIN c PROVE c[n][1] # "ours"
    BY DEF Clean
  <2>2. n \in 1..Len(c)
    BY <1>7
  <2>3. vc[n + (e - s)] = c[n] /\ n + (e - s) \in 1..Len(vc) /\ Len(vc) = (e - s) + Len(c)
    <3>1. /\ Len(vc) = Len(v) + Len(c)
          /\ \A k \in 1..(Len(v) + Len(c)) : vc[k] = IF k <= Len(v) THEN v[k] ELSE c[k - Len(v)]
      BY <1>7, JoinAt
    <3> HIDE DEF vc
    <3> DEFINE V == Len(v)
               C == Len(c)
    <3>0. V = e - s /\ C \in Nat /\ n \in 1..C
      BY <1>a, <1>11, <2>2
    <3> HIDE DEF V, C
    <3>2. n + (e - s) \in 1..(V + C) /\ ~(n + (e - s) <= V) /\ (n + (e - s)) - V = n
      BY <1>0, <3>0
    <3> QED BY <1>a, <3>1, <3>2 DEF V, C
  <2>4. a[n + (e - 1)] = c[n] /\ n + (e - 1) \in 1..A
    <3>b. vc \in Seq(Tokens) /\ b \in Seq(Tokens)
      BY <1>7, <1>8
    <3>c. a = b \o vc
      BY <1>3
    <3> HIDE DEF vc
    <3>d. /\ Len(b \o vc) = Len(b) + Len(vc)
          /\ \A k \in 1..(Len(b) + Len(vc)) : (b \o vc)[k] = IF k <= Len(b) THEN b[k] ELSE vc[k - Len(b)]
      BY <3>b, JoinAt
    <3>1. /\ Len(a) = Len(b) + Len(vc)
          /\ \A k \in 1..(Len(b) + Len(vc)) : a[k] = IF k <= Len(b) THEN b[k] ELSE vc[k - Len(b)]
      BY <3>c, <3>d
    <3> DEFINE M == Len(vc)
    <3>0. M = (e - s) + Len(c) /\ n \in 1..Len(c)
      BY <2>2, <2>3
    <3> HIDE DEF M
    <3> DEFINE B == Len(b)
    <3>a. B = s - 1 /\ Len(c) \in Nat
      BY <1>a, <1>11
    <3> HIDE DEF B
    <3>2. /\ n + (e - 1) \in 1..(B + M) /\ ~(n + (e - 1) <= B)
          /\ (n + (e - 1)) - B = n + (e - s)
      BY <1>0, <3>a, <3>0, SMTT(60)
    <3> QED BY <2>3, <3>1, <3>2 DEF A, M, B
  <2>5. had[n + (e - 1)] = a[n + (e - 1)] /\ n + (e - 1) \in DOMAIN had
    <3>1. /\ Len(had) = A + Len(z) /\ Len(z) \in Nat
          /\ \A k \in 1..(A + Len(z)) : had[k] = IF k <= A THEN a[k] ELSE z[k - A]
      BY <1>1, <1>7, JoinAt DEF A
    <3>2. n + (e - 1) \in 1..(A + Len(z)) /\ n + (e - 1) <= A
      BY <1>2, <2>4, <3>1
    <3>3. DOMAIN had = 1..Len(had)
      OBVIOUS
    <3> QED BY <3>1, <3>2, <3>3
  <2> QED BY <2>4, <2>5 DEF Clean
<1>13. Wellplaced(ct) /\ Bare(ct) = c \o Bare(t)
  BY <1>1, <1>7, <1>12, BareJoin DEF Clean
<1>14. Wellplaced(x) /\ Bare(x) = Bare(ct)
  <2> HIDE DEF ct
  <2> QED BY <1>8, <1>13, BarePlaceholder DEF P
<1>15. Left(y, s - 1, more) = Left(cz, e - 1, more)
  <2>1. s - 1 \in Nat /\ e - 1 = (s - 1) + Len(v)
    BY <1>0, <1>a
  <2>2. \A k \in 1..Len(v) : k + (s - 1) \in more
    BY <1>2, <1>3
  <2> HIDE DEF cz, more
  <2>3. Skipped(v, cz, s - 1, e - 1, more)
    BY <1>7, <1>8, <2>1, <2>2, LeftOfLost
  <2> QED BY <2>3 DEF Skipped
<1>16. Left(cz, e - 1, more) = c \o Left(z, A, more)
  <2>1. e - 1 \in Nat /\ A = (e - 1) + Len(c)
    BY <1>0, <1>11
  <2>2. \A k \in 1..Len(c) : k + (e - 1) \notin more
    BY <1>2, <1>4, <1>11
  <2> HIDE DEF more
  <2>3. Reached(c, z, e - 1, A, more)
    BY <1>7, <2>1, <2>2, LeftOfRest
  <2> QED BY <2>3 DEF Reached
<1>17. Left(z, A, more) = Bare(t)
  <2> DEFINE K == {k \in 1..Len(z) : k + A \notin more}
             J == {k \in 1..Len(z) : k + A \notin lost}
  <2>1. Len(z) \in Nat
    BY <1>7
  <2>2. \A k \in 1..Len(z) : k \in K <=> k \in J
    BY <1>2, <2>1
  <2>3. Kept(z, K) = Kept(z, J)
    <3> HIDE DEF K, J
    <3> QED BY <1>7, <2>2, KeptSame
  <2> QED BY <1>1, <2>3 DEF A, Left
<1>18. Bare(x) = Left(y, Len(b), more)
  BY <1>3, <1>13, <1>14, <1>15, <1>16, <1>17
<1>19. \A q \in more : q \in Nat /\ q > Len(b)
  BY <1>2, <1>3, <1>4
<1> HIDE DEF more, x, y
<1>20. Split(had, Splice(now, span, P), more, b)
  BY <1>8, <1>9, <1>10, <1>14, <1>18, <1>19 DEF Split, Left
<1> QED BY <1>3, <1>7, <1>20 DEF more, P, s, e

-----------------------------------------------------------------------------
(* The edits, one after the other: what each leaves of the texts.            *)

Attrs == {"value", "label", "text"}

LEMMA SetSlotAt ==
    ASSUME NEW p, NEW doc \in Documents(p), NEW d, d.at \in DOMAIN p, d.attr \in Attrs,
           NEW text \in Seq(Tokens), NEW i \in DOMAIN p, NEW attr \in Attrs
    PROVE  /\ SetSlot(doc, d, text).gone = doc.gone
           /\ TextAt(SetSlot(doc, d, text).els, i, attr) =
                  IF i = d.at /\ attr = d.attr THEN text ELSE TextAt(doc.els, i, attr)
<1> DEFINE e == doc.els
           j == d.at
<1>1. e \in [DOMAIN p -> Shown] /\ j \in DOMAIN p /\ DOMAIN e = DOMAIN p
  BY DEF Documents, Els
<1>2. doc = [els |-> e, gone |-> doc.gone]
  BY DEF Documents
<1>3. \A f : /\ [doc EXCEPT !.els = f].els = f /\ [doc EXCEPT !.els = f].gone = doc.gone
  BY DEF Documents
<1>4. /\ [doc EXCEPT !.els[j].label = text] = [doc EXCEPT !.els = [e EXCEPT ![j] = [e[j] EXCEPT !.label = text]]]
      /\ [doc EXCEPT !.els[j].value = text] = [doc EXCEPT !.els = [e EXCEPT ![j] = [e[j] EXCEPT !.value = text]]]
      /\ [doc EXCEPT !.els[j].text = text] = [doc EXCEPT !.els = [e EXCEPT ![j] = [e[j] EXCEPT !.text = text]]]
  BY DEF Documents
<1>5. e[j] \in Shown
  BY <1>1
<1> HIDE DEF e, j
<1>6. /\ [e[j] EXCEPT !.label = text].label = text /\ [e[j] EXCEPT !.label = text].value = e[j].value
      /\ [e[j] EXCEPT !.label = text].text = e[j].text
      /\ [e[j] EXCEPT !.value = text].value = text /\ [e[j] EXCEPT !.value = text].label = e[j].label
      /\ [e[j] EXCEPT !.value = text].text = e[j].text
      /\ [e[j] EXCEPT !.text = text].text = text /\ [e[j] EXCEPT !.text = text].value = e[j].value
      /\ [e[j] EXCEPT !.text = text].label = e[j].label
  BY <1>5 DEF Shown
<1>7. \A el : [e EXCEPT ![j] = el][i] = IF i = j THEN el ELSE e[i]
  BY <1>1
<1>a. i = d.at <=> i = j
  BY DEF j
<1>8. CASE d.attr = "label"
  <2> DEFINE f == [e EXCEPT ![j] = [e[j] EXCEPT !.label = text]]
  <2>1. SetSlot(doc, d, text) = [doc EXCEPT !.els = f]
    BY <1>4, <1>8 DEF SetSlot, j
  <2>2. f[i] = IF i = j THEN [e[j] EXCEPT !.label = text] ELSE e[i]
    BY <1>7
  <2> HIDE DEF f
  <2>3. TextAt(f, i, attr) = IF i = j /\ attr = d.attr THEN text ELSE TextAt(e, i, attr)
    BY <1>6, <1>8, <2>2 DEF TextAt, Attrs
  <2> QED BY <1>3, <1>a, <2>1, <2>3 DEF e
<1>9. CASE d.attr = "value"
  <2> DEFINE f == [e EXCEPT ![j] = [e[j] EXCEPT !.value = text]]
  <2>1. SetSlot(doc, d, text) = [doc EXCEPT !.els = f]
    BY <1>4, <1>9 DEF SetSlot, j
  <2>2. f[i] = IF i = j THEN [e[j] EXCEPT !.value = text] ELSE e[i]
    BY <1>7
  <2> HIDE DEF f
  <2>3. TextAt(f, i, attr) = IF i = j /\ attr = d.attr THEN text ELSE TextAt(e, i, attr)
    BY <1>6, <1>9, <2>2 DEF TextAt, Attrs
  <2> QED BY <1>3, <1>a, <2>1, <2>3 DEF e
<1>10. CASE d.attr = "text"
  <2> DEFINE f == [e EXCEPT ![j] = [e[j] EXCEPT !.text = text]]
  <2>1. SetSlot(doc, d, text) = [doc EXCEPT !.els = f]
    BY <1>4, <1>10 DEF SetSlot, j
  <2>2. f[i] = IF i = j THEN [e[j] EXCEPT !.text = text] ELSE e[i]
    BY <1>7
  <2> HIDE DEF f
  <2>3. TextAt(f, i, attr) = IF i = j /\ attr = d.attr THEN text ELSE TextAt(e, i, attr)
    BY <1>6, <1>10, <2>2 DEF TextAt, Attrs
  <2> QED BY <1>3, <1>a, <2>1, <2>3 DEF e
<1> QED BY <1>8, <1>9, <1>10 DEF Attrs

(* The tokens of a text that the first n edits take.                         *)
Lost(s, n, i, attr) ==
    {q \in Nat : \E k \in 1..n : s[k].at = i /\ s[k].attr = attr /\ q \in s[k].span[1]..(s[k].span[2] - 1)}

(* The edits after the first n fit in the start a of their text.             *)
Awaits(s, n, i, attr, a) ==
    \A k \in DOMAIN s : k > n /\ s[k].at = i /\ s[k].attr = attr => s[k].span[2] <= Len(a) + 1

Edited(p, els, s, n, i, attr) ==
    \E a \in Seq(Tokens) : Split(TextAt(p, i, attr), TextAt(els, i, attr), Lost(s, n, i, attr), a)
                           /\ Awaits(s, n, i, attr, a)

(* In a text the edits go from its end backwards.                            *)
Backwards(s) ==
    \A m, n \in DOMAIN s : m < n /\ s[m].at = s[n].at /\ s[m].attr = s[n].attr => s[n].span[2] <= s[m].span[1]

LEMMA EditedStart ==
    ASSUME NEW p \in Seq(Scanned), NEW s \in Seq(Edits(p)), NEW i \in DOMAIN p, NEW attr \in Attrs
    PROVE  Edited(p, p, s, 0, i, attr)
<1> DEFINE had == TextAt(p, i, attr)
<1>1. had \in Seq(Tokens)
  BY SlotTexts, TextTokens
<1>2. Lost(s, 0, i, attr) = {}
  BY DEF Lost
<1>3. Split(had, had, {}, had)
  <2> HIDE DEF had
  <2> QED BY <1>1, SplitStart
<1>4. ASSUME NEW k \in DOMAIN s, s[k].at = i, s[k].attr = attr PROVE s[k].span[2] <= Len(had) + 1
  <2>1. s[k] \in Edits(p)
    OBVIOUS
  <2> QED BY <1>4, <2>1 DEF Edits
<1>5. Awaits(s, 0, i, attr, had)
  BY <1>4 DEF Awaits
<1> HIDE DEF had
<1> QED BY <1>1, <1>2, <1>3, <1>5 DEF Edited, had

LEMMA EditedOther ==
    ASSUME NEW p, NEW els, NEW new, NEW s \in Seq(Edits(p)), NEW n \in Nat \ {0}, NEW i, NEW attr,
           TextAt(new, i, attr) = TextAt(els, i, attr), ~(s[n].at = i /\ s[n].attr = attr),
           Edited(p, els, s, n - 1, i, attr)
    PROVE  Edited(p, new, s, n, i, attr)
<1>1. Lost(s, n, i, attr) = Lost(s, n - 1, i, attr)
  <2>1. 1..n = (1..(n - 1)) \cup {n}
    OBVIOUS
  <2> QED BY <2>1 DEF Lost
<1>2. \A a : Awaits(s, n - 1, i, attr, a) => Awaits(s, n, i, attr, a)
  <2> SUFFICES ASSUME NEW a, Awaits(s, n - 1, i, attr, a), NEW k \in DOMAIN s, k > n, s[k].at = i, s[k].attr = attr
               PROVE  s[k].span[2] <= Len(a) + 1
    BY DEF Awaits
  <2>1. k \in Nat /\ k > n - 1
    OBVIOUS
  <2> QED BY <2>1 DEF Awaits
<1> QED BY <1>1, <1>2 DEF Edited

LEMMA EditedHere ==
    ASSUME NEW p \in Seq(Scanned), NEW els, NEW new, NEW s \in Seq(Edits(p)), Backwards(s), NEW n \in DOMAIN s,
           NEW i, NEW attr, i = s[n].at, attr = s[n].attr, NEW m \in Int,
           Clean(TextAt(p, i, attr)), Edited(p, els, s, n - 1, i, attr),
           TextAt(new, i, attr) = Splice(TextAt(els, i, attr), s[n].span, Placeholder(s[n].kind, m))
    PROVE  Edited(p, new, s, n, i, attr)
<1> DEFINE had == TextAt(p, i, attr)
           now == TextAt(els, i, attr)
           lost == Lost(s, n - 1, i, attr)
           d == s[n]
<1>1. d \in Edits(p) /\ n \in 1..Len(s) /\ Len(s) \in Nat /\ DOMAIN s = 1..Len(s)
  OBVIOUS
<1>2. had \in Seq(Tokens)
  <2>1. i \in DOMAIN p
    BY <1>1 DEF Edits
  <2> QED BY <2>1, SlotTexts, TextTokens
<1>3. d.span \in Spans /\ d.kind \in Names /\ d.kind # "ours"
  BY <1>1 DEF Edits, Finding
<1>4. PICK a \in Seq(Tokens) : Split(had, now, lost, a) /\ Awaits(s, n - 1, i, attr, a)
  BY DEF Edited
<1> HIDE DEF d
<1>5. d.span[2] <= Len(a) + 1
  BY <1>1, <1>4 DEF Awaits, d
<1> HIDE DEF had, now, lost
<1>6. PICK b \in Seq(Tokens) :
               /\ Len(b) = d.span[1] - 1
               /\ Split(had, Splice(now, d.span, Placeholder(d.kind, m)), lost \cup (d.span[1]..(d.span[2] - 1)), b)
  <2>1. Clean(had)
    BY DEF had
  <2> QED BY <1>2, <1>3, <1>4, <1>5, <2>1, SplitStep
<1>7. lost \cup (d.span[1]..(d.span[2] - 1)) = Lost(s, n, i, attr)
  <2>1. 1..n = (1..(n - 1)) \cup {n}
    BY <1>1
  <2>2. \A q \in d.span[1]..(d.span[2] - 1) : q \in Nat
    BY <1>3 DEF Spans
  <2>3. d.at = i /\ d.attr = attr
    BY DEF d
  <2> QED BY <2>1, <2>2, <2>3 DEF Lost, lost, d
<1>8. Awaits(s, n, i, attr, b)
  <2> SUFFICES ASSUME NEW k \in DOMAIN s, k > n, s[k].at = i, s[k].attr = attr
               PROVE  s[k].span[2] <= Len(b) + 1
    BY DEF Awaits
  <2>1. s[k].span[2] <= d.span[1]
    BY <1>1 DEF Backwards, d
  <2>2. d.span[1] \in Nat
    BY <1>3 DEF Spans
  <2> QED BY <1>6, <2>1, <2>2
<1> QED BY <1>6, <1>7, <1>8 DEF Edited, had, now, d

(* No text of the page holds the session's nonce.                            *)
Nonceless(p) == \A i \in DOMAIN p, attr \in Attrs : Clean(TextAt(p, i, attr))

(* After the first n edits: each was made, and every text is what they leave.*)
Reworked(p, s, n, x) ==
    /\ x.doc.gone = {} /\ Len(x.entries) = n
    /\ \A k \in 1..n : x.entries[k].id = s[k].id /\ x.entries[k].applied
    /\ \A i \in DOMAIN p, attr \in Attrs : Edited(p, x.doc.els, s, n, i, attr)

LEMMA RewriteStep ==
    ASSUME NEW p \in Seq(Scanned), Nonceless(p), NEW F \in SUBSET Finding,
           NEW s \in Seq(Edits(p)), Backwards(s), NEW n \in DOMAIN s, s[n] \in F,
           NEW x \in States(p, F), Reworked(p, s, n - 1, x)
    PROVE  RewriteSpan(x, s[n]) \in States(p, F) /\ Reworked(p, s, n, RewriteSpan(x, s[n]))
<1> DEFINE d == s[n]
           doc == x.doc
           ordinals == Counted(x.ordinals, d.kind)
           had == SlotText(doc, d)
           m == ordinals[d.kind]
           new == Splice(had, d.span, Placeholder(d.kind, m))
           y == RewriteSpan(x, d)
           e == Entry(d, "placeholder", TRUE, "span")
<1>1. /\ doc \in Documents(p) /\ x.ordinals \in Ordinals /\ x.entries \in Seq(Logged)
      /\ doc.gone = {} /\ DOMAIN doc.els = DOMAIN p
  BY DEF States, Documents, Els, Reworked
<1>2. d \in Edits(p) /\ n \in Nat \ {0} /\ d \in F
  OBVIOUS
<1>3. d.at \in DOMAIN p /\ d.attr \in Attrs /\ d.span \in Spans /\ d.span # NoSpan /\ d.kind \in Names
  BY <1>2 DEF Edits, Attrs, Finding, Spans, NoSpan
<1>4. Present(doc, d.at)
  BY <1>1, <1>3 DEF Present
<1>5. m \in Int /\ had \in Seq(Tokens) /\ had = TextAt(doc.els, d.at, d.attr)
  <2>1. had \in Seq(Tokens)
    BY <1>1, <1>4, SlotType
  <2>2. had = TextAt(doc.els, d.at, d.attr)
    BY <1>3 DEF SlotText, TextAt
  <2>3. m \in Int
    BY <1>1, <1>3, CountedType
  <2> QED BY <2>1, <2>2, <2>3
<1>6. y \in States(p, F)
  BY <1>2, <1>3, RewriteSpanType
<1>7. d.span[2] <= Len(had) + 1
  <2>1. PICK a \in Seq(Tokens) : /\ Split(TextAt(p, d.at, d.attr), had, Lost(s, n - 1, d.at, d.attr), a)
                                 /\ Awaits(s, n - 1, d.at, d.attr, a)
    <3>1. Edited(p, doc.els, s, n - 1, d.at, d.attr)
      BY <1>3 DEF Reworked
    <3> HIDE DEF had, d
    <3> QED BY <1>5, <3>1 DEF Edited
  <2>2. d.span[2] <= Len(a) + 1
    BY <1>2, <2>1 DEF Awaits
  <2> HIDE DEF had, d
  <2>3. PICK z \in Seq(Tokens), t \in Seq(Tokens) : had = a \o t
    BY <2>1 DEF Split
  <2>4. Len(had) = Len(a) + Len(t) /\ Len(a) \in Nat /\ Len(t) \in Nat
    BY <2>3
  <2>5. d.span[2] \in Nat
    BY <1>3 DEF Spans
  <2> QED BY <2>2, <2>4, <2>5
<1>8. y = [x EXCEPT !.ordinals = ordinals, !.doc = SetSlot(doc, d, new), !.entries = Append(x.entries, e)]
  BY <1>4, <1>7 DEF RewriteSpan
<1>9. new \in Seq(Tokens)
  <2>1. Placeholder(d.kind, m) \in Seq(Tokens)
    BY <1>3, <1>5, PlaceholderType
  <2> HIDE DEF had, m, d
  <2> QED BY <1>3, <1>5, <1>7, <2>1, SpliceType
<1> HIDE DEF y, e
<1>10. y.doc = SetSlot(doc, d, new) /\ y.entries = Append(x.entries, e)
  <2> DEFINE w == SetSlot(doc, d, new)
             l == Append(x.entries, e)
  <2> HIDE DEF ordinals, w, l
  <2>1. y = [x EXCEPT !.ordinals = ordinals, !.doc = w, !.entries = l]
    BY <1>8 DEF w, l, ordinals
  <2>2. y.doc = w /\ y.entries = l
    BY <2>1 DEF States
  <2> QED BY <2>2 DEF w, l
<1>11. e \in Logged /\ e.id = d.id /\ e.applied
  <2>1. "placeholder" \in Names /\ "span" \in Names
    BY ZenonT(60) DEF Names
  <2>2. d \in Finding
    OBVIOUS
  <2> HIDE DEF d
  <2>3. e \in Logged
    BY <2>1, <2>2, EntryType DEF e
  <2> QED BY <2>3 DEF e, Entry
<1>12. Len(y.entries) = n /\ \A k \in 1..n : y.entries[k].id = s[k].id /\ y.entries[k].applied
  <2>1. x.entries \in Seq(Logged) /\ Len(x.entries) = n - 1
    BY <1>1 DEF Reworked
  <2>2. Len(y.entries) = n /\ \A k \in 1..n : y.entries[k] = IF k = n THEN e ELSE x.entries[k]
    BY <1>2, <1>10, <1>11, <2>1
  <2>3. \A k \in 1..(n - 1) : x.entries[k].id = s[k].id /\ x.entries[k].applied
    BY DEF Reworked
  <2> QED BY <1>2, <1>11, <2>2, <2>3
<1> HIDE DEF new, had, m
<1>13. ASSUME NEW i \in DOMAIN p, NEW attr \in Attrs PROVE Edited(p, y.doc.els, s, n, i, attr)
  <2>1. /\ TextAt(y.doc.els, i, attr) = IF i = d.at /\ attr = d.attr THEN new ELSE TextAt(doc.els, i, attr)
    BY <1>1, <1>3, <1>9, <1>10, SetSlotAt
  <2>2. Edited(p, doc.els, s, n - 1, i, attr)
    BY DEF Reworked
  <2>3. CASE i = d.at /\ attr = d.attr
    <3>1. TextAt(y.doc.els, i, attr) = Splice(TextAt(doc.els, i, attr), s[n].span, Placeholder(s[n].kind, m))
      BY <1>5, <2>1, <2>3 DEF new
    <3>2. Clean(TextAt(p, i, attr))
      BY DEF Nonceless
    <3> DEFINE els == doc.els
               after == y.doc.els
    <3> HIDE DEF els, after
    <3>3. TextAt(after, i, attr) = Splice(TextAt(els, i, attr), s[n].span, Placeholder(s[n].kind, m))
      BY <3>1 DEF els, after
    <3>4. Edited(p, els, s, n - 1, i, attr)
      BY <2>2 DEF els
    <3>5. i = s[n].at /\ attr = s[n].attr
      BY <2>3
    <3>6. Edited(p, after, s, n, i, attr)
      BY <1>5, <3>2, <3>3, <3>4, <3>5, EditedHere
    <3> QED BY <3>6 DEF after
  <2>4. CASE ~(i = d.at /\ attr = d.attr)
    <3>1. TextAt(y.doc.els, i, attr) = TextAt(doc.els, i, attr)
      BY <2>1, <2>4
    <3> QED BY <1>2, <2>2, <2>4, <3>1, EditedOther
  <2> QED BY <2>3, <2>4
<1>14. y.doc.gone = {}
  <2>1. y.doc.gone = doc.gone
    BY <1>1, <1>3, <1>9, <1>10, SetSlotAt
  <2> QED BY <1>1, <2>1
<1> QED BY <1>6, <1>12, <1>13, <1>14 DEF Reworked, y

LEMMA RewritingAll ==
    ASSUME NEW p \in Seq(Scanned), Nonceless(p), NEW F \in SUBSET Finding,
           NEW s \in Seq(Edits(p)), Backwards(s), ToSet(s) \subseteq F
    PROVE  /\ Rewriting!Fold(Unchanged(p), s) \in States(p, F)
           /\ Reworked(p, s, Len(s), Rewriting!Fold(Unchanged(p), s))
<1> DEFINE N == Len(s)
           T == [n \in 0..N |-> {x \in States(p, F) : Reworked(p, s, n, x)}]
           start == Unchanged(p)
<1>1. N \in Nat /\ DOMAIN s = 1..N /\ \A n \in 1..N : s[n] \in F
  BY DEF ToSet
<1>2. start \in T[0]
  <2>1. start \in States(p, F)
    BY UnchangedType
  <2>2. start.doc.gone = {} /\ start.doc.els = p /\ start.entries = <<>>
    BY DEF Unchanged
  <2> HIDE DEF start
  <2>3. \A i \in DOMAIN p, attr \in Attrs : Edited(p, p, s, 0, i, attr)
    BY EditedStart
  <2>4. Reworked(p, s, 0, start)
    BY <2>2, <2>3 DEF Reworked
  <2> QED BY <1>1, <2>1, <2>4
<1>3. ASSUME NEW n \in 1..N, NEW x \in T[n - 1] PROVE RewriteSpan(x, s[n]) \in T[n]
  <2>1. x \in States(p, F) /\ Reworked(p, s, n - 1, x)
    BY <1>1
  <2>2. RewriteSpan(x, s[n]) \in States(p, F) /\ Reworked(p, s, n, RewriteSpan(x, s[n]))
    BY <1>1, <2>1, RewriteStep
  <2> QED BY <1>1, <2>2
<1>4. \A x : x \in T[N] => x \in States(p, F) /\ Reworked(p, s, N, x)
  BY <1>1
<1> HIDE DEF T, N, start
<1>5. Rewriting!Fold(start, s) \in T[N]
  BY <1>1, <1>2, <1>3, Rewriting!Passes
<1> QED BY <1>4, <1>5 DEF start, N

LEMMA SpanOrderOwn ==
    ASSUME NEW S, NEW I, NEW s \in Own(S, I)
    PROVE  SpanOrder(s) \in Own(S, I)
<1> DEFINE N == Len(s)
           T == [n \in 0..N |-> Own(S, Before(s, n))]
<1>0. s \in Seq(S) /\ Distinct(s) /\ Ids(s) \subseteq I
  BY DEF Own
<1>1. N \in Nat /\ DOMAIN s = 1..N /\ \A n \in 1..N : s[n] \in S
  BY <1>0
<1>2. SpanOrder(s) = SpanSorting!Fold(s, s)
  BY DEF SpanOrder, Sorted, SpanSorting!Fold, SpanSorting!FoldOn, FoldLeft, MapThenFoldSet, Max,
         SpanSorting!Top, SpanStep
<1>3. ASSUME NEW n \in 1..N, NEW x \in T[n - 1] PROVE SpanStep(s, x, s[n]) \in T[n]
  <2> DEFINE e == s[n]
             P == {k \in DOMAIN x : ~(\/ FirstOf(s, e) < FirstOf(s, x[k])
                                      \/ Slot(e) = Slot(x[k]) /\ e.span[1] > x[k].span[1])}
             J == Before(s, n - 1)
  <2>1. T[n - 1] = Own(S, J) /\ T[n] = Own(S, Before(s, n))
    BY <1>1
  <2>2. x \in Own(S, J)
    BY <2>1
  <2>3. x \in Seq(S)
    BY <2>2 DEF Own
  <2>4. P \in SUBSET (1..Len(x)) /\ Len(x) \in Nat
    BY <2>3
  <2>5. e.id \notin J /\ Before(s, n) = J \cup {e.id} /\ e \in S
    BY <1>0, <1>1, BeforeGrows
  <2>6. SpanStep(s, x, e) = InsertAt(x, Cardinality(P) + 1, e)
    BY DEF SpanStep
  <2> HIDE DEF P, J, e
  <2>7. Cardinality(P) + 1 \in 1..(Len(x) + 1)
    BY <2>4, SizeOfPart
  <2>8. InsertAt(x, Cardinality(P) + 1, e) \in Own(S, J \cup {e.id})
    BY <2>2, <2>5, <2>7, InsertOwn
  <2>9. SpanStep(s, x, e) \in T[n]
    BY <2>1, <2>5, <2>6, <2>8
  <2> QED BY <2>9 DEF e
<1>4. <<>> \in T[0]
  <2>1. T[0] = Own(S, Before(s, 0))
    BY <1>1
  <2> QED BY <2>1, OwnNothing
<1>5. T[N] = Own(S, Ids(s))
  BY <1>0, <1>1, BeforeAll
<1> HIDE DEF T, N
<1>6. SpanSorting!Fold(s, s) \in T[N]
  BY <1>1, <1>3, <1>4, SpanSorting!Passes
<1> QED BY <1>0, <1>2, <1>5, <1>6, OwnMore

(* The edits of a merged list go backwards in each text.                     *)
LEMMA SpansBackwards ==
    ASSUME NEW p \in Seq(Scanned), NEW F \in SUBSET FindingOf(p), Apart(F), NEW I, NEW c \in Own(F, I),
           \A n \in DOMAIN c : c[n].span # NoSpan
    PROVE  /\ SpanOrder(c) \in Seq(Edits(p)) /\ SpanOrder(c) \in Seq(F)
           /\ Distinct(SpanOrder(c)) /\ Backwards(SpanOrder(c))
<1> DEFINE s == SpanOrder(c)
           S == ToSet(c)
<1>1. c \in Seq(F) /\ DOMAIN c = 1..Len(c) /\ Len(c) \in Nat
  BY DEF Own
<1>2. \A n \in DOMAIN c : c[n] \in F /\ c[n] \in Finding
  BY <1>1 DEF FindingOf
<1>3. c \in Seq(Started)
  BY <1>1, <1>2 DEF Started
<1>4. s \in Seq(S) /\ InOrder(c, s)
  BY <1>3, SpansInOrder
<1>5. \A d \in S : d \in F /\ d \in Edits(p) /\ d.span # NoSpan
  <2>1. \A d \in S : d \in F /\ d.span # NoSpan
    BY <1>2 DEF ToSet
  <2>2. \A d \in F : d \in FindingOf(p)
    OBVIOUS
  <2> QED BY <2>1, <2>2, SpottedEdits
<1>6. s \in Own(F, I)
  BY SpanOrderOwn
<1> HIDE DEF s, S
<1>7. s \in Seq(F) /\ Distinct(s)
  BY <1>6 DEF Own
<1>8. s \in Seq(Edits(p))
  BY <1>4, <1>5
<1>9. \A n \in DOMAIN s : s[n] \in S
  BY <1>4
<1>10. Backwards(s)
  <2> SUFFICES ASSUME NEW m \in DOMAIN s, NEW n \in DOMAIN s, m < n, s[m].at = s[n].at, s[m].attr = s[n].attr
               PROVE  s[n].span[2] <= s[m].span[1]
    BY DEF Backwards
  <2> DEFINE a == s[m]
             b == s[n]
  <2>1. a \in F /\ b \in F /\ a \in Edits(p) /\ b \in Edits(p) /\ a.span # NoSpan /\ b.span # NoSpan
    BY <1>5, <1>9
  <2>2. a.id # b.id
    <3>1. m # n
      BY <1>8
    <3> QED BY <1>7, <3>1 DEF Distinct
  <2>3. ~Ahead(c, b, a)
    BY <1>4 DEF InOrder
  <2>4. Slot(a) = Slot(b) /\ Slot(b) = Slot(a)
    BY DEF Slot
  <2> HIDE DEF a, b
  <2>5. a.span[2] <= b.span[1] \/ b.span[2] <= a.span[1]
    BY <2>1, <2>2, <2>4, SpansApart
  <2>6. /\ a.span[1] \in Nat /\ a.span[2] \in Nat /\ b.span[1] \in Nat /\ b.span[2] \in Nat
        /\ a.span[1] < a.span[2]
    BY <2>1 DEF Edits, Spans
  <2>7. ~(b.span[1] > a.span[1])
    BY <2>3, <2>4 DEF Ahead
  <2>8. b.span[2] <= a.span[1]
    BY <2>5, <2>6, <2>7
  <2> QED BY <2>8 DEF a, b
<1> QED BY <1>7, <1>8, <1>10 DEF s

-----------------------------------------------------------------------------
(* The findings without a span: what they put in a text is all of it.        *)

AllHeld(text) == \A n \in DOMAIN text : n \in Held(text, {"ours"})

LEMMA PlaceholderHeld ==
    ASSUME NEW kind, NEW m
    PROVE  AllHeld(Placeholder(kind, m)) /\ AllHeld(<<>>)
<1> DEFINE P == Placeholder(kind, m)
<1>1. Len(P) = 3 /\ DOMAIN P = 1..3 /\ P[1] = Opening /\ P[3][1] = "ours"
  BY DEF Placeholder
<1> HIDE DEF P
<1>2. 1 \in 1..(Len(P) - 2) /\ P[1 + 2][1] \in {"ours"}
  BY <1>1
<1>3. ASSUME NEW n \in DOMAIN P PROVE n \in Held(P, {"ours"})
  <2>1. n \in 1..(1 + 2)
    BY <1>1
  <2> DEFINE J == {j \in 1..(Len(P) - 2) : P[j] = Opening /\ P[j + 2][1] \in {"ours"}}
  <2>2. 1 \in J
    BY <1>1, <1>2
  <2> HIDE DEF J
  <2>3. \E j \in J : n \in j..(j + 2)
    BY <2>1, <2>2
  <2>4. n \in UNION {j..(j + 2) : j \in J}
    BY <2>3
  <2> QED BY <2>4 DEF Held, J
<1>4. AllHeld(<<>>)
  BY DEF AllHeld
<1> QED BY <1>3, <1>4 DEF AllHeld, P

LEMMA ControlAt ==
    ASSUME NEW p, NEW doc \in Documents(p), NEW j \in DOMAIN p, NEW text \in Seq(Tokens),
           NEW i \in DOMAIN p, NEW attr \in Attrs
    PROVE  /\ TextAt(WriteControl(doc, j, text).els, i, attr) \in {text, TextAt(doc.els, i, attr)}
           /\ TextAt(ReplaceContent(doc, j, text).els, i, attr) \in {text, TextAt(doc.els, i, attr)}
<1> DEFINE d(a) == [at |-> j, attr |-> a]
<1>1. \A a \in Attrs : d(a).at = j /\ d(a).attr = a
  OBVIOUS
<1>2. "text" \in Attrs /\ "value" \in Attrs
  BY DEF Attrs
<1>3. \/ WriteControl(doc, j, text) = SetSlot(doc, d("text"), text)
      \/ WriteControl(doc, j, text) = SetSlot(doc, d("value"), text)
  BY DEF WriteControl, SetSlot
<1>4. ReplaceContent(doc, j, text).els = SetSlot(doc, d("text"), text).els
  BY DEF ReplaceContent, SetSlot, Documents
<1> HIDE DEF d
<1>5. ASSUME NEW a \in Attrs
      PROVE  TextAt(SetSlot(doc, d(a), text).els, i, attr) \in {text, TextAt(doc.els, i, attr)}
  <2> DEFINE e == d(a)
  <2>1. e.at \in DOMAIN p /\ e.attr \in Attrs
    BY <1>1
  <2> HIDE DEF e
  <2>2. TextAt(SetSlot(doc, e, text).els, i, attr) =
            IF i = e.at /\ attr = e.attr THEN text ELSE TextAt(doc.els, i, attr)
    BY <2>1, SetSlotAt
  <2> QED BY <2>2 DEF e
<1> QED BY <1>2, <1>3, <1>4, <1>5

(* From mid on every text stays what it is or is only placeholder, and what  *)
(* is logged more is of ids of I.                                            *)
Filled(p, I, mid, x) ==
    /\ Len(mid.entries) <= Len(x.entries)
    /\ \A k \in 1..Len(mid.entries) : x.entries[k] = mid.entries[k]
    /\ \A k \in DOMAIN x.entries : k > Len(mid.entries) => x.entries[k].id \in I
    /\ \A i \in DOMAIN p, attr \in Attrs :
           \/ TextAt(x.doc.els, i, attr) = TextAt(mid.doc.els, i, attr)
           \/ AllHeld(TextAt(x.doc.els, i, attr))

LEMMA FillStep ==
    ASSUME NEW p \in Seq(Scanned), NEW F \in SUBSET Finding, NEW I, NEW mid \in States(p, F),
           NEW x \in States(p, F), Filled(p, I, mid, x), NEW d \in F, d.id \in I
    PROVE  Filled(p, I, mid, ApplyStrategy(x, d))
<1> DEFINE how == ResolveStrategy(d)
           ordinals == Counted(x.ordinals, d.kind)
           doc == x.doc
           anchored == d.at # 0 /\ Present(doc, d.at)
           painted == how \in PixelStrategies
           token == Placeholder(d.kind, ordinals[d.kind])
           ops == IF painted THEN Append(x.ops, OpOf(d, how)) ELSE x.ops
           left == IF how = "drop-attribute" THEN <<>> ELSE token
           new == IF painted \/ ~anchored THEN doc
                  ELSE CASE d.attr = "value" -> WriteControl(doc, d.at, left)
                         [] d.attr = "none" -> ReplaceContent(doc, d.at, token)
                         [] OTHER -> doc
           reason == IF painted THEN "queued" ELSE IF anchored THEN "replaced" ELSE "gone"
           logged == painted \/ anchored
           e == Entry(d, how, logged, reason)
           entries == Append(x.entries, e)
           y == ApplyStrategy(x, d)
<1>1. doc \in Documents(p) /\ x.ordinals \in Ordinals /\ x.entries \in Seq(Logged) /\ mid.entries \in Seq(Logged)
  BY DEF States
<1>2. d \in Finding /\ d.kind \in Names
  <2>1. d \in Finding
    OBVIOUS
  <2> QED BY <2>1 DEF Finding
<1>3. ordinals[d.kind] \in Int
  BY <1>1, <1>2, CountedType
<1>4. how \in Names
  BY <1>2, StrategyType
<1>5. y = [x EXCEPT !.ordinals = ordinals, !.ops = ops, !.doc = new, !.entries = entries]
  BY DEF ApplyStrategy
<1>6. logged \in BOOLEAN
  OBVIOUS
<1>7. reason \in Names
  BY ZenonT(60) DEF Names
<1>8. token \in Seq(Tokens) /\ AllHeld(token)
  BY <1>2, <1>3, PlaceholderType, PlaceholderHeld
<1> HIDE DEF how, ordinals, reason, logged, y, doc, token
<1>9. left \in Seq(Tokens) /\ AllHeld(left)
  BY <1>8, PlaceholderHeld
<1>10. e \in Logged /\ e.id = d.id
  <2>1. e \in Logged
    BY <1>2, <1>4, <1>6, <1>7, EntryType
  <2> QED BY <2>1 DEF Entry
<1> HIDE DEF left
<1>11. ASSUME NEW i \in DOMAIN p, NEW attr \in Attrs
       PROVE  TextAt(new.els, i, attr) = TextAt(doc.els, i, attr) \/ AllHeld(TextAt(new.els, i, attr))
  <2>1. ASSUME anchored PROVE d.at \in DOMAIN p
    BY <1>1, <2>1 DEF Present, Documents, Els
  <2>2. ASSUME anchored
        PROVE  TextAt(WriteControl(doc, d.at, left).els, i, attr) \in {left, TextAt(doc.els, i, attr)}
    BY <1>1, <1>9, <2>1, <2>2, ControlAt
  <2>3. ASSUME anchored
        PROVE  TextAt(ReplaceContent(doc, d.at, token).els, i, attr) \in {token, TextAt(doc.els, i, attr)}
    BY <1>1, <1>8, <2>1, <2>3, ControlAt
  <2> HIDE DEF painted, anchored
  <2>4. \/ new = doc
        \/ ~painted /\ anchored /\ new = WriteControl(doc, d.at, left)
        \/ ~painted /\ anchored /\ new = ReplaceContent(doc, d.at, token)
    OBVIOUS
  <2> HIDE DEF new
  <2> QED BY <1>8, <1>9, <2>2, <2>3, <2>4
<1> HIDE DEF ops, new, e
<1>12. y.doc = new /\ y.entries = Append(x.entries, e)
  <2> HIDE DEF entries
  <2>1. y.doc = new /\ y.entries = entries
    BY <1>5 DEF States
  <2> QED BY <2>1 DEF entries
<1>13. /\ Len(y.entries) = Len(x.entries) + 1 /\ DOMAIN y.entries = 1..(Len(x.entries) + 1)
       /\ Len(x.entries) \in Nat /\ DOMAIN x.entries = 1..Len(x.entries) /\ Len(mid.entries) \in Nat
       /\ \A k \in 1..(Len(x.entries) + 1) : y.entries[k] = IF k = Len(x.entries) + 1 THEN e ELSE x.entries[k]
  BY <1>1, <1>10, <1>12
<1> DEFINE M == Len(mid.entries)
           L == Len(x.entries)
<1>14. /\ M <= L
       /\ \A k \in 1..M : x.entries[k] = mid.entries[k]
       /\ \A k \in DOMAIN x.entries : k > M => x.entries[k].id \in I
       /\ \A i \in DOMAIN p, attr \in Attrs :
              TextAt(doc.els, i, attr) = TextAt(mid.doc.els, i, attr) \/ AllHeld(TextAt(doc.els, i, attr))
  BY DEF Filled, doc
<1>15. M <= Len(y.entries) /\ \A k \in 1..M : y.entries[k] = mid.entries[k]
  BY <1>13, <1>14
<1>16. \A k \in DOMAIN y.entries : k > M => y.entries[k].id \in I
  BY <1>10, <1>13, <1>14
<1>17. \A i \in DOMAIN p, attr \in Attrs :
           TextAt(y.doc.els, i, attr) = TextAt(mid.doc.els, i, attr) \/ AllHeld(TextAt(y.doc.els, i, attr))
  BY <1>11, <1>12, <1>14
<1> QED BY <1>15, <1>16, <1>17 DEF Filled, y

LEMMA FillAll ==
    ASSUME NEW p \in Seq(Scanned), NEW F \in SUBSET Finding, NEW I, NEW mid \in States(p, F),
           NEW s \in Seq(F), \A n \in DOMAIN s : s[n].id \in I
    PROVE  Applying!Fold(mid, s) \in States(p, F) /\ Filled(p, I, mid, Applying!Fold(mid, s))
<1> DEFINE N == Len(s)
           T == {x \in States(p, F) : Filled(p, I, mid, x)}
<1>1. N \in Nat /\ DOMAIN s = 1..N /\ \A n \in 1..N : s[n] \in F /\ s[n].id \in I
  OBVIOUS
<1>2. mid \in T
  <2>1. mid.entries \in Seq(Logged)
    BY DEF States
  <2>2. DOMAIN mid.entries = 1..Len(mid.entries) /\ Len(mid.entries) \in Nat
    BY <2>1
  <2>3. Filled(p, I, mid, mid)
    BY <2>2 DEF Filled
  <2> QED BY <2>3
<1>3. \A n \in 1..N : \A x \in T : ApplyStrategy(x, s[n]) \in T
  BY <1>1, FillStep, ApplyStrategyType
<1> HIDE DEF T, N
<1>4. Applying!Fold(mid, s) \in T
  BY <1>1, <1>2, <1>3, Applying!Stays
<1> QED BY <1>4 DEF T

(* What the log says of the edits s: each was applied, and nothing else with *)
(* a span was.                                                               *)
Accounted(F, s, entries) ==
    /\ Len(s) <= Len(entries)
    /\ \A k \in 1..Len(s) : entries[k].id = s[k].id /\ entries[k].applied
    /\ \A k \in DOMAIN entries : k > Len(s) /\ entries[k].applied =>
                                     \E f \in F : f.span = NoSpan /\ f.id = entries[k].id

(* What the edits s leave of the texts of the page.                          *)
LeftIn(p, els, s) ==
    \A i \in DOMAIN p, attr \in Attrs :
        \/ AllHeld(TextAt(els, i, attr))
        \/ Bare(TextAt(els, i, attr)) =
               Kept(TextAt(p, i, attr), DOMAIN TextAt(p, i, attr) \ Lost(s, Len(s), i, attr))

LEMMA RewrittenLeaves ==
    ASSUME NEW p \in Seq(Scanned), Nonceless(p), NEW F \in SUBSET FindingOf(p), Apart(F),
           NEW I, NEW applicable \in Own(F, I)
    PROVE  /\ Rewritten(p, applicable).entries \in Seq(Logged)
           /\ \E s \in Seq(Edits(p)) : /\ s \in Seq(F)
                                       /\ Accounted(F, s, Rewritten(p, applicable).entries)
                                       /\ LeftIn(p, Rewritten(p, applicable).doc.els, s)
<1> DEFINE inTexts == {n \in DOMAIN applicable : applicable[n].span # NoSpan /\ applicable[n].at # 0}
           others == {n \in DOMAIN applicable : applicable[n].span = NoSpan}
           c == Kept(applicable, inTexts)
           s == SpanOrder(c)
           loose == Kept(applicable, others)
           rest == RemovalsLast(loose)
           start == Unchanged(p)
           middle == Rewriting!Fold(start, s)
           done == Applying!Fold(middle, rest)
           S == {d \in F : d.span # NoSpan}
           G == {d \in F : d.span = NoSpan}
           J == {d.id : d \in G}
<1>1. applicable \in Seq(F) /\ F \in SUBSET Finding /\ \A n \in 1..Len(applicable) : applicable[n] \in F
  <2>1. applicable \in Seq(F)
    BY DEF Own
  <2>2. F \in SUBSET Finding
    BY DEF FindingOf
  <2> QED BY <2>1, <2>2
<1>2. c \in Seq(S)
  <2>1. \A n \in 1..Len(applicable) : n \in inTexts => applicable[n] \in S
    BY <1>1
  <2> HIDE DEF inTexts, S
  <2> QED BY <1>1, <2>1, KeptIn
<1>3. loose \in Seq(G)
  <2>1. \A n \in 1..Len(applicable) : n \in others => applicable[n] \in G
    BY <1>1
  <2> HIDE DEF others, G
  <2> QED BY <1>1, <2>1, KeptIn
<1>4. Rewritten(p, applicable) = done
  <2>1. Rewritten(p, applicable) = FoldLeft(ApplyStrategy, FoldLeft(RewriteSpan, start, s), rest)
    BY DEF Rewritten, Those
  <2> HIDE DEF s, rest, start
  <2>2. FoldLeft(RewriteSpan, start, s) = middle
    BY DEF Rewriting!Fold, Rewriting!FoldOn, FoldLeft, MapThenFoldSet, Max, Rewriting!Top
  <2> HIDE DEF middle
  <2>3. FoldLeft(ApplyStrategy, middle, rest) = done
    BY DEF Applying!Fold, Applying!FoldOn, FoldLeft, MapThenFoldSet, Max, Applying!Top
  <2> QED BY <2>1, <2>2, <2>3
<1>5. c \in Own(F, I) /\ \A n \in DOMAIN c : c[n].span # NoSpan
  <2>1. c \in Own(F, I)
    BY KeptOwn
  <2>2. \A n \in DOMAIN c : c[n] \in S
    BY <1>2
  <2> QED BY <2>1, <2>2
<1>6. rest \in Seq(G) /\ \A n \in DOMAIN rest : rest[n].id \in J
  <2>1. rest \in Seq(G)
    BY <1>3, RemovalsLastType
  <2> HIDE DEF rest
  <2>2. \A n \in DOMAIN rest : rest[n] \in G
    BY <2>1
  <2> QED BY <2>1, <2>2
<1> HIDE DEF c, rest, S
<1>7. s \in Seq(Edits(p)) /\ s \in Seq(F) /\ Backwards(s)
  BY <1>5, SpansBackwards
<1> HIDE DEF s
<1>8. ToSet(s) \subseteq F
  BY <1>7 DEF ToSet
<1>9. middle \in States(p, F) /\ Reworked(p, s, Len(s), middle)
  BY <1>1, <1>7, <1>8, RewritingAll DEF start
<1> HIDE DEF middle
<1>10. rest \in Seq(F)
  BY <1>6
<1> HIDE DEF G, J
<1>11. done \in States(p, F) /\ Filled(p, J, middle, done)
  BY <1>1, <1>6, <1>9, <1>10, FillAll
<1> HIDE DEF done
<1>12. /\ middle.entries \in Seq(Logged) /\ Len(middle.entries) = Len(s)
       /\ \A k \in 1..Len(s) : middle.entries[k].id = s[k].id /\ middle.entries[k].applied
  BY <1>9 DEF States, Reworked
<1>13. done.entries \in Seq(Logged)
  BY <1>11 DEF States
<1>14. Accounted(F, s, done.entries)
  <2>1. /\ Len(s) <= Len(done.entries)
        /\ \A k \in 1..Len(s) : done.entries[k] = middle.entries[k]
        /\ \A k \in DOMAIN done.entries : k > Len(s) => done.entries[k].id \in J
    BY <1>11, <1>12 DEF Filled
  <2>2. \A id \in J : \E f \in F : f.span = NoSpan /\ f.id = id
    BY DEF J, G
  <2> QED BY <1>12, <2>1, <2>2 DEF Accounted
<1>15. ASSUME NEW i \in DOMAIN p, NEW attr \in Attrs
       PROVE  \/ AllHeld(TextAt(done.doc.els, i, attr))
              \/ Bare(TextAt(done.doc.els, i, attr)) =
                     Kept(TextAt(p, i, attr), DOMAIN TextAt(p, i, attr) \ Lost(s, Len(s), i, attr))
  <2> DEFINE had == TextAt(p, i, attr)
             now == TextAt(middle.doc.els, i, attr)
             lost == Lost(s, Len(s), i, attr)
  <2>1. TextAt(done.doc.els, i, attr) = now \/ AllHeld(TextAt(done.doc.els, i, attr))
    BY <1>11 DEF Filled
  <2>2. Edited(p, middle.doc.els, s, Len(s), i, attr)
    BY <1>9 DEF Reworked
  <2>3. had \in Seq(Tokens) /\ Clean(had)
    BY SlotTexts, TextTokens DEF Nonceless
  <2>4. PICK a \in Seq(Tokens) : Split(had, now, lost, a)
    BY <2>2 DEF Edited
  <2> HIDE DEF had, now, lost
  <2>5. Bare(now) = Kept(had, DOMAIN had \ lost)
    BY <2>3, <2>4, SplitEnd
  <2> QED BY <2>1, <2>5 DEF had, lost
<1>16. LeftIn(p, done.doc.els, s)
  BY <1>15 DEF LeftIn
<1> QED BY <1>4, <1>7, <1>13, <1>14, <1>16

(* What redact returns: the findings, the document that those above the      *)
(* threshold leave, and a log that ends with those below it.                 *)
Returned(p, r, applicable, more, S) ==
    LET F == ToSet(r.detections)
    IN /\ r.detections \in Seq(Finding) /\ Distinct(r.detections)
       /\ F \in SUBSET FindingOf(p) /\ Apart(F) /\ applicable \in Own(F, DomIds \cup SeenIds)
       /\ r.doc = Rewritten(p, applicable).doc
       /\ r.entries = Rewritten(p, applicable).entries \o more
       /\ more \in Seq(S) /\ \A n \in DOMAIN more : ~more[n].applied

LEMMA RedactIs ==
    ASSUME NEW raw \in Seq(Scanned), NEW p, p = StripForgeries(raw),
           NEW seen \in Own(Finding, SeenIds), seen \in Seq(Sighted), NEW coverAll,
           NEW r, r = Redact(raw, seen, coverAll)
    PROVE  \E applicable, more, S : Returned(p, r, applicable, more, S)
<1> DEFINE all == Candidates(ScanDom(p), seen, p)
           list == MergeIndexed(all)
           merged == ByConfidence(list)
           F == ToSet(merged)
           keep == {n \in DOMAIN merged : merged[n].confidence >= MinConfidence}
           applicable == Kept(merged, keep)
           skipped == Those(merged, LAMBDA d : d.confidence < MinConfidence)
           state == Rewritten(p, applicable)
           covered == CoverAll(state, merged)
           done == IF coverAll THEN covered ELSE state
           E(n) == Entry(skipped[n], "placeholder", FALSE, "below")
           more == [n \in DOMAIN skipped |-> E(n)]
           I == DomIds \cup SeenIds
<1>1. r = Reported(p, merged, applicable, skipped, done)
  BY DEF Redact, RedactPage, RedactMerged, Those, MergeDetections
<1>2. p \in Seq(Scanned)
  BY StrippedPage
<1>3. r.detections = merged /\ r.doc = done.doc /\ r.entries = done.entries \o more
  <2> HIDE DEF merged, done, skipped, applicable
  <2> DEFINE risk == IF \E n \in DOMAIN done.entries : ~done.entries[n].applied THEN "unknown"
                     ELSE IF skipped # <<>> THEN "low" ELSE "none"
             u == Unpaintable(p, applicable)
             t == done.entries \o more
  <2>1. r = [doc |-> done.doc, detections |-> merged, ops |-> done.ops, unpaintable |-> u, entries |-> t,
             residualRisk |-> risk]
    BY <1>1 DEF Reported
  <2> HIDE DEF risk, u, t
  <2>2. r.detections = merged /\ r.doc = done.doc /\ r.entries = t
    BY <2>1
  <2> QED BY <2>2 DEF t
<1>4. all \in Seq(FindingOf(p)) /\ all \in Own(Finding, I)
  <2>1. ScanDom(p) \in Seq(FindingOf(p)) /\ ScanDom(p) \in Own(Finding, DomIds)
    BY <1>2, ScanDomType, ScanDomOwn
  <2> HIDE DEF I
  <2>2. Candidates(ScanDom(p), seen, p) \in Seq(FindingOf(p))
    BY <1>2, <2>1, CandidatesType
  <2>3. Candidates(ScanDom(p), seen, p) \in Own(Finding, I)
    BY <1>2, <2>1, CandidatesOwn DEF I
  <2> QED BY <2>2, <2>3
<1> HIDE DEF all, I
<1>5. list \in Seq(FindingOf(p)) /\ Apart(ToSet(list)) /\ list \in Own(Finding, I)
  BY <1>2, <1>4, MergedApart, MergedOwn
<1> HIDE DEF list
<1>6. merged \in Own(Finding, I)
  BY <1>5, ByConfidenceOwn
<1>7. merged \in Seq(ToSet(list))
  <2>1. list \in Seq(ToSet(list))
    BY <1>5 DEF ToSet
  <2> QED BY <2>1, ByConfidenceType
<1> HIDE DEF merged
<1>8. /\ F \in SUBSET FindingOf(p) /\ Apart(F) /\ merged \in Own(F, I)
      /\ merged \in Seq(Finding) /\ Distinct(merged)
  <2>1. \A d \in ToSet(list) : d \in FindingOf(p)
    BY <1>5 DEF ToSet
  <2>2. \A d \in F : d \in ToSet(list)
    BY <1>7 DEF ToSet
  <2>3. F \in SUBSET FindingOf(p) /\ Apart(F)
    BY <1>5, <2>1, <2>2 DEF Apart
  <2>4. merged \in Seq(Finding) /\ Distinct(merged) /\ Ids(merged) \subseteq I
    BY <1>6 DEF Own
  <2>5. merged \in Seq(F)
    BY <2>4 DEF ToSet
  <2> QED BY <2>3, <2>4, <2>5 DEF Own
<1> HIDE DEF F, keep
<1>9. applicable \in Own(F, I)
  BY <1>8, KeptOwn
<1> HIDE DEF applicable
<1>10. done.doc = state.doc /\ done.entries = state.entries
  <2>1. F \in SUBSET Finding /\ applicable \in Seq(F)
    BY <1>8, <1>9 DEF FindingOf, Own
  <2>2. state \in States(p, F)
    BY <1>2, <2>1, RewrittenType
  <2> HIDE DEF state
  <2>3. covered.doc = state.doc /\ covered.entries = state.entries
    BY <2>2 DEF CoverAll, States
  <2> QED BY <2>3
<1> HIDE DEF done, state, skipped
<1>11. \A n \in DOMAIN skipped : E(n).applied = FALSE
  BY DEF Entry
<1> HIDE DEF E
<1>12. skipped \in Seq(Finding)
  BY <1>8, KeptType DEF skipped, Those
<1>13. more \in Seq({E(n) : n \in DOMAIN skipped})
  BY <1>12
<1>14. \A n \in DOMAIN more : ~more[n].applied
  BY <1>11
<1> DEFINE S == {E(n) : n \in DOMAIN skipped}
<1>15. more \in Seq(S)
  BY <1>13
<1>16. /\ r.detections = merged /\ ToSet(r.detections) = F
       /\ r.doc = state.doc /\ r.entries = state.entries \o more
  BY <1>3, <1>10 DEF F
<1> HIDE DEF more, S
<1>17. applicable \in Own(F, DomIds \cup SeenIds)
  BY <1>9 DEF I
<1> QED BY <1>8, <1>14, <1>15, <1>16, <1>17 DEF state, Returned

LEMMA RedactLeaves ==
    ASSUME NEW raw \in Seq(Scanned), NEW p, p = StripForgeries(raw), Nonceless(p),
           NEW seen \in Own(Finding, SeenIds), seen \in Seq(Sighted), NEW coverAll,
           NEW r, r = Redact(raw, seen, coverAll)
    PROVE  /\ r.detections \in Seq(Finding) /\ Distinct(r.detections)
           /\ Len(r.entries) \in Nat /\ DOMAIN r.entries = 1..Len(r.entries)
           /\ \E s \in Seq(Edits(p)) : /\ s \in Seq(ToSet(r.detections))
                                       /\ Accounted(ToSet(r.detections), s, r.entries)
                                       /\ LeftIn(p, r.doc.els, s)
<1> DEFINE F == ToSet(r.detections)
           I == DomIds \cup SeenIds
<1>0. PICK applicable, more, S : Returned(p, r, applicable, more, S)
  BY RedactIs
<1>1. /\ r.detections \in Seq(Finding) /\ Distinct(r.detections)
      /\ F \in SUBSET FindingOf(p) /\ Apart(F) /\ applicable \in Own(F, I)
      /\ r.doc = Rewritten(p, applicable).doc
      /\ r.entries = Rewritten(p, applicable).entries \o more
      /\ more \in Seq(S) /\ \A n \in DOMAIN more : ~more[n].applied
  BY <1>0 DEF Returned
<1>2. p \in Seq(Scanned)
  BY StrippedPage
<1> HIDE DEF F, I
<1> DEFINE state == Rewritten(p, applicable)
           l == state.entries
           t == l \o more
<1>3. l \in Seq(Logged)
  BY <1>1, <1>2, RewrittenLeaves
<1>4. PICK s \in Seq(Edits(p)) : s \in Seq(F) /\ Accounted(F, s, l) /\ LeftIn(p, state.doc.els, s)
  BY <1>1, <1>2, RewrittenLeaves
<1> HIDE DEF l
<1>5. /\ DOMAIN t = 1..(Len(l) + Len(more)) /\ DOMAIN l = 1..Len(l) /\ DOMAIN more = 1..Len(more)
      /\ Len(t) = Len(l) + Len(more) /\ Len(l) \in Nat /\ Len(more) \in Nat
      /\ \A k \in 1..(Len(l) + Len(more)) : t[k] = IF k <= Len(l) THEN l[k] ELSE more[k - Len(l)]
  BY <1>1, <1>3
<1> HIDE DEF t
<1>6. Accounted(F, s, t)
  <2>1. Len(s) \in Nat
    OBVIOUS
  <2>2. Len(s) <= Len(t) /\ \A k \in 1..Len(s) : t[k].id = s[k].id /\ t[k].applied
    BY <1>4, <1>5, <2>1 DEF Accounted
  <2>3. ASSUME NEW k \in DOMAIN t, t[k].applied PROVE k \in DOMAIN l /\ t[k] = l[k]
    <3>1. CASE k <= Len(l)
      BY <1>5, <3>1
    <3>2. CASE k > Len(l)
      <4>1. k - Len(l) \in DOMAIN more /\ ~(k <= Len(l))
        BY <1>5, <3>2
      <4> QED BY <1>1, <1>5, <2>3, <4>1
    <3> QED BY <1>5, <3>1, <3>2
  <2> QED BY <1>4, <2>2, <2>3 DEF Accounted
<1>7. r.entries = t
  BY <1>1 DEF t, l
<1>8. Len(t) \in Nat /\ DOMAIN t = 1..Len(t)
  BY <1>5
<1> QED BY <1>1, <1>4, <1>6, <1>7, <1>8 DEF F

(* The redaction that the step has: its log tells of edits of the page's     *)
(* texts, and what they left of them is what the document holds.             *)
Leaving ==
    /\ Inputs
    /\ stage # "captured" =>
          /\ redaction.detections \in Seq(Finding) /\ Distinct(redaction.detections)
          /\ Len(redaction.entries) \in Nat /\ DOMAIN redaction.entries = 1..Len(redaction.entries)
          /\ \E s \in Seq(Edits(StripForgeries(page))) :
                 /\ s \in Seq(ToSet(redaction.detections))
                 /\ Accounted(ToSet(redaction.detections), s, redaction.entries)
                 /\ LeftIn(StripForgeries(page), redaction.doc.els, s)

LEMMA PageNonceless ==
    ASSUME NEW raw \in Pages
    PROVE  Nonceless(StripForgeries(raw))
<1> DEFINE p == StripForgeries(raw)
<1> HIDE DEF p
<1> SUFFICES ASSUME NEW i \in DOMAIN p, NEW attr \in Attrs PROVE Clean(TextAt(p, i, attr))
  BY DEF Nonceless, p
<1>1. p[i] \in ToSet(p)
  BY DEF ToSet
<1>2. \A el \in ToSet(p) : \A text \in {el.label, el.value, el.text} : Clean(text)
  BY NonceAssumption DEF Clean, p
<1>3. TextAt(p, i, attr) \in {p[i].label, p[i].value, p[i].text}
  BY DEF TextAt
<1> QED BY <1>1, <1>2, <1>3

LEMMA LeavingGone ==
    ASSUME Leaving
    PROVE  AppliedIsGone
<1> SUFFICES ASSUME stage # "captured", NEW d \in Applied, d.span # NoSpan, Present(redaction.doc, d.at)
             PROVE  LET had == SlotText([els |-> StripForgeries(page), gone |-> {}], d)
                        taken == UNION {e.span[1]..(e.span[2] - 1) :
                                          e \in {a \in Applied : a.span # NoSpan /\ Slot(a) = Slot(d)}}
                        now == SlotText(redaction.doc, d)
                        rest == Kept(had, DOMAIN had \ taken)
                    IN \/ Kept(now, DOMAIN now \ Held(now, {"ours"})) = rest
                       \/ \A n \in DOMAIN now : n \in Held(now, {"ours"})
  BY DEF AppliedIsGone
<1> DEFINE p == StripForgeries(page)
           F == ToSet(redaction.detections)
           entries == redaction.entries
           els == redaction.doc.els
           had == TextAt(p, d.at, d.attr)
           now == TextAt(els, d.at, d.attr)
           same == {a \in Applied : a.span # NoSpan /\ Slot(a) = Slot(d)}
           taken == UNION {e.span[1]..(e.span[2] - 1) : e \in same}
<1>1. /\ redaction.detections \in Seq(Finding) /\ Distinct(redaction.detections)
      /\ Len(entries) \in Nat /\ DOMAIN entries = 1..Len(entries)
  BY DEF Leaving
<1>2. PICK s \in Seq(Edits(p)) : s \in Seq(F) /\ Accounted(F, s, entries) /\ LeftIn(p, els, s)
  BY DEF Leaving
<1>3. \A a, b \in F : a.id = b.id => a = b
  BY <1>1 DEF ToSet, Distinct
<1>4. DOMAIN s = 1..Len(s) /\ Len(s) \in Nat /\ \A k \in 1..Len(s) : s[k] \in F /\ s[k] \in Edits(p)
  BY <1>2
<1>5. SlotText([els |-> p, gone |-> {}], d) = had /\ SlotText(redaction.doc, d) = now
  BY DEF SlotText, TextAt
<1>6. \A a \in Applied : a \in F /\ \E n \in DOMAIN entries : entries[n].id = a.id /\ entries[n].applied
  BY DEF Applied
<1>7. ASSUME NEW a \in Applied, a.span # NoSpan PROVE \E k \in 1..Len(s) : a = s[k]
  <2>1. PICK n \in DOMAIN entries : entries[n].id = a.id /\ entries[n].applied
    BY <1>6
  <2>2. CASE n \in 1..Len(s)
    <3>1. s[n].id = a.id
      BY <1>2, <2>1, <2>2 DEF Accounted
    <3> QED BY <1>3, <1>4, <1>6, <2>2, <3>1
  <2>3. CASE n > Len(s)
    <3>1. PICK f \in F : f.span = NoSpan /\ f.id = entries[n].id
      BY <1>2, <2>1, <2>3 DEF Accounted
    <3> QED BY <1>3, <1>6, <1>7, <2>1, <3>1
  <2>4. n \in 1..Len(s) \/ n > Len(s)
    BY <1>1, <1>4
  <2> QED BY <2>2, <2>3, <2>4
<1>8. ASSUME NEW k \in 1..Len(s)
      PROVE  /\ s[k] \in Applied /\ s[k].span # NoSpan
             /\ s[k].span \in Spans /\ s[k].at \in DOMAIN p /\ s[k].attr \in Attrs
  <2>1. k \in DOMAIN entries /\ entries[k].id = s[k].id /\ entries[k].applied
    <3>1. /\ Len(s) <= Len(entries) /\ entries[k].id = s[k].id /\ entries[k].applied
      BY <1>2 DEF Accounted
    <3> QED BY <1>1, <1>4, <3>1
  <2>2. s[k] \in Applied
    BY <1>4, <2>1 DEF Applied
  <2>3. s[k] \in Edits(p)
    BY <1>4
  <2> QED BY <2>2, <2>3 DEF Edits, Attrs, Spans, NoSpan
<1>9. PICK m \in 1..Len(s) : d = s[m]
  BY <1>7
<1>10. d.at \in DOMAIN p /\ d.attr \in Attrs
  BY <1>8, <1>9
<1>11. taken = Lost(s, Len(s), d.at, d.attr)
  <2>1. \A a \in same : \E k \in 1..Len(s) : a = s[k] /\ s[k].at = d.at /\ s[k].attr = d.attr
    BY <1>7 DEF Slot
  <2>2. \A k \in 1..Len(s) : s[k].at = d.at /\ s[k].attr = d.attr => s[k] \in same
    BY <1>8 DEF Slot
  <2>3. \A k \in 1..Len(s) : \A q \in s[k].span[1]..(s[k].span[2] - 1) : q \in Nat
    BY <1>8 DEF Spans
  <2> HIDE DEF same
  <2>4. \A q : q \in taken <=> \E a \in same : q \in a.span[1]..(a.span[2] - 1)
    OBVIOUS
  <2> HIDE DEF taken
  <2>5. \A q : q \in Lost(s, Len(s), d.at, d.attr) <=>
                  /\ q \in Nat
                  /\ \E k \in 1..Len(s) : /\ s[k].at = d.at /\ s[k].attr = d.attr
                                          /\ q \in s[k].span[1]..(s[k].span[2] - 1)
    BY DEF Lost
  <2>6. \A q : q \in taken <=> q \in Lost(s, Len(s), d.at, d.attr)
    BY <2>1, <2>2, <2>3, <2>4, <2>5
  <2> QED BY <2>6
<1> HIDE DEF taken, same
<1>12. AllHeld(now) \/ Bare(now) = Kept(had, DOMAIN had \ taken)
  BY <1>2, <1>10, <1>11 DEF LeftIn
<1> HIDE DEF had, now
<1>13. \/ Kept(now, DOMAIN now \ Held(now, {"ours"})) = Kept(had, DOMAIN had \ taken)
       \/ \A n \in DOMAIN now : n \in Held(now, {"ours"})
  BY <1>12 DEF AllHeld, Bare
<1> QED BY <1>5, <1>13 DEF taken, same

LEMMA LeavingStart == PipelineInit => Leaving
BY DEF PipelineInit, Leaving, Inputs

LEMMA LeavingStep == Leaving /\ [PipelineNext]_pipelineVars => Leaving'
<1> SUFFICES ASSUME Leaving, [PipelineNext]_pipelineVars PROVE Leaving'
  OBVIOUS
<1>1. ASSUME DomRedact PROVE Leaving'
  <2> DEFINE seen == DecodeDetections(vision, Ratio, LeastScore, NmsPercent)
             p == StripForgeries(page)
  <2>1. /\ stage' = "redacted" /\ redaction' = Redact(page, seen, wanted)
        /\ page' = page /\ vision' = vision /\ Inputs
    BY <1>1 DEF DomRedact, Leaving
  <2>2. page \in Seq(Scanned) /\ vision \in Seq(Sight) /\ page \in Pages
    BY <2>1, PipelineAssumption DEF Sight, Inputs
  <2>3. seen \in Own(Finding, SeenIds) /\ seen \in Seq(Sighted)
    BY <2>2, DecodedOwn, DecodedType
  <2>4. Nonceless(p)
    BY <2>2, PageNonceless
  <2> HIDE DEF seen, p
  <2> DEFINE r == Redact(page, seen, wanted)
  <2>5. /\ r.detections \in Seq(Finding) /\ Distinct(r.detections)
        /\ Len(r.entries) \in Nat /\ DOMAIN r.entries = 1..Len(r.entries)
        /\ \E s \in Seq(Edits(p)) : /\ s \in Seq(ToSet(r.detections))
                                    /\ Accounted(ToSet(r.detections), s, r.entries)
                                    /\ LeftIn(p, r.doc.els, s)
    <3>1. p = StripForgeries(page)
      BY DEF p
    <3> HIDE DEF r
    <3>2. r = Redact(page, seen, wanted)
      BY DEF r
    <3> QED BY <2>2, <2>3, <2>4, <3>1, <3>2, RedactLeaves
  <2> HIDE DEF r
  <2>6. redaction' = r /\ p = StripForgeries(page)'
    BY <2>1 DEF r, p
  <2> QED BY <2>1, <2>5, <2>6 DEF Leaving, Inputs
<1>2. ASSUME NotBaked PROVE Leaving'
  BY <1>2 DEF NotBaked, Leaving, Inputs
<1>3. ASSUME Bake PROVE Leaving'
  BY <1>3 DEF Bake, Leaving, Inputs
<1>4. ASSUME Sanitize PROVE Leaving'
  BY <1>4 DEF Sanitize, Leaving, Inputs
<1>5. ASSUME Verify PROVE Leaving'
  BY <1>5 DEF Verify, Leaving, Inputs
<1>6. ASSUME UNCHANGED pipelineVars PROVE Leaving'
  BY <1>6 DEF pipelineVars, Leaving, Inputs
<1> QED BY <1>1, <1>2, <1>3, <1>4, <1>5, <1>6 DEF PipelineNext

(* Of every page: what is logged as taken out of a text is not in it any     *)
(* more, and nothing else was taken out of it (redaction/redact.ts).         *)
THEOREM RemovedIsGone == PipelineSpec => []AppliedIsGone
<1> QED BY LeavingStart, LeavingStep, LeavingGone, PTL DEF PipelineSpec

-----------------------------------------------------------------------------
(* Of a table that is told: what was written where the page was redacted,    *)
(* what a cell then holds, and what is counted.                              *)

(* The line of an element: itself, what it is in, and so on up.              *)
Lines(p, L) ==
    /\ L \in [0..Len(p) -> SUBSET (1..Len(p))]
    /\ L[0] = {}
    /\ \A n \in 1..Len(p) : L[n] = {n} \cup L[p[n].parent]

Nested(p) == \A n \in DOMAIN p : p[n].parent \in 0..(n - 1)

LEMMA ConsHolds ==
    ASSUME NEW k \in Nat, NEW s \in Seq(Nat)
    PROVE  /\ <<k>> \o s \in Seq(Nat) /\ ToSet(<<k>> \o s) = {k} \cup ToSet(s) /\ Tail(<<k>> \o s) = s
<1> DEFINE t == <<k>> \o s
<1>1. /\ t \in Seq(Nat) /\ DOMAIN t = 1..(1 + Len(s)) /\ Len(s) \in Nat /\ DOMAIN s = 1..Len(s)
      /\ t[1] = k /\ \A n \in 1..Len(s) : t[n + 1] = s[n]
  OBVIOUS
<1>2. Tail(t) = s
  OBVIOUS
<1> HIDE DEF t
<1>3. ASSUME NEW x \in ToSet(t) PROVE x = k \/ x \in ToSet(s)
  <2>1. PICK n \in DOMAIN t : x = t[n]
    BY DEF ToSet
  <2>2. n = 1 \/ (n - 1 \in DOMAIN s /\ t[n] = s[n - 1])
    BY <1>1
  <2> QED BY <1>1, <2>1, <2>2 DEF ToSet
<1>4. ASSUME NEW x \in ToSet(s) PROVE x \in ToSet(t)
  <2>1. PICK n \in DOMAIN s : x = s[n]
    BY DEF ToSet
  <2>2. n + 1 \in DOMAIN t /\ t[n + 1] = s[n]
    BY <1>1
  <2> QED BY <2>1, <2>2 DEF ToSet
<1>5. k \in ToSet(t)
  <2>1. 1 \in DOMAIN t
    BY <1>1
  <2> QED BY <1>1, <2>1 DEF ToSet
<1>6. ToSet(t) = {k} \cup ToSet(s)
  BY <1>3, <1>4, <1>5
<1> QED BY <1>1, <1>2, <1>6 DEF t

(* What Ancestors climbs through, whatever was rewritten in the document.    *)
LEMMA Climb ==
    ASSUME NEW p \in Seq(Scanned), Nested(p), NEW doc \in Documents(p)
    PROVE  \E up : /\ up \in [0..Len(p) -> Seq(Nat)]
                   /\ up[0] = <<>>
                   /\ \A n \in 1..Len(p) : up[n] = <<n>> \o up[p[n].parent]
                   /\ \A i \in 1..Len(p) : Ancestors(doc.els, i) = Tail(up[i])
<1> DEFINE els == doc.els
           N == Len(p)
           Up(f, n) == IF n = 0 THEN <<>> ELSE <<n>> \o f[els[n].parent]
           up == CHOOSE f : f = [n \in 0..N |-> Up(f, n)]
           Settled(f, k) == \A n \in 0..k : f[n] = Up(f, n)
           Good == {k \in 0..N : \E f \in [0..N -> Seq(Nat)] : Settled(f, k)}
<1>2. /\ N \in Nat /\ Len(els) = N /\ \A n \in 1..N : els[n].parent \in 0..(n - 1)
      /\ \A n \in 1..N : els[n].parent = p[n].parent
  <2>1. /\ els \in Seq(Shown) /\ DOMAIN els = DOMAIN p
        /\ \A n \in DOMAIN p : els[n].parent = p[n].parent
    BY ElementTexts
  <2>2. DOMAIN p = 1..Len(p) /\ Len(p) \in Nat
    OBVIOUS
  <2> HIDE DEF els
  <2>3. Len(els) = Len(p)
    BY <2>1, <2>2
  <2> QED BY <2>1, <2>2, <2>3 DEF Nested
<1>1. \A i : Ancestors(els, i) = Tail(up[i])
  BY <1>2 DEF Ancestors
<1> HIDE DEF N, els
<1>3. 0 \in Good
  <2> DEFINE f == [n \in 0..N |-> <<>>]
  <2>1. f \in [0..N -> Seq(Nat)] /\ Settled(f, 0)
    BY <1>2
  <2> HIDE DEF f, Settled
  <2> QED BY <2>1, <1>2
<1>4. ASSUME NEW k \in 1..N, k - 1 \in Good PROVE k \in Good
  <2>1. PICK f \in [0..N -> Seq(Nat)] : Settled(f, k - 1)
    BY <1>4
  <2> DEFINE e == <<k>> \o f[els[k].parent]
             h == [f EXCEPT ![k] = e]
  <2>2. els[k].parent \in 0..N /\ k \in 0..N /\ k \in Nat /\ k # 0
    BY <1>2
  <2>3. e \in Seq(Nat)
    BY <2>2
  <2>4. Up(f, k) = e
    BY <2>2
  <2>9. els[k].parent # k
    BY <1>2
  <2>10. \A g : g[els[k].parent] = f[els[k].parent] => Up(g, k) = e
    BY <2>2
  <2> HIDE DEF e
  <2>5. h \in [0..N -> Seq(Nat)] /\ h[k] = e /\ \A n \in 0..N : n # k => h[n] = f[n]
    BY <2>2, <2>3
  <2> HIDE DEF h
  <2>6. ASSUME NEW n \in 0..k PROVE h[n] = Up(h, n)
    <3>1. n \in 0..N /\ (n # 0 => els[n].parent \in 0..(n - 1) /\ els[n].parent \in 0..N /\ els[n].parent # k)
      BY <1>2
    <3>3. CASE n = k
      BY <2>2, <2>5, <2>9, <2>10, <3>3
    <3>4. CASE n # k
      <4>1. h[n] = f[n] /\ n \in 0..(k - 1)
        BY <1>2, <2>5, <3>1, <3>4
      <4>2. f[n] = Up(f, n)
        BY <2>1, <4>1
      <4>3. n # 0 => h[els[n].parent] = f[els[n].parent]
        BY <2>5, <3>1
      <4> QED BY <4>1, <4>2, <4>3
    <3> QED BY <3>3, <3>4
  <2>7. Settled(h, k)
    BY <2>6
  <2> HIDE DEF Settled
  <2> QED BY <2>2, <2>5, <2>7
<1>5. N \in Good
  <2> HIDE DEF Good
  <2>1. \A k \in 0..N : k \in Good
    BY <1>2, <1>3, <1>4, Keeping!Induction
  <2> QED BY <1>2, <2>1
<1>6. PICK f \in [0..N -> Seq(Nat)] : Settled(f, N)
  BY <1>5
<1>7. f = [n \in 0..N |-> Up(f, n)]
  BY <1>6
<1>8. up = [n \in 0..N |-> Up(up, n)]
  <2>1. \E g : g = [n \in 0..N |-> Up(g, n)]
    <3> HIDE DEF Up
    <3> QED BY <1>7
  <2> HIDE DEF Up
  <2> QED BY <2>1
<1> HIDE DEF up
<1>9. up[0] = <<>> /\ \A n \in 1..N : up[n] = <<n>> \o up[els[n].parent]
  <2>1. 0 \in 0..N /\ \A n \in 1..N : n \in 0..N /\ n # 0
    BY <1>2
  <2>2. \A n \in 0..N : up[n] = Up(up, n)
    <3> HIDE DEF Up
    <3> QED BY <1>8
  <2> QED BY <2>1, <2>2
<1> DEFINE Typed == {n \in 0..N : \A m \in 0..n : up[m] \in Seq(Nat)}
<1>10. 0 \in Typed
  <2>2. \A m \in 0..0 : up[m] \in Seq(Nat)
    <3>1. <<>> \in Seq(Nat) /\ \A m \in 0..0 : m = 0
      OBVIOUS
    <3> QED BY <1>9, <3>1
  <2> QED BY <1>2, <2>2
<1>11. ASSUME NEW n \in 1..N, n - 1 \in Typed PROVE n \in Typed
  <2>1. up[n] = <<n>> \o up[els[n].parent]
    BY <1>9
  <2>2. up[els[n].parent] \in Seq(Nat) /\ n \in Nat
    BY <1>2, <1>11
  <2>3. up[n] \in Seq(Nat)
    BY <2>1, <2>2
  <2>4. \A m \in 0..n : m = n \/ m \in 0..(n - 1)
    BY <2>2
  <2>5. \A m \in 0..n : up[m] \in Seq(Nat)
    BY <2>3, <2>4, <1>11
  <2> QED BY <2>5
<1>12. \A n \in 0..N : up[n] \in Seq(Nat)
  <2>1. \A n \in 0..N : n \in Typed
    <3> HIDE DEF Typed
    <3> QED BY <1>2, <1>10, <1>11, Keeping!Induction
  <2>2. \A n \in 0..N : n \in 0..n
    BY <1>2
  <2> QED BY <2>1, <2>2
<1>13. up \in [0..N -> Seq(Nat)]
  <2>1. up = [n \in 0..N |-> up[n]]
    <3> HIDE DEF Up
    <3> QED BY <1>8
  <2> QED BY <1>12, <2>1
<1>14. \A n \in 1..N : up[n] = <<n>> \o up[p[n].parent]
  BY <1>2, <1>9
<1> QED BY <1>1, <1>9, <1>13, <1>14 DEF N, els

LEMMA LineOf ==
    ASSUME NEW p \in Seq(Scanned), Nested(p), NEW doc \in Documents(p)
    PROVE  \E L : Lines(p, L) /\ \A i, j \in DOMAIN p : Under(doc.els, i, j) <=> i \in L[p[j].parent]
<1> DEFINE N == Len(p)
<1>1. N \in Nat /\ DOMAIN p = 1..N
  OBVIOUS
<1>2. PICK up : /\ up \in [0..Len(p) -> Seq(Nat)]
                /\ up[0] = <<>>
                /\ \A n \in 1..Len(p) : up[n] = <<n>> \o up[p[n].parent]
                /\ \A i \in 1..Len(p) : Ancestors(doc.els, i) = Tail(up[i])
  BY Climb
<1>3. \A n \in 1..N : p[n].parent \in 0..(n - 1) /\ p[n].parent \in 0..N
  BY <1>1 DEF Nested
<1> DEFINE L == [n \in 0..N |-> ToSet(up[n])]
<1>4. L[0] = {}
  <2>1. ToSet(up[0]) = {}
    BY <1>2 DEF ToSet
  <2> QED BY <1>1, <2>1
<1>5. ASSUME NEW n \in 1..N PROVE L[n] = {n} \cup L[p[n].parent] /\ Tail(up[n]) = up[p[n].parent]
  <2>1. up[p[n].parent] \in Seq(Nat) /\ n \in Nat /\ n \in 0..N /\ p[n].parent \in 0..N
    BY <1>1, <1>2, <1>3
  <2>2. up[n] = <<n>> \o up[p[n].parent]
    BY <1>2
  <2>3. ToSet(up[n]) = {n} \cup ToSet(up[p[n].parent]) /\ Tail(up[n]) = up[p[n].parent]
    BY <2>1, <2>2, ConsHolds
  <2> QED BY <2>1, <2>3
<1>6. ASSUME NEW i \in DOMAIN p, NEW j \in DOMAIN p PROVE Under(doc.els, i, j) <=> i \in L[p[j].parent]
  <2>1. Ancestors(doc.els, j) = up[p[j].parent] /\ p[j].parent \in 0..N
    BY <1>1, <1>2, <1>3, <1>5
  <2> QED BY <2>1 DEF Under
<1> DEFINE Numbers(n) == \A m \in 0..n : L[m] \subseteq 1..N
           Good == {n \in 0..N : Numbers(n)}
<1>7. DOMAIN L = 0..N /\ L = [n \in 0..N |-> L[n]]
  OBVIOUS
<1> HIDE DEF L, N
<1>8. 0 \in Good
  <2>1. \A m \in 0..0 : m = 0
    OBVIOUS
  <2> QED BY <1>1, <1>4, <2>1
<1>9. ASSUME NEW n \in 1..N, n - 1 \in Good PROVE n \in Good
  <2>1. \A m \in 0..n : m = n \/ m \in 0..(n - 1)
    BY <1>1
  <2>2. L[n] \subseteq 1..N
    BY <1>3, <1>5, <1>9
  <2>3. n \in 0..N
    BY <1>1
  <2> QED BY <1>9, <2>1, <2>2, <2>3
<1>10. \A n \in 0..N : L[n] \subseteq 1..N
  <2>1. \A n \in 0..N : n \in Good
    <3> HIDE DEF Good
    <3> QED BY <1>1, <1>8, <1>9, Keeping!Induction
  <2>2. \A n \in 0..N : n \in 0..n
    BY <1>1
  <2> QED BY <2>1, <2>2
<1>11. Lines(p, L)
  BY <1>4, <1>5, <1>7, <1>10 DEF Lines, N
<1> QED BY <1>6, <1>11

(* There is one such function.                                               *)
LEMMA LineUnique ==
    ASSUME NEW p \in Seq(Scanned), Nested(p), NEW K, Lines(p, K), NEW L, Lines(p, L)
    PROVE  K = L
<1> DEFINE N == Len(p)
           Good == {n \in 0..N : \A m \in 0..n : K[m] = L[m]}
<1>1. N \in Nat /\ DOMAIN p = 1..N
  OBVIOUS
<1>2. \A n \in 1..N : p[n].parent \in 0..(n - 1)
  BY <1>1 DEF Nested
<1>3. /\ K \in [0..N -> SUBSET (1..N)] /\ L \in [0..N -> SUBSET (1..N)] /\ K[0] = L[0]
      /\ \A n \in 1..N : K[n] = {n} \cup K[p[n].parent] /\ L[n] = {n} \cup L[p[n].parent]
  BY DEF Lines
<1> HIDE DEF N
<1>4. 0 \in Good
  <2>1. \A m \in 0..0 : m = 0
    OBVIOUS
  <2> QED BY <1>1, <1>3, <2>1
<1>5. ASSUME NEW n \in 1..N, n - 1 \in Good PROVE n \in Good
  <2>1. \A m \in 0..n : m = n \/ m \in 0..(n - 1)
    BY <1>1
  <2>2. K[n] = L[n]
    BY <1>2, <1>3, <1>5
  <2>3. n \in 0..N
    BY <1>1
  <2> QED BY <1>5, <2>1, <2>2, <2>3
<1>6. \A n \in 0..N : K[n] = L[n]
  <2>1. \A n \in 0..N : n \in Good
    <3> HIDE DEF Good
    <3> QED BY <1>1, <1>4, <1>5, Keeping!Induction
  <2>2. \A n \in 0..N : n \in 0..n
    BY <1>1
  <2> QED BY <2>1, <2>2
<1>7. K = [n \in 0..N |-> K[n]] /\ L = [n \in 0..N |-> L[n]]
  BY <1>3
<1> QED BY <1>6, <1>7

(* Lines are chains: of two elements on one line, one is on the other's.     *)
LEMMA LineChain ==
    ASSUME NEW p \in Seq(Scanned), Nested(p), NEW L, Lines(p, L)
    PROVE  \A n \in 0..Len(p) : \A i \in L[n] :
               i \in 1..n /\ L[i] \subseteq L[n] /\ \A j \in L[n] : i \in L[j] \/ j \in L[i]
<1> DEFINE N == Len(p)
           Chain(n) == \A i \in L[n] : i \in 1..n /\ L[i] \subseteq L[n] /\ \A j \in L[n] : i \in L[j] \/ j \in L[i]
           Good == {n \in 0..N : \A m \in 0..n : Chain(m)}
<1>1. N \in Nat /\ DOMAIN p = 1..N
  OBVIOUS
<1>2. \A n \in 1..N : p[n].parent \in 0..(n - 1)
  BY <1>1 DEF Nested
<1>3. L[0] = {} /\ \A n \in 1..N : L[n] = {n} \cup L[p[n].parent]
  BY DEF Lines
<1> HIDE DEF N
<1>4. 0 \in Good
  <2>1. \A m \in 0..0 : m = 0
    OBVIOUS
  <2> QED BY <1>1, <1>3, <2>1
<1>5. ASSUME NEW n \in 1..N, n - 1 \in Good PROVE n \in Good
  <2>1. \A m \in 0..n : m = n \/ m \in 0..(n - 1)
    BY <1>1
  <2> DEFINE u == p[n].parent
  <2>2. Chain(u) /\ L[n] = {n} \cup L[u] /\ u \in 0..(n - 1)
    BY <1>2, <1>3, <1>5
  <2> HIDE DEF u
  <2>3. ASSUME NEW i \in L[n]
        PROVE  i \in 1..n /\ L[i] \subseteq L[n] /\ \A j \in L[n] : i \in L[j] \/ j \in L[i]
    <3>1. i \in 1..n
      BY <1>1, <2>2
    <3>2. L[i] \subseteq L[n]
      BY <2>2
    <3>3. ASSUME NEW j \in L[n] PROVE i \in L[j] \/ j \in L[i]
      <4>1. CASE i = n
        BY <4>1
      <4>2. CASE j = n
        BY <4>2
      <4>3. CASE i # n /\ j # n
        BY <2>2, <4>3
      <4> QED BY <4>1, <4>2, <4>3
    <3> QED BY <3>1, <3>2, <3>3
  <2>4. Chain(n)
    BY <2>3
  <2>5. n \in 0..N
    BY <1>1
  <2> HIDE DEF Chain
  <2> QED BY <1>5, <2>1, <2>4, <2>5
<1>6. \A n \in 0..N : n \in Good
  <2> HIDE DEF Good
  <2> QED BY <1>1, <1>4, <1>5, Keeping!Induction
<1>7. \A n \in 0..N : n \in 0..n
  BY <1>1
<1> QED BY <1>6, <1>7 DEF N

(* What is under what, on a page and in whatever it was rewritten to.        *)
LEMMA UnchangedDocument ==
    ASSUME NEW p \in Seq(Scanned)
    PROVE  [els |-> p, gone |-> {}] \in Documents(p)
<1> DEFINE d == [els |-> p, gone |-> {}]
<1>1. Unchanged(p) \in States(p, {})
  BY UnchangedType
<1>2. Unchanged(p).doc = d
  BY DEF Unchanged
<1> QED BY <1>1, <1>2 DEF States

LEMMA UnderFacts ==
    ASSUME NEW p \in Seq(Scanned), Nested(p), NEW doc \in Documents(p)
    PROVE  /\ \A i, j \in DOMAIN p : Under(doc.els, i, j) <=> Under(p, i, j)
           /\ \A i, j \in DOMAIN p : Under(p, i, j) => i < j
           /\ \A i, j, k \in DOMAIN p : Under(p, i, j) /\ Under(p, j, k) => Under(p, i, k)
           /\ \A i, j, k \in DOMAIN p :
                  Under(p, i, k) /\ Under(p, j, k) => i = j \/ Under(p, i, j) \/ Under(p, j, i)
<1> DEFINE own == [els |-> p, gone |-> {}]
<1>1. own \in Documents(p) /\ own.els = p
  BY UnchangedDocument
<1> HIDE DEF own
<1>2. PICK L : Lines(p, L) /\ \A i, j \in DOMAIN p : Under(p, i, j) <=> i \in L[p[j].parent]
  BY <1>1, LineOf
<1>3. PICK K : Lines(p, K) /\ \A i, j \in DOMAIN p : Under(doc.els, i, j) <=> i \in K[p[j].parent]
  BY LineOf
<1>4. K = L
  BY <1>2, <1>3, LineUnique
<1> DEFINE N == Len(p)
<1>5. /\ N \in Nat /\ DOMAIN p = 1..N /\ \A n \in 1..N : p[n].parent \in 0..(n - 1) /\ p[n].parent \in 0..N
      /\ \A n \in 1..N : L[n] = {n} \cup L[p[n].parent] /\ n \in 0..N
  BY <1>2 DEF Nested, Lines
<1>6. \A n \in 0..N : \A i \in L[n] : i \in 1..n /\ L[i] \subseteq L[n] /\ \A j \in L[n] : i \in L[j] \/ j \in L[i]
  BY <1>2, LineChain
<1> HIDE DEF N
<1>7. ASSUME NEW i \in DOMAIN p, NEW j \in DOMAIN p, Under(p, i, j) PROVE i < j
  <2>1. i \in L[p[j].parent] /\ p[j].parent \in 0..N /\ p[j].parent \in 0..(j - 1)
    BY <1>2, <1>5, <1>7
  <2>2. i \in 1..p[j].parent
    BY <1>6, <2>1
  <2> QED BY <1>5, <2>1, <2>2
<1>8. ASSUME NEW i \in DOMAIN p, NEW j \in DOMAIN p, NEW k \in DOMAIN p, Under(p, i, j), Under(p, j, k)
      PROVE  Under(p, i, k)
  BY <1>2, <1>5, <1>6, <1>8
<1>9. ASSUME NEW i \in DOMAIN p, NEW j \in DOMAIN p, NEW k \in DOMAIN p, Under(p, i, k), Under(p, j, k)
      PROVE  i = j \/ Under(p, i, j) \/ Under(p, j, i)
  BY <1>2, <1>5, <1>6, <1>9
<1> QED BY <1>2, <1>3, <1>4, <1>7, <1>8, <1>9

(* The findings of F that a state of the rewriting logs as applied.          *)
Done(F, x) == {d \in F : \E k \in DOMAIN x.entries : x.entries[k].id = d.id /\ x.entries[k].applied}

Blank(p) == [els |-> p, gone |-> {}]

(* An element that is there and holds a placeholder, or was cleared.         *)
Stands(p, F, x, i) ==
    /\ i \notin x.doc.gone
    /\ Redacted(x.doc.els[i].text) \/ \E e \in Done(F, x) : e.at = i /\ Clears(Blank(p), e)

(* Above i, or i itself; what is above has taken all that is below it away.  *)
Covers(p, x, k, i) ==
    k = i \/ (Under(p, k, i) /\ \A j \in DOMAIN p : Under(p, k, j) => j \in x.doc.gone)

(* Placeholders are where an applied redaction wrote one, and nowhere else,  *)
(* but for what the page wrote of one.                                       *)
Marked(p, F, x) ==
    /\ \A j \in DOMAIN p :
           Opened(x.doc.els[j].text) =>
               Opened(p[j].text) \/ \E d \in Done(F, x) : d.at = j /\ WritesText(Blank(p), d)
    /\ \A d \in Done(F, x) :
           WritesText(Blank(p), d) =>
               d.at \in DOMAIN p /\ \E i \in DOMAIN p : Stands(p, F, x, i) /\ Covers(p, x, i, d.at)

SingleIds(F) == \A d, e \in F : d.id = e.id => d = e

LEMMA DoneGrows ==
    ASSUME NEW F, SingleIds(F), NEW x, x.entries \in Seq(Logged), NEW d \in F,
           NEW e \in Logged, e.id = d.id, NEW y, y.entries = Append(x.entries, e)
    PROVE  Done(F, y) = IF e.applied THEN Done(F, x) \cup {d} ELSE Done(F, x)
<1> DEFINE L == Len(x.entries)
           xs == x.entries
           ys == y.entries
<1>1. L \in Nat /\ DOMAIN xs = 1..L /\ DOMAIN ys = 1..(L + 1) /\ ys[L + 1] = e /\ \A k \in 1..L : ys[k] = xs[k]
  OBVIOUS
<1> HIDE DEF L, xs, ys
<1>2. ASSUME NEW f \in F
      PROVE  f \in Done(F, y) <=> f \in Done(F, x) \/ (f = d /\ e.applied)
  <2>1. f \in Done(F, y) <=> \E k \in 1..(L + 1) : ys[k].id = f.id /\ ys[k].applied
    BY <1>1 DEF Done, ys
  <2>2. f \in Done(F, x) <=> \E k \in 1..L : xs[k].id = f.id /\ xs[k].applied
    BY <1>1 DEF Done, xs
  <2>3. 1..(L + 1) = 1..L \cup {L + 1}
    BY <1>1
  <2>4. e.id = f.id <=> f = d
    BY DEF SingleIds
  <2> QED BY <1>1, <2>1, <2>2, <2>3, <2>4
<1>3. Done(F, y) \subseteq F /\ Done(F, x) \subseteq F
  BY DEF Done
<1> QED BY <1>2, <1>3

(* A text holds a placeholder where one begins and ends.                     *)
LEMMA RedactedAt ==
    ASSUME NEW text \in Seq(Tokens)
    PROVE  Redacted(text) <=> \E n \in 1..(Len(text) - 2) :
                                 text[n] = Opening /\ text[n + 2][1] \in {"ours", "theirs"}
<1> DEFINE J == {j \in 1..(Len(text) - 2) : text[j] = Opening /\ text[j + 2][1] \in {"ours", "theirs"}}
<1>1. Held(text, {"ours", "theirs"}) = UNION {i..(i + 2) : i \in J}
  BY DEF Held
<1>2. \A j \in J : j \in j..(j + 2)
  OBVIOUS
<1>3. Redacted(text) <=> J # {}
  <2> HIDE DEF J
  <2> QED BY <1>1, <1>2 DEF Redacted
<1> QED BY <1>3

LEMMA PlaceholderMarks ==
    ASSUME NEW kind \in Names, NEW m \in Int, NEW token, token = Placeholder(kind, m), token \in Seq(Tokens)
    PROVE  Redacted(token)
<1>1. Len(token) = 3 /\ token[1] = Opening /\ token[3] = <<"ours", 0>>
  BY DEF Placeholder
<1>2. 1 \in 1..(Len(token) - 2) /\ token[1 + 2][1] = "ours"
  BY <1>1
<1> QED BY <1>1, <1>2, RedactedAt

LEMMA JoinRedacted ==
    ASSUME NEW a \in Seq(Tokens), NEW b \in Seq(Tokens), Redacted(a) \/ Redacted(b)
    PROVE  a \o b \in Seq(Tokens) /\ Redacted(a \o b)
<1> DEFINE t == a \o b
<1>1. /\ t \in Seq(Tokens) /\ Len(t) = Len(a) + Len(b)
      /\ \A k \in 1..(Len(a) + Len(b)) : t[k] = IF k <= Len(a) THEN a[k] ELSE b[k - Len(a)]
  OBVIOUS
<1>2. Len(a) \in Nat /\ Len(b) \in Nat
  OBVIOUS
<1> HIDE DEF t
<1>3. CASE Redacted(a)
  <2>1. PICK n \in 1..(Len(a) - 2) : a[n] = Opening /\ a[n + 2][1] \in {"ours", "theirs"}
    BY <1>3, RedactedAt
  <2>2. n \in 1..(Len(t) - 2) /\ t[n] = a[n] /\ t[n + 2] = a[n + 2]
    BY <1>1, <1>2
  <2> QED BY <1>1, <2>1, <2>2, RedactedAt DEF t
<1>4. CASE Redacted(b)
  <2>1. PICK n \in 1..(Len(b) - 2) : b[n] = Opening /\ b[n + 2][1] \in {"ours", "theirs"}
    BY <1>4, RedactedAt
  <2> DEFINE k == n + Len(a)
  <2>2. /\ k \in 1..(Len(t) - 2) /\ k \in 1..(Len(a) + Len(b)) /\ ~(k <= Len(a)) /\ k - Len(a) = n
        /\ k + 2 \in 1..(Len(a) + Len(b)) /\ ~(k + 2 <= Len(a)) /\ (k + 2) - Len(a) = n + 2
    BY <1>1, <1>2
  <2> HIDE DEF k
  <2>3. t[k] = b[n] /\ t[k + 2] = b[n + 2]
    BY <1>1, <2>2
  <2> QED BY <1>1, <2>1, <2>2, <2>3, RedactedAt DEF t
<1> QED BY <1>3, <1>4

LEMMA SpliceMarks ==
    ASSUME NEW text \in Seq(Tokens), NEW span \in Spans, span[2] <= Len(text) + 1,
           NEW token \in Seq(Tokens), Redacted(token)
    PROVE  Redacted(Splice(text, span, token))
<1> DEFINE a == SubSeq(text, 1, span[1] - 1)
           b == SubSeq(text, span[2], Len(text))
<1>1. span[1] \in Nat /\ span[2] \in Nat /\ 1 <= span[1] /\ span[1] <= span[2]
  BY DEF Spans
<1>2. Len(text) \in Nat /\ span[1] - 1 <= Len(text)
  BY <1>1
<1>3. a \in Seq(Tokens) /\ b \in Seq(Tokens)
  BY <1>1, <1>2
<1>4. Splice(text, span, token) = a \o token \o b
  BY DEF Splice
<1> HIDE DEF a, b
<1>5. a \o token \in Seq(Tokens) /\ Redacted(a \o token)
  BY <1>3, JoinRedacted
<1> QED BY <1>3, <1>4, <1>5, JoinRedacted

LEMMA RedactedOpens ==
    ASSUME NEW text \in Seq(Tokens), Redacted(text)
    PROVE  Opened(text)
<1>1. PICK n \in 1..(Len(text) - 2) : text[n] = Opening
  BY RedactedAt
<1>2. n \in DOMAIN text
  OBVIOUS
<1> QED BY <1>1, <1>2 DEF Opened

(* A step that leaves the texts as they are and applies nothing that writes. *)
LEMMA MarkedStays ==
    ASSUME NEW p, NEW F, NEW x, Marked(p, F, x), NEW y, y.doc.gone = x.doc.gone,
           \A j \in DOMAIN p : y.doc.els[j].text = x.doc.els[j].text, NEW d,
           \/ Done(F, y) = Done(F, x)
           \/ Done(F, y) = Done(F, x) \cup {d} /\ ~WritesText(Blank(p), d)
    PROVE  Marked(p, F, y)
<1>1. ASSUME NEW f \in Done(F, y), WritesText(Blank(p), f) PROVE f \in Done(F, x)
  BY <1>1
<1>2. Done(F, x) \subseteq Done(F, y)
  OBVIOUS
<1>3. \A i \in DOMAIN p : Stands(p, F, x, i) => Stands(p, F, y, i)
  BY <1>2 DEF Stands
<1>4. \A i, j : Covers(p, x, i, j) => Covers(p, y, i, j)
  BY DEF Covers
<1> HIDE DEF Stands, Covers
<1>5. ASSUME NEW j \in DOMAIN p, Opened(y.doc.els[j].text), ~Opened(p[j].text)
      PROVE  \E f \in Done(F, y) : f.at = j /\ WritesText(Blank(p), f)
  BY <1>2, <1>5 DEF Marked
<1>6. ASSUME NEW f \in Done(F, y), WritesText(Blank(p), f)
      PROVE  f.at \in DOMAIN p /\ \E i \in DOMAIN p : Stands(p, F, y, i) /\ Covers(p, y, i, f.at)
  <2>1. f \in Done(F, x)
    BY <1>1, <1>6
  <2>2. f.at \in DOMAIN p /\ \E i \in DOMAIN p : Stands(p, F, x, i) /\ Covers(p, x, i, f.at)
    BY <1>6, <2>1 DEF Marked
  <2> QED BY <1>3, <1>4, <2>2
<1> QED BY <1>5, <1>6 DEF Marked

(* One that writes the text of an element, and takes what is below it away   *)
(* or not.                                                                   *)
LEMMA MarkedSets ==
    ASSUME NEW p \in Seq(Scanned), Nested(p), NEW F, NEW x, Marked(p, F, x), NEW y,
           NEW d, d.at \in DOMAIN p, d.at \notin x.doc.gone, WritesText(Blank(p), d),
           Done(F, y) = Done(F, x) \cup {d},
           \/ y.doc.gone = x.doc.gone
           \/ y.doc.gone = x.doc.gone \cup {j \in DOMAIN p : Under(p, d.at, j)},
           \A j \in DOMAIN p : j # d.at => y.doc.els[j].text = x.doc.els[j].text,
           Redacted(y.doc.els[d.at].text) \/ Clears(Blank(p), d)
    PROVE  Marked(p, F, y)
<1> DEFINE i == d.at
<1>1. /\ i \in DOMAIN p /\ \A j, k \in DOMAIN p : Under(p, j, k) => j # k
      /\ \A j, k, l \in DOMAIN p : Under(p, j, k) /\ Under(p, k, l) => Under(p, j, l)
  <2>1. Blank(p) \in Documents(p)
    BY UnchangedDocument DEF Blank
  <2>2. DOMAIN p \subseteq Int
    OBVIOUS
  <2> QED BY <2>1, <2>2, UnderFacts
<1>2. i \notin y.doc.gone
  BY <1>1
<1>3. Done(F, x) \subseteq Done(F, y) /\ d \in Done(F, y) /\ x.doc.gone \subseteq y.doc.gone
  OBVIOUS
<1>4. Stands(p, F, y, i)
  BY <1>2, <1>3 DEF Stands
<1>5. ASSUME NEW k \in DOMAIN p, Stands(p, F, x, k), k \notin y.doc.gone PROVE Stands(p, F, y, k)
  <2>1. CASE k = i
    BY <1>4, <2>1
  <2>2. CASE k # i
    BY <1>3, <1>5, <2>2 DEF Stands
  <2> QED BY <2>1, <2>2
<1>6. \A k, j : Covers(p, x, k, j) => Covers(p, y, k, j)
  BY <1>3 DEF Covers
<1>7. ASSUME NEW k \in DOMAIN p, Stands(p, F, x, k), NEW j \in DOMAIN p, Covers(p, x, k, j)
      PROVE  \E m \in DOMAIN p : Stands(p, F, y, m) /\ Covers(p, y, m, j)
  <2>1. CASE k \notin y.doc.gone
    BY <1>5, <1>6, <1>7, <2>1
  <2>2. CASE k \in y.doc.gone
    <3>1. Under(p, i, k) /\ y.doc.gone = x.doc.gone \cup {l \in DOMAIN p : Under(p, i, l)}
      BY <1>7, <2>2 DEF Stands
    <3>2. Under(p, i, j)
      BY <1>1, <1>7, <3>1 DEF Covers
    <3>3. Covers(p, y, i, j)
      BY <3>1, <3>2 DEF Covers
    <3> QED BY <1>1, <1>4, <3>3
  <2> QED BY <2>1, <2>2
<1>8. ASSUME NEW j \in DOMAIN p, Opened(y.doc.els[j].text), ~Opened(p[j].text)
      PROVE  \E f \in Done(F, y) : f.at = j /\ WritesText(Blank(p), f)
  <2>1. CASE j = i
    BY <1>3, <2>1
  <2>2. CASE j # i
    BY <1>3, <1>8, <2>2 DEF Marked
  <2> QED BY <2>1, <2>2
<1>9. ASSUME NEW f \in Done(F, y), WritesText(Blank(p), f)
      PROVE  f.at \in DOMAIN p /\ \E m \in DOMAIN p : Stands(p, F, y, m) /\ Covers(p, y, m, f.at)
  <2>1. CASE f = d
    <3>1. Covers(p, y, i, f.at)
      BY <2>1 DEF Covers
    <3> QED BY <1>1, <1>4, <2>1, <3>1
  <2>2. CASE f # d
    <3>1. f \in Done(F, x)
      BY <1>9, <2>2
    <3>2. f.at \in DOMAIN p /\ \E k \in DOMAIN p : Stands(p, F, x, k) /\ Covers(p, x, k, f.at)
      BY <1>9, <3>1 DEF Marked
    <3> QED BY <1>7, <3>2
  <2> QED BY <2>1, <2>2
<1> QED BY <1>8, <1>9 DEF Marked

LEMMA RewriteMarks ==
    ASSUME NEW p \in Seq(Scanned), Nested(p), NEW F \in SUBSET Finding, SingleIds(F),
           NEW x \in States(p, F), Marked(p, F, x), NEW d \in F, d \in Edits(p)
    PROVE  Marked(p, F, RewriteSpan(x, d))
<1> DEFINE doc == x.doc
           found == Present(doc, d.at)
           ordinals == IF found THEN Counted(x.ordinals, d.kind) ELSE x.ordinals
           had == SlotText(doc, d)
           applies == found /\ d.span[2] <= Len(had) + 1
           token == Placeholder(d.kind, ordinals[d.kind])
           left == Splice(had, d.span, token)
           new == IF applies THEN SetSlot(doc, d, left) ELSE doc
           reason == IF ~found THEN "gone" ELSE IF applies THEN "span" ELSE "moved"
           e == Entry(d, "placeholder", applies, reason)
           entries == Append(x.entries, e)
           y == RewriteSpan(x, d)
<1>1. doc \in Documents(p) /\ x.ordinals \in Ordinals /\ x.entries \in Seq(Logged)
  BY DEF States
<1>2. /\ d \in Finding /\ d.at \in DOMAIN p /\ d.attr \in Attrs /\ d.span \in Spans /\ d.span # NoSpan
      /\ d.kind \in Names
  BY DEF Edits, Attrs, Finding, Spans, NoSpan
<1>3. y = [x EXCEPT !.ordinals = ordinals, !.doc = new, !.entries = entries]
  BY DEF RewriteSpan
<1>4. e \in Logged /\ e.id = d.id /\ e.applied = applies
  <2>1. reason \in Names /\ "placeholder" \in Names /\ applies \in BOOLEAN
    BY ZenonT(60) DEF Names
  <2> HIDE DEF reason, applies
  <2>2. e \in Logged
    BY <1>2, <2>1, EntryType
  <2> QED BY <2>2 DEF Entry
<1>5. y.doc = new /\ y.entries = entries
  <2> HIDE DEF new, entries, ordinals, y
  <2> QED BY <1>3 DEF States
<1> HIDE DEF y, e
<1>6. Done(F, y) = IF e.applied THEN Done(F, x) \cup {d} ELSE Done(F, x)
  BY <1>1, <1>4, <1>5, DoneGrows
<1>7. ASSUME ~applies PROVE Marked(p, F, y)
  <2>1. y.doc = x.doc /\ Done(F, y) = Done(F, x)
    BY <1>4, <1>5, <1>6, <1>7
  <2> HIDE DEF doc, found, had, applies, new, entries
  <2>2. y.doc.gone = x.doc.gone /\ \A j \in DOMAIN p : y.doc.els[j].text = x.doc.els[j].text
    BY <2>1
  <2> QED BY <2>1, <2>2, MarkedStays
<1>8. ASSUME applies PROVE Marked(p, F, y)
  <2>1. had \in Seq(Tokens) /\ d.span[2] <= Len(had) + 1 /\ found
    BY <1>1, <1>8, SlotType
  <2>2. ordinals[d.kind] \in Int
    BY <1>1, <1>2, <2>1, CountedType
  <2>3. token \in Seq(Tokens) /\ Redacted(token)
    BY <1>2, <2>2, PlaceholderType, PlaceholderMarks
  <2> HIDE DEF had, token
  <2>4. left \in Seq(Tokens) /\ Redacted(left)
    BY <1>2, <2>1, <2>3, SpliceType, SpliceMarks
  <2> HIDE DEF left
  <2>5. y.doc = SetSlot(doc, d, left) /\ Done(F, y) = Done(F, x) \cup {d}
    BY <1>4, <1>5, <1>6, <1>8
  <2>6. /\ y.doc.gone = x.doc.gone
        /\ \A i \in DOMAIN p : y.doc.els[i].text =
               IF i = d.at /\ d.attr = "text" THEN left ELSE x.doc.els[i].text
    <3>1. "text" \in Attrs /\ "text" # "label" /\ "text" # "value"
      BY DEF Attrs
    <3>2. ASSUME NEW i \in DOMAIN p
          PROVE  y.doc.els[i].text = IF i = d.at /\ d.attr = "text" THEN left ELSE x.doc.els[i].text
      <4>1. TextAt(y.doc.els, i, "text") = IF i = d.at /\ "text" = d.attr THEN left ELSE TextAt(doc.els, i, "text")
        BY <1>1, <1>2, <2>4, <2>5, <3>1, SetSlotAt
      <4>2. \A els : TextAt(els, i, "text") = els[i].text
        BY <3>1 DEF TextAt
      <4> QED BY <4>1, <4>2
    <3>3. y.doc.gone = doc.gone
      BY <1>1, <1>2, <2>4, <2>5, <3>1, SetSlotAt
    <3> QED BY <3>2, <3>3
  <2>7. d.at \notin x.doc.gone
    BY <2>1 DEF Present
  <2>8. CASE d.attr = "text"
    <3>1. WritesText(Blank(p), d)
      BY <1>2, <2>8 DEF WritesText
    <3>2. Redacted(y.doc.els[d.at].text)
      BY <1>2, <2>4, <2>6, <2>8
    <3>3. \A j \in DOMAIN p : j # d.at => y.doc.els[j].text = x.doc.els[j].text
      BY <2>6
    <3> HIDE DEF doc, found, applies, new, entries
    <3> QED BY <1>2, <2>5, <2>6, <2>7, <3>1, <3>2, <3>3, MarkedSets
  <2>9. CASE d.attr # "text"
    <3>1. ~WritesText(Blank(p), d)
      BY <1>2, <2>9 DEF WritesText, Attrs
    <3>2. \A j \in DOMAIN p : y.doc.els[j].text = x.doc.els[j].text
      BY <2>6, <2>9
    <3> HIDE DEF doc, found, applies, new, entries
    <3> QED BY <2>5, <2>6, <3>1, <3>2, MarkedStays
  <2> QED BY <2>8, <2>9
<1> QED BY <1>7, <1>8 DEF y

LEMMA ControlText ==
    ASSUME NEW p, NEW doc \in Documents(p), NEW j \in DOMAIN p, NEW text \in Seq(Tokens)
    PROVE  /\ WriteControl(doc, j, text).gone = doc.gone
           /\ ReplaceContent(doc, j, text).gone = doc.gone \cup {k \in DOMAIN p : Under(doc.els, j, k)}
           /\ \A i \in DOMAIN p :
                  /\ WriteControl(doc, j, text).els[i].text =
                         IF i = j /\ p[j].tag = "textarea" THEN text ELSE doc.els[i].text
                  /\ ReplaceContent(doc, j, text).els[i].text = IF i = j THEN text ELSE doc.els[i].text
<1> DEFINE d(a) == [at |-> j, attr |-> a]
<1>1. "text" \in Attrs /\ "value" \in Attrs /\ "text" # "value" /\ "text" # "label"
  BY DEF Attrs
<1>2. \A a \in Attrs : d(a).at = j /\ d(a).attr = a
  OBVIOUS
<1>3. WriteControl(doc, j, text) = IF doc.els[j].tag = "textarea" THEN SetSlot(doc, d("text"), text)
                                   ELSE SetSlot(doc, d("value"), text)
  BY DEF WriteControl, SetSlot
<1>4. /\ ReplaceContent(doc, j, text).els = SetSlot(doc, d("text"), text).els
      /\ ReplaceContent(doc, j, text).gone = doc.gone \cup {k \in DOMAIN doc.els : Under(doc.els, j, k)}
      /\ DOMAIN doc.els = DOMAIN p
  BY DEF ReplaceContent, SetSlot, Documents, Els
<1>5. doc.els[j].tag = p[j].tag
  BY DEF Documents, Els, SameElement
<1> HIDE DEF d
<1>6. ASSUME NEW a \in Attrs
      PROVE  /\ SetSlot(doc, d(a), text).gone = doc.gone
             /\ \A i \in DOMAIN p : SetSlot(doc, d(a), text).els[i].text =
                                        IF i = j /\ a = "text" THEN text ELSE doc.els[i].text
  <2> DEFINE e == d(a)
  <2>1. e.at \in DOMAIN p /\ e.attr \in Attrs /\ e.at = j /\ e.attr = a
    BY <1>2
  <2> HIDE DEF e
  <2>2. ASSUME NEW i \in DOMAIN p
        PROVE  SetSlot(doc, e, text).els[i].text = IF i = j /\ a = "text" THEN text ELSE doc.els[i].text
    <3>1. TextAt(SetSlot(doc, e, text).els, i, "text") =
              IF i = e.at /\ "text" = e.attr THEN text ELSE TextAt(doc.els, i, "text")
      BY <1>1, <2>1, SetSlotAt
    <3>2. \A els : TextAt(els, i, "text") = els[i].text
      BY <1>1 DEF TextAt
    <3> QED BY <2>1, <3>1, <3>2
  <2>3. SetSlot(doc, e, text).gone = doc.gone
    BY <1>1, <2>1, SetSlotAt
  <2> QED BY <2>2, <2>3 DEF e
<1> QED BY <1>1, <1>3, <1>4, <1>5, <1>6

LEMMA ApplyMarks ==
    ASSUME NEW p \in Seq(Scanned), Nested(p), NEW F \in SUBSET Finding, SingleIds(F),
           NEW x \in States(p, F), Marked(p, F, x), NEW d \in F, d.span = NoSpan
    PROVE  Marked(p, F, ApplyStrategy(x, d))
<1> DEFINE how == ResolveStrategy(d)
           ordinals == Counted(x.ordinals, d.kind)
           doc == x.doc
           anchored == d.at # 0 /\ Present(doc, d.at)
           painted == how \in PixelStrategies
           token == Placeholder(d.kind, ordinals[d.kind])
           ops == IF painted THEN Append(x.ops, OpOf(d, how)) ELSE x.ops
           left == IF how = "drop-attribute" THEN <<>> ELSE token
           new == IF painted \/ ~anchored THEN doc
                  ELSE CASE d.attr = "value" -> WriteControl(doc, d.at, left)
                         [] d.attr = "none" -> ReplaceContent(doc, d.at, token)
                         [] OTHER -> doc
           reason == IF painted THEN "queued" ELSE IF anchored THEN "replaced" ELSE "gone"
           logged == painted \/ anchored
           e == Entry(d, how, logged, reason)
           entries == Append(x.entries, e)
           y == ApplyStrategy(x, d)
<1>1. doc \in Documents(p) /\ x.ordinals \in Ordinals /\ x.entries \in Seq(Logged)
  BY DEF States
<1>2. d \in Finding /\ d.kind \in Names /\ how \in Names
  <2>1. d \in Finding
    OBVIOUS
  <2>2. how \in Names
    BY <2>1, StrategyType
  <2> QED BY <2>1, <2>2 DEF Finding
<1>3. y = [x EXCEPT !.ordinals = ordinals, !.ops = ops, !.doc = new, !.entries = entries]
  BY DEF ApplyStrategy
<1>4. token \in Seq(Tokens) /\ Redacted(token)
  BY <1>1, <1>2, CountedType, PlaceholderType, PlaceholderMarks
<1>5. e \in Logged /\ e.id = d.id /\ e.applied = logged
  <2>1. reason \in Names /\ logged \in BOOLEAN
    BY ZenonT(60) DEF Names
  <2> HIDE DEF reason, logged, how
  <2>2. e \in Logged
    BY <1>2, <2>1, EntryType
  <2> QED BY <2>2 DEF Entry
<1>6. y.doc = new /\ y.entries = entries
  <2> HIDE DEF new, entries, ordinals, ops, y
  <2> QED BY <1>3 DEF States
<1> HIDE DEF y, e
<1>7. Done(F, y) = IF logged THEN Done(F, x) \cup {d} ELSE Done(F, x)
  <2> HIDE DEF logged
  <2> QED BY <1>1, <1>5, <1>6, DoneGrows
<1> HIDE DEF entries, token, ordinals, ops, reason
<1>8. ASSUME painted \/ ~anchored PROVE Marked(p, F, y)
  <2>1. y.doc = x.doc
    BY <1>6, <1>8
  <2>2. painted => ~WritesText(Blank(p), d)
    BY DEF WritesText
  <2>3. Done(F, y) = Done(F, x) \/ (Done(F, y) = Done(F, x) \cup {d} /\ ~WritesText(Blank(p), d))
    BY <1>7, <1>8, <2>2
  <2>4. y.doc.gone = x.doc.gone /\ \A j \in DOMAIN p : y.doc.els[j].text = x.doc.els[j].text
    BY <2>1
  <2> HIDE DEF doc, painted, anchored, new, logged
  <2> QED BY <2>3, <2>4, MarkedStays
<1>9. ASSUME ~painted, anchored PROVE Marked(p, F, y)
  <2>1. d.at \in DOMAIN p /\ d.at \notin x.doc.gone
    BY <1>1, <1>9 DEF Present, Documents, Els
  <2>2. Done(F, y) = Done(F, x) \cup {d}
    BY <1>7, <1>9
  <2>3. left \in Seq(Tokens) /\ (how = "drop-attribute" \/ Redacted(left))
    BY <1>4
  <2>4. \A j, k \in DOMAIN p : Under(doc.els, j, k) <=> Under(p, j, k)
    BY <1>1, UnderFacts
  <2> DEFINE control == WriteControl(doc, d.at, left)
             content == ReplaceContent(doc, d.at, token)
  <2>5. /\ control.gone = doc.gone
        /\ \A i \in DOMAIN p :
               control.els[i].text = IF i = d.at /\ p[d.at].tag = "textarea" THEN left ELSE doc.els[i].text
    <3> HIDE DEF left, how, doc
    <3> QED BY <1>1, <2>1, <2>3, ControlText
  <2>6. /\ content.gone = doc.gone \cup {k \in DOMAIN p : Under(p, d.at, k)}
        /\ \A i \in DOMAIN p : content.els[i].text = IF i = d.at THEN token ELSE doc.els[i].text
    <3> HIDE DEF left, how, doc
    <3>1. content.gone = doc.gone \cup {k \in DOMAIN p : Under(doc.els, d.at, k)}
      BY <1>1, <1>4, <2>1, ControlText
    <3>2. \A i \in DOMAIN p : content.els[i].text = IF i = d.at THEN token ELSE doc.els[i].text
      BY <1>1, <1>4, <2>1, ControlText
    <3>3. {k \in DOMAIN p : Under(doc.els, d.at, k)} = {k \in DOMAIN p : Under(p, d.at, k)}
      BY <2>1, <2>4
    <3> QED BY <3>1, <3>2, <3>3
  <2> HIDE DEF control, content, left
  <2>7. "value" # "none"
    OBVIOUS
  <2>8. CASE d.attr = "none"
    <3>1. y.doc = content
      BY <1>6, <1>9, <2>7, <2>8 DEF content
    <3>2. WritesText(Blank(p), d)
      BY <1>9, <2>8 DEF WritesText
    <3>3. Redacted(y.doc.els[d.at].text)
      BY <1>4, <2>1, <2>6, <3>1
    <3>4. \A j \in DOMAIN p : j # d.at => y.doc.els[j].text = x.doc.els[j].text
      BY <2>6, <3>1
    <3>5. y.doc.gone = x.doc.gone \cup {j \in DOMAIN p : Under(p, d.at, j)}
      BY <2>6, <3>1
    <3> HIDE DEF doc, painted, anchored, new, logged, how
    <3> QED BY <2>1, <2>2, <3>2, <3>3, <3>4, <3>5, MarkedSets
  <2>9. CASE d.attr = "value" /\ p[d.at].tag = "textarea"
    <3>1. y.doc = control
      BY <1>6, <1>9, <2>9 DEF control
    <3>2. WritesText(Blank(p), d)
      BY <1>9, <2>9 DEF WritesText, Blank
    <3>3. Redacted(y.doc.els[d.at].text) \/ Clears(Blank(p), d)
      BY <2>1, <2>3, <2>5, <2>9, <3>1, <3>2 DEF Clears
    <3>4. \A j \in DOMAIN p : j # d.at => y.doc.els[j].text = x.doc.els[j].text
      BY <2>5, <3>1
    <3>5. y.doc.gone = x.doc.gone
      BY <2>5, <3>1
    <3> HIDE DEF doc, painted, anchored, new, logged, how
    <3> QED BY <2>1, <2>2, <3>2, <3>3, <3>4, <3>5, MarkedSets
  <2>10. CASE d.attr # "none" /\ ~(d.attr = "value" /\ p[d.at].tag = "textarea")
    <3>1. y.doc = control \/ y.doc = doc
      BY <1>6, <1>9, <2>10 DEF control
    <3>2. ~WritesText(Blank(p), d)
      BY <2>10 DEF WritesText, Blank
    <3>3. y.doc = control => d.attr = "value" \/ y.doc = doc
      BY <1>6, <1>9, <2>10
    <3>4. y.doc.gone = x.doc.gone /\ \A j \in DOMAIN p : y.doc.els[j].text = x.doc.els[j].text
      BY <2>5, <2>10, <3>1, <3>3
    <3> HIDE DEF doc, painted, anchored, new, logged, how
    <3> QED BY <2>2, <3>2, <3>4, MarkedStays
  <2> QED BY <2>8, <2>9, <2>10
<1> QED BY <1>8, <1>9 DEF y

LEMMA UnchangedMarks ==
    ASSUME NEW p \in Seq(Scanned), NEW F
    PROVE  Marked(p, F, Unchanged(p))
<1> DEFINE x == Unchanged(p)
<1>1. x.doc.els = p /\ x.entries = <<>>
  BY DEF Unchanged
<1> HIDE DEF x
<1>2. Done(F, x) = {}
  BY <1>1 DEF Done
<1> QED BY <1>1, <1>2 DEF Marked, x

LEMMA RewrittenMarks ==
    ASSUME NEW p \in Seq(Scanned), Nested(p),
           NEW F \in SUBSET FindingOf(p), SingleIds(F), NEW applicable \in Seq(F)
    PROVE  Marked(p, F, Rewritten(p, applicable))
<1> DEFINE inTexts == {n \in DOMAIN applicable : applicable[n].span # NoSpan /\ applicable[n].at # 0}
           others == {n \in DOMAIN applicable : applicable[n].span = NoSpan}
           c == Kept(applicable, inTexts)
           s == SpanOrder(c)
           loose == Kept(applicable, others)
           rest == RemovalsLast(loose)
           start == Unchanged(p)
           middle == Rewriting!Fold(start, s)
           done == Applying!Fold(middle, rest)
           S == {d \in F : d.span # NoSpan}
           G == {d \in F : d.span = NoSpan}
           T == {x \in States(p, F) : Marked(p, F, x)}
           N == Len(s)
           M == Len(rest)
<1>1. F \in SUBSET Finding /\ \A n \in 1..Len(applicable) : applicable[n] \in F
  BY DEF FindingOf
<1>2. c \in Seq(S)
  <2>1. \A n \in 1..Len(applicable) : n \in inTexts => applicable[n] \in S
    BY <1>1
  <2> HIDE DEF inTexts, S
  <2> QED BY <1>1, <2>1, KeptIn
<1>3. loose \in Seq(G)
  <2>1. \A n \in 1..Len(applicable) : n \in others => applicable[n] \in G
    BY <1>1
  <2> HIDE DEF others, G
  <2> QED BY <1>1, <2>1, KeptIn
<1>4. Rewritten(p, applicable) = done
  <2>1. Rewritten(p, applicable) = FoldLeft(ApplyStrategy, FoldLeft(RewriteSpan, start, s), rest)
    BY DEF Rewritten, Those
  <2> HIDE DEF s, rest, start
  <2>2. FoldLeft(RewriteSpan, start, s) = middle
    BY DEF Rewriting!Fold, Rewriting!FoldOn, FoldLeft, MapThenFoldSet, Max, Rewriting!Top
  <2> HIDE DEF middle
  <2>3. FoldLeft(ApplyStrategy, middle, rest) = done
    BY DEF Applying!Fold, Applying!FoldOn, FoldLeft, MapThenFoldSet, Max, Applying!Top
  <2> QED BY <2>1, <2>2, <2>3
<1> HIDE DEF c, loose
<1>5. s \in Seq(S) /\ rest \in Seq(G)
  <2> HIDE DEF S, G
  <2> QED BY <1>2, <1>3, SpanOrderType, RemovalsLastType
<1> HIDE DEF s, rest, start
<1>6. N \in Nat /\ DOMAIN s = 1..N /\ M \in Nat /\ DOMAIN rest = 1..M
  BY <1>5
<1>7. \A n \in 1..N : s[n] \in F /\ s[n].span # NoSpan
  <2>1. \A n \in 1..N : s[n] \in S
    BY <1>5
  <2> QED BY <2>1
<1>8. \A n \in 1..M : rest[n] \in F /\ rest[n].span = NoSpan
  <2>1. \A n \in 1..M : rest[n] \in G
    BY <1>5
  <2> QED BY <2>1
<1> HIDE DEF N, M, S, G
<1>9. start \in T
  BY UnchangedType, UnchangedMarks DEF start
<1>10. ASSUME NEW n \in 1..N, NEW x \in T PROVE RewriteSpan(x, s[n]) \in T
  <2>1. s[n] \in F /\ s[n].span # NoSpan /\ x \in States(p, F) /\ Marked(p, F, x)
    BY <1>7
  <2>2. s[n] \in Edits(p)
    BY <2>1, SpottedEdits
  <2> QED BY <1>1, <2>1, <2>2, RewriteSpanType, RewriteMarks
<1>11. ASSUME NEW n \in 1..M, NEW x \in T PROVE ApplyStrategy(x, rest[n]) \in T
  <2>1. rest[n] \in F /\ rest[n].span = NoSpan /\ x \in States(p, F) /\ Marked(p, F, x)
    BY <1>8
  <2> QED BY <1>1, <2>1, ApplyStrategyType, ApplyMarks
<1> HIDE DEF T
<1>12. middle \in T
  BY <1>6, <1>9, <1>10, Rewriting!Stays
<1> HIDE DEF middle
<1>13. done \in T
  BY <1>6, <1>11, <1>12, Applying!Stays
<1> QED BY <1>4, <1>13 DEF T

LEMMA RedactMarks ==
    ASSUME NEW raw \in Seq(Scanned), NEW p, p = StripForgeries(raw), Nested(p),
           NEW seen \in Own(Finding, SeenIds), seen \in Seq(Sighted), NEW coverAll,
           NEW r, r = Redact(raw, seen, coverAll)
    PROVE  Marked(p, ToSet(r.detections), r)
<1> DEFINE F == ToSet(r.detections)
           I == DomIds \cup SeenIds
<1>0. PICK applicable, more, S : Returned(p, r, applicable, more, S)
  BY RedactIs
<1>1. /\ r.detections \in Seq(Finding) /\ Distinct(r.detections)
      /\ F \in SUBSET FindingOf(p) /\ Apart(F) /\ applicable \in Own(F, I)
      /\ r.doc = Rewritten(p, applicable).doc
      /\ r.entries = Rewritten(p, applicable).entries \o more
      /\ more \in Seq(S) /\ \A n \in DOMAIN more : ~more[n].applied
  BY <1>0 DEF Returned
<1>2. p \in Seq(Scanned)
  BY StrippedPage
<1>3. SingleIds(F)
  <2> DEFINE s == r.detections
  <2>1. Distinct(s) /\ F = ToSet(s)
    BY <1>1
  <2> HIDE DEF s, F
  <2> QED BY <2>1 DEF SingleIds, Distinct, ToSet
<1> HIDE DEF F, I
<1>4. applicable \in Seq(F) /\ F \in SUBSET Finding
  BY <1>1 DEF Own, FindingOf
<1> DEFINE state == Rewritten(p, applicable)
           l == state.entries
<1>5. Marked(p, F, state) /\ state \in States(p, F)
  BY <1>1, <1>2, <1>3, <1>4, RewrittenMarks, RewrittenType
<1>6. l \in Seq(Logged)
  BY <1>5 DEF States
<1> HIDE DEF l
<1>7. Done(F, r) = Done(F, state)
  <2>1. r.entries = l \o more
    BY <1>1 DEF l
  <2> DEFINE t == l \o more
  <2>2. /\ DOMAIN t = 1..(Len(l) + Len(more)) /\ DOMAIN l = 1..Len(l) /\ DOMAIN more = 1..Len(more)
        /\ Len(l) \in Nat /\ Len(more) \in Nat
        /\ \A k \in 1..(Len(l) + Len(more)) : t[k] = IF k <= Len(l) THEN l[k] ELSE more[k - Len(l)]
    BY <1>1, <1>6
  <2> HIDE DEF t
  <2>3. ASSUME NEW k \in DOMAIN t, t[k].applied PROVE k \in DOMAIN l /\ t[k] = l[k]
    <3>1. CASE k <= Len(l)
      BY <2>2, <3>1
    <3>2. CASE k > Len(l)
      <4>1. k - Len(l) \in DOMAIN more /\ ~(k <= Len(l))
        BY <2>2, <3>2
      <4> QED BY <1>1, <2>2, <2>3, <4>1
    <3> QED BY <2>2, <3>1, <3>2
  <2>4. ASSUME NEW k \in DOMAIN l PROVE k \in DOMAIN t /\ t[k] = l[k]
    BY <2>2
  <2>5. r.entries = t /\ state.entries = l
    BY <2>1 DEF t, l
  <2> HIDE DEF state
  <2> QED BY <2>3, <2>4, <2>5 DEF Done
<1>8. r.doc = state.doc
  BY <1>1
<1> HIDE DEF state
<1>9. Marked(p, F, r)
  BY <1>5, <1>7, <1>8 DEF Marked, Stands, Covers
<1> QED BY <1>9 DEF F

LEMMA FlattenRedacted ==
    ASSUME NEW ss \in Seq(Seq(Tokens)), NEW i \in DOMAIN ss, Redacted(ss[i])
    PROVE  Redacted(FlattenSeq(ss))
<1> DEFINE N == Len(ss)
<1>1. ss # <<>> /\ N \in Nat /\ DOMAIN ss = 1..N /\ \A n \in 1..N : ss[n] \in Seq(Tokens)
  OBVIOUS
<1>2. PICK flat : /\ \A n \in 1..Len(ss) : flat[n] = IF n = 1 THEN ss[n] ELSE flat[n - 1] \o ss[n]
                  /\ FlattenSeq(ss) = flat[Len(ss)]
  BY <1>1, FlattenRun
<1>3. \A a, b \in Seq(Tokens) : a \o b \in Seq(Tokens) /\ (Redacted(a) \/ Redacted(b) => Redacted(a \o b))
  <2> SUFFICES ASSUME NEW a \in Seq(Tokens), NEW b \in Seq(Tokens)
               PROVE  a \o b \in Seq(Tokens) /\ (Redacted(a) \/ Redacted(b) => Redacted(a \o b))
    OBVIOUS
  <2>1. a \o b \in Seq(Tokens)
    OBVIOUS
  <2> QED BY <2>1, JoinRedacted
<1> DEFINE Good == {n \in 0..N : n = 0 \/ (flat[n] \in Seq(Tokens) /\ (n >= i => Redacted(flat[n])))}
<1> HIDE DEF N
<1>4. 0 \in Good
  BY <1>1
<1>5. ASSUME NEW n \in 1..N, n - 1 \in Good PROVE n \in Good
  <2>1. flat[n] = IF n = 1 THEN ss[n] ELSE flat[n - 1] \o ss[n]
    BY <1>2 DEF N
  <2>2. ss[n] \in Seq(Tokens) /\ n \in 0..N
    BY <1>1
  <2>3. CASE n = 1
    <3>1. n >= i => i = 1
      BY <1>1, <2>3
    <3> QED BY <2>1, <2>2, <2>3, <3>1
  <2>4. CASE n # 1
    <3>1. flat[n - 1] \in Seq(Tokens) /\ (n - 1 >= i => Redacted(flat[n - 1]))
      BY <1>5, <2>4
    <3>2. flat[n] \in Seq(Tokens) /\ (Redacted(flat[n - 1]) \/ Redacted(ss[n]) => Redacted(flat[n]))
      BY <1>3, <2>1, <2>2, <2>4, <3>1
    <3>3. n >= i => n = i \/ n - 1 >= i
      BY <1>1
    <3> QED BY <2>2, <3>1, <3>2, <3>3
  <2> QED BY <2>3, <2>4
<1>6. N \in Good
  <2> HIDE DEF Good
  <2>1. \A n \in 0..N : n \in Good
    BY <1>1, <1>4, <1>5, Keeping!Induction
  <2> QED BY <2>1, <1>1
<1>7. N # 0 /\ N >= i
  BY <1>1
<1> QED BY <1>2, <1>6, <1>7 DEF N

LEMMA FlattenOpened ==
    ASSUME NEW ss \in Seq(Seq(Tokens)), Opened(FlattenSeq(ss))
    PROVE  \E i \in DOMAIN ss : Opened(ss[i])
<1> DEFINE T == UNION {ToSet(ss[i]) : i \in DOMAIN ss}
           t == FlattenSeq(ss)
<1>1. \A i \in DOMAIN ss : ToSet(ss[i]) \subseteq T
  OBVIOUS
<1>2. Opening \in ToSet(t)
  BY DEF Opened, ToSet
<1> HIDE DEF T
<1>3. ToSet(t) \subseteq T
  BY <1>1, FlattenFrom
<1> HIDE DEF t
<1>4. PICK i \in DOMAIN ss : Opening \in ToSet(ss[i])
  BY <1>2, <1>3 DEF T
<1> QED BY <1>4 DEF Opened, ToSet

(* The text of a cell, by the texts of what is in it.                        *)
LEMMA CellParts ==
    ASSUME NEW p \in Seq(Scanned), Nested(p), NEW doc \in Documents(p), NEW cell \in DOMAIN p
    PROVE  /\ CellText(doc, cell) \in Seq(Tokens)
           /\ \A j \in DOMAIN p : j \notin doc.gone /\ (j = cell \/ Under(p, cell, j)) /\ Redacted(doc.els[j].text) =>
                  Redacted(CellText(doc, cell))
           /\ Opened(CellText(doc, cell)) =>
                  \E j \in DOMAIN p : (j = cell \/ Under(p, cell, j)) /\ Opened(doc.els[j].text)
<1> DEFINE els == doc.els
           seen(j) == Present(doc, j) /\ (j = cell \/ Under(els, cell, j))
           list == [j \in DOMAIN els |-> IF seen(j) THEN els[j].text ELSE <<>>]
<1>1. CellText(doc, cell) = FlattenSeq(list)
  BY DEF CellText
<1>2. DOMAIN els = DOMAIN p /\ \A j \in DOMAIN p : els[j].text \in Seq(Tokens)
  BY ElementTexts
<1>3. \A j \in DOMAIN p : Under(els, cell, j) <=> Under(p, cell, j)
  BY UnderFacts
<1>4. \A j \in DOMAIN p : seen(j) <=> j \notin doc.gone /\ (j = cell \/ Under(p, cell, j))
  BY <1>2, <1>3 DEF Present
<1> HIDE DEF seen
<1>5. DOMAIN p = 1..Len(p) /\ Len(p) \in Nat
  OBVIOUS
<1> HIDE DEF els
<1>6. \A j \in DOMAIN p : list[j] \in Seq(Tokens)
  BY <1>2
<1>7. list \in Seq(Seq(Tokens)) /\ DOMAIN list = DOMAIN p
  BY <1>2, <1>5, <1>6
<1>8. \A j \in DOMAIN p : list[j] = IF seen(j) THEN els[j].text ELSE <<>>
  BY <1>2
<1> HIDE DEF list
<1>9. ASSUME NEW j \in DOMAIN p, j \notin doc.gone, j = cell \/ Under(p, cell, j), Redacted(doc.els[j].text)
      PROVE  Redacted(CellText(doc, cell))
  <2>1. Redacted(list[j])
    BY <1>4, <1>8, <1>9 DEF els
  <2> QED BY <1>1, <1>7, <2>1, FlattenRedacted
<1>10. ASSUME Opened(CellText(doc, cell))
       PROVE  \E j \in DOMAIN p : (j = cell \/ Under(p, cell, j)) /\ Opened(doc.els[j].text)
  <2>1. PICK j \in DOMAIN p : Opened(list[j])
    BY <1>1, <1>7, <1>10, FlattenOpened
  <2>2. ~Opened(<<>>)
    BY DEF Opened
  <2>3. seen(j) /\ list[j] = doc.els[j].text
    BY <1>8, <2>1, <2>2 DEF els
  <2> QED BY <1>4, <2>1, <2>3
<1>11. CellText(doc, cell) \in Seq(Tokens)
  BY CellTextType
<1> QED BY <1>9, <1>10, <1>11

(* What applied redactions wrote in a cell, and what the page wrote there.   *)
Writes(p, F, x, cell) == {d \in Done(F, x) : d.at \in Within(p, cell) /\ WritesText(Blank(p), d)}

PieceWithin(p, cell) == \E j \in Within(p, cell) : Opened(p[j].text)

(* A cell holds a placeholder only where one was written, and does where one *)
(* was and no field was cleared.                                             *)
LEMMA CellMarked ==
    ASSUME NEW p \in Seq(Scanned), Nested(p), NEW F, NEW x, x.doc \in Documents(p), Marked(p, F, x),
           NEW cell \in DOMAIN p, cell \notin x.doc.gone
    PROVE  /\ Redacted(CellText(x.doc, cell)) => Writes(p, F, x, cell) # {} \/ PieceWithin(p, cell)
           /\ Writes(p, F, x, cell) # {} /\ (\A d \in Writes(p, F, x, cell) : ~Clears(Blank(p), d)) =>
                  Redacted(CellText(x.doc, cell))
<1> DEFINE doc == x.doc
<1>0. \A j \in DOMAIN p : j \in Within(p, cell) <=> j = cell \/ Under(p, cell, j)
  <2>1. cell # 0
    OBVIOUS
  <2> QED BY <2>1 DEF Within
<1>1. ASSUME Redacted(CellText(doc, cell)) PROVE Writes(p, F, x, cell) # {} \/ PieceWithin(p, cell)
  <2>1. CellText(doc, cell) \in Seq(Tokens)
    BY CellParts
  <2>2. Opened(CellText(doc, cell))
    BY <1>1, <2>1, RedactedOpens
  <2>3. PICK j \in DOMAIN p : j \in Within(p, cell) /\ Opened(doc.els[j].text)
    BY <1>0, <2>2, CellParts
  <2>4. Opened(p[j].text) \/ \E d \in Done(F, x) : d.at = j /\ WritesText(Blank(p), d)
    BY <2>3 DEF Marked
  <2> QED BY <2>3, <2>4 DEF Writes, PieceWithin
<1>2. ASSUME NEW d \in Writes(p, F, x, cell), \A e \in Writes(p, F, x, cell) : ~Clears(Blank(p), e)
      PROVE  Redacted(CellText(doc, cell))
  <2>1. d \in Done(F, x) /\ WritesText(Blank(p), d) /\ d.at \in Within(p, cell)
    BY DEF Writes
  <2>2. d.at \in DOMAIN p /\ \E i \in DOMAIN p : Stands(p, F, x, i) /\ Covers(p, x, i, d.at)
    BY <2>1 DEF Marked
  <2>3. PICK i \in DOMAIN p : Stands(p, F, x, i) /\ Covers(p, x, i, d.at)
    BY <2>2
  <2>4. /\ \A j, k \in DOMAIN p : Under(p, j, k) => j < k
        /\ \A j, k, l \in DOMAIN p : Under(p, j, k) /\ Under(p, k, l) => Under(p, j, l)
        /\ \A j, k, l \in DOMAIN p : Under(p, j, l) /\ Under(p, k, l) => j = k \/ Under(p, j, k) \/ Under(p, k, j)
    BY UnderFacts
  <2>5. i = cell \/ Under(p, cell, i)
    <3>1. CASE i = d.at
      BY <1>0, <2>1, <3>1
    <3>2. CASE i # d.at
      <4>1. Under(p, i, d.at) /\ \A j \in DOMAIN p : Under(p, i, j) => j \in x.doc.gone
        BY <2>3, <3>2 DEF Covers
      <4>2. ~Under(p, i, cell)
        BY <4>1
      <4>3. d.at # cell
        BY <4>1, <4>2
      <4>4. Under(p, cell, d.at)
        BY <1>0, <2>1, <2>2, <4>3
      <4> QED BY <2>2, <2>4, <4>1, <4>2, <4>4
    <3> QED BY <3>1, <3>2
  <2>6. i \notin doc.gone /\ (Redacted(doc.els[i].text) \/ \E e \in Done(F, x) : e.at = i /\ Clears(Blank(p), e))
    BY <2>3 DEF Stands
  <2>7. \A e \in Done(F, x) : e.at = i /\ Clears(Blank(p), e) => e \in Writes(p, F, x, cell)
    BY <1>0, <2>5 DEF Clears, Writes
  <2>8. Redacted(doc.els[i].text)
    BY <1>2, <2>6, <2>7
  <2> QED BY <2>5, <2>6, <2>8, CellParts
<1> QED BY <1>1, <1>2

Kinds == {"missing", "redacted", "number", "unparsed"}

LEMMA KindMarked ==
    ASSUME NEW text \in Seq(Tokens)
    PROVE  KindOfText(text) \in Kinds /\ (KindOfText(text) = "redacted" <=> Redacted(text))
<1>1. /\ "missing" # "redacted" /\ "number" # "redacted" /\ "unparsed" # "redacted"
      /\ {"missing", "redacted", "number", "unparsed"} = Kinds
  BY DEF Kinds
<1>2. ASSUME Redacted(text) PROVE ~MeansMissing(text)
  <2>1. PICK n \in 1..(Len(text) - 2) : TRUE
    BY <1>2, RedactedAt
  <2>2. Len(text) \in Nat /\ Len(text) > 2
    BY <2>1
  <2>3. Len(<<>>) = 0 /\ \A v : Len(<<v>>) = 1
    OBVIOUS
  <2>4. text # <<>> /\ \A v : text # <<v>>
    <3>1. ASSUME text = <<>> PROVE FALSE
      <4>1. Len(text) = 0
        BY <2>3, <3>1, ZenonT(60)
      <4> QED BY <2>2, <4>1
    <3>2. ASSUME NEW v, text = <<v>> PROVE FALSE
      <4>1. Len(text) = 1
        BY <2>3, <3>2, ZenonT(60)
      <4> QED BY <2>2, <4>1
    <3> QED BY <3>1, <3>2
  <2> QED BY <2>4 DEF MeansMissing
<1> QED BY <1>1, <1>2 DEF KindOfText

Ascending(s) == \A m, n \in DOMAIN s : m < n => s[m] < s[n]

(* What is selected from an ascending list is ascending, and as long as it   *)
(* has elements.                                                             *)
LEMMA KeptAscending ==
    ASSUME NEW s \in Seq(Int), Ascending(s), NEW keep, NEW k, k = Kept(s, keep)
    PROVE  /\ k \in Seq(Int) /\ Ascending(k)
           /\ ToSet(k) = {s[n] : n \in keep \cap DOMAIN s}
           /\ Len(k) = Cardinality(ToSet(k))
<1> DEFINE N == Len(s)
           Of(n) == {s[m] : m \in keep \cap (1..n)}
           Holds(l, n) == /\ l \in Seq(Int) /\ Ascending(l) /\ ToSet(l) = Of(n)
                          /\ IsFiniteSet(ToSet(l)) /\ Len(l) = Cardinality(ToSet(l))
<1>1. N \in Nat /\ DOMAIN s = 1..N /\ \A n \in 1..N : s[n] \in Int
  OBVIOUS
<1>2. PICK g : /\ g[0] = <<>>
               /\ \A n \in 1..Len(s) : g[n] = IF n \in keep THEN Append(g[n - 1], s[n]) ELSE g[n - 1]
               /\ Kept(s, keep) = g[Len(s)]
  BY KeptRun
<1>3. \A n \in 1..N : g[n] = IF n \in keep THEN Append(g[n - 1], s[n]) ELSE g[n - 1]
  BY <1>2
<1> DEFINE Good == {n \in 0..N : Holds(g[n], n)}
<1>4. k = g[N]
  BY <1>2
<1> HIDE DEF N
<1>5. 0 \in Good
  <2>1. g[0] = <<>>
    BY <1>2
  <2>2. <<>> \in Seq(Int) /\ Ascending(<<>>) /\ ToSet(<<>>) = {} /\ Len(<<>>) = 0
    BY DEF Ascending, ToSet
  <2>3. Of(0) = {}
    OBVIOUS
  <2>4. IsFiniteSet({}) /\ Cardinality({}) = 0
    BY FS_EmptySet
  <2> HIDE DEF Of
  <2>5. Holds(g[0], 0)
    BY <2>1, <2>2, <2>3, <2>4
  <2> HIDE DEF Holds
  <2> QED BY <1>1, <2>5
<1>6. ASSUME NEW n \in 1..N, n - 1 \in Good PROVE n \in Good
  <2> DEFINE l == g[n - 1]
  <2>1. Holds(l, n - 1)
    BY <1>6
  <2>2. n \in 0..N /\ n \in 1..N /\ s[n] \in Int /\ 1..n = 1..(n - 1) \cup {n} /\ n \in Int
    BY <1>1
  <2>3. g[n] = IF n \in keep THEN Append(l, s[n]) ELSE l
    BY <1>3
  <2> HIDE DEF l
  <2>4. CASE n \notin keep
    <3>1. Of(n) = Of(n - 1)
      BY <2>2, <2>4
    <3> QED BY <2>1, <2>2, <2>3, <2>4, <3>1
  <2>5. CASE n \in keep
    <3> DEFINE e == s[n]
               h == Append(l, e)
    <3>1. Of(n) = Of(n - 1) \cup {e}
      BY <2>2, <2>5
    <3>2. \A v \in Of(n - 1) : v < e
      <4> SUFFICES ASSUME NEW m \in 1..(n - 1) PROVE s[m] < s[n]
        OBVIOUS
      <4>1. m \in DOMAIN s /\ n \in DOMAIN s /\ m < n
        BY <1>1, <2>2
      <4> QED BY <4>1 DEF Ascending
    <3> HIDE DEF Of
    <3>3. l \in Seq(Int) /\ e \in Int /\ ToSet(l) = Of(n - 1)
      BY <2>1, <2>2
    <3> HIDE DEF e
    <3>4. /\ h \in Seq(Int) /\ DOMAIN h = 1..(Len(l) + 1) /\ DOMAIN l = 1..Len(l) /\ Len(l) \in Nat
          /\ Len(h) = Len(l) + 1 /\ h[Len(l) + 1] = e /\ \A m \in 1..Len(l) : h[m] = l[m]
      BY <3>3
    <3> HIDE DEF h
    <3>5. ToSet(h) = ToSet(l) \cup {e}
      <4>1. ASSUME NEW i \in DOMAIN h PROVE h[i] \in ToSet(l) \cup {e}
        <5>1. i = Len(l) + 1 \/ (i \in DOMAIN l /\ h[i] = l[i])
          BY <3>4
        <5> QED BY <3>4, <5>1 DEF ToSet
      <4>2. ASSUME NEW i \in DOMAIN l PROVE i \in DOMAIN h /\ h[i] = l[i]
        BY <3>4
      <4>3. Len(l) + 1 \in DOMAIN h
        BY <3>4
      <4> QED BY <3>4, <4>1, <4>2, <4>3 DEF ToSet
    <3>6. \A m \in DOMAIN l : l[m] < e
      BY <3>2, <3>3 DEF ToSet
    <3>7. Ascending(h)
      <4> SUFFICES ASSUME NEW i \in DOMAIN h, NEW j \in DOMAIN h, i < j PROVE h[i] < h[j]
        BY DEF Ascending
      <4>1. i \in DOMAIN l /\ h[i] = l[i]
        BY <3>4
      <4>2. CASE j \in DOMAIN l
        BY <2>1, <3>4, <4>1, <4>2 DEF Ascending
      <4>3. CASE j \notin DOMAIN l
        <5>1. j = Len(l) + 1
          BY <3>4, <4>3
        <5> QED BY <3>4, <3>6, <4>1, <5>1
      <4> QED BY <4>2, <4>3
    <3>8. e \notin ToSet(l)
      BY <3>2, <3>3
    <3>9. IsFiniteSet(ToSet(h)) /\ Len(h) = Cardinality(ToSet(h))
      <4> DEFINE T == ToSet(l)
      <4>1. IsFiniteSet(T) /\ Cardinality(T) = Len(l) /\ e \notin T /\ ToSet(h) = T \cup {e}
        BY <2>1, <3>5, <3>8
      <4> HIDE DEF T
      <4>2. IsFiniteSet(T \cup {e}) /\ Cardinality(T \cup {e}) = Cardinality(T) + 1
        BY <4>1, FS_AddElement
      <4> QED BY <3>4, <4>1, <4>2
    <3>10. Holds(h, n)
      BY <3>1, <3>3, <3>4, <3>5, <3>7, <3>9
    <3>11. g[n] = h
      BY <2>3, <2>5 DEF h, e
    <3> HIDE DEF Holds
    <3> QED BY <2>2, <3>10, <3>11
  <2> QED BY <2>4, <2>5
<1>7. N \in Good
  <2> HIDE DEF Good
  <2>1. \A n \in 0..N : n \in Good
    BY <1>1, <1>5, <1>6, Keeping!Induction
  <2> QED BY <2>1, <1>1
<1>8. Of(N) = {s[n] : n \in keep \cap DOMAIN s}
  BY <1>1
<1> HIDE DEF Of
<1> QED BY <1>4, <1>7, <1>8

(* The positions of a list that hold something.                              *)
LEMMA PositionsHolding ==
    ASSUME NEW n \in Nat, NEW ident, ident = [r \in 1..n |-> r], NEW keep \in SUBSET (1..n)
    PROVE  ToSet(Kept(ident, keep)) = keep /\ Len(Kept(ident, keep)) = Cardinality(keep)
<1>1. ident \in Seq(Int) /\ DOMAIN ident = 1..n /\ \A r \in 1..n : ident[r] = r
  OBVIOUS
<1>2. Ascending(ident)
  BY <1>1 DEF Ascending
<1> DEFINE k == Kept(ident, keep)
<1>3. ToSet(k) = {ident[r] : r \in keep \cap DOMAIN ident} /\ Len(k) = Cardinality(ToSet(k))
  BY <1>1, <1>2, KeptAscending
<1> HIDE DEF k
<1>4. {ident[r] : r \in keep \cap DOMAIN ident} = keep
  BY <1>1
<1> QED BY <1>3, <1>4 DEF k

LEMMA DisjointSize ==
    ASSUME NEW S, NEW T, IsFiniteSet(S), IsFiniteSet(T), S \cap T = {}
    PROVE  IsFiniteSet(S \cup T) /\ Cardinality(S \cup T) = Cardinality(S) + Cardinality(T)
<1>1. Cardinality(S) \in Nat /\ Cardinality(T) \in Nat /\ Cardinality({}) = 0
  BY FS_CardinalityType, FS_EmptySet
<1>2. IsFiniteSet(S \cup T) /\ Cardinality(S \cup T) = Cardinality(S) + Cardinality(T) - Cardinality(S \cap T)
  BY FS_Union
<1>3. Cardinality(S \cap T) = 0
  BY <1>1, ZenonT(60)
<1> QED BY <1>1, <1>2, <1>3

LEMMA FourParts ==
    ASSUME NEW n \in Nat, NEW is \in [1..n -> Kinds]
    PROVE  LET of(k) == {r \in 1..n : is[r] = k}
           IN Cardinality(of("number")) + Cardinality(of("missing")) + Cardinality(of("redacted"))
                  + Cardinality(of("unparsed")) = n
<1> DEFINE A == {r \in 1..n : is[r] = "number"}
           B == {r \in 1..n : is[r] = "missing"}
           C == {r \in 1..n : is[r] = "redacted"}
           D == {r \in 1..n : is[r] = "unparsed"}
<1>1. IsFiniteSet(1..n) /\ Cardinality(1..n) = n
  BY FS_Interval
<1>2. A \in SUBSET (1..n) /\ B \in SUBSET (1..n) /\ C \in SUBSET (1..n) /\ D \in SUBSET (1..n)
  OBVIOUS
<1>3. A \cup B \cup C \cup D = 1..n
  BY DEF Kinds
<1>4. A \cap B = {} /\ (A \cup B) \cap C = {} /\ (A \cup B \cup C) \cap D = {}
  OBVIOUS
<1> HIDE DEF A, B, C, D
<1>5. IsFiniteSet(A) /\ IsFiniteSet(B) /\ IsFiniteSet(C) /\ IsFiniteSet(D)
  BY <1>1, <1>2, FS_Subset
<1> DEFINE AB == A \cup B
           ABC == AB \cup C
<1>6. AB \cap C = {} /\ ABC \cap D = {} /\ ABC \cup D = 1..n
  BY <1>3, <1>4
<1>7. IsFiniteSet(AB) /\ Cardinality(AB) = Cardinality(A) + Cardinality(B)
  BY <1>4, <1>5, DisjointSize
<1> HIDE DEF AB
<1>8. IsFiniteSet(ABC) /\ Cardinality(ABC) = Cardinality(AB) + Cardinality(C)
  BY <1>5, <1>6, <1>7, DisjointSize
<1> HIDE DEF ABC
<1>9. Cardinality(ABC \cup D) = Cardinality(ABC) + Cardinality(D)
  BY <1>5, <1>6, <1>8, DisjointSize
<1>10. /\ Cardinality(A) \in Nat /\ Cardinality(B) \in Nat
       /\ Cardinality(C) \in Nat /\ Cardinality(D) \in Nat
  BY <1>5, FS_CardinalityType
<1>11. Cardinality(A) + Cardinality(B) + Cardinality(C) + Cardinality(D) = n
  BY <1>1, <1>6, <1>7, <1>8, <1>9
<1> QED BY <1>10, <1>11 DEF A, B, C, D

(* The figures of a column, by the kinds of its cells.                       *)
Sums(n, is, index, label, kind, col) ==
    LET of(k) == {r \in 1..n : is[r] = k}
    IN /\ col.index = index /\ col.label = label /\ col.kind = kind
       /\ ToSet(col.rows) \subseteq of("number")
       /\ col.nRedacted = Cardinality(of("redacted"))
       /\ col.kind = "numeric" => Len(col.rows) + col.nMissing + col.nRedacted + col.nUnparsed = n

LEMMA SummedCounts ==
    ASSUME NEW n \in Nat, NEW is \in [1..n -> Kinds], NEW index, NEW label, NEW kind,
           NEW col, col = Summed(index, label, is, kind)
    PROVE  Sums(n, is, index, label, kind, col)
<1> DEFINE of(k) == {r \in 1..n : is[r] = k}
           ident == [r \in DOMAIN is |-> r]
           rows(k) == Kept(ident, {m \in DOMAIN ident : is[ident[m]] = k})
           read == IF kind = "numeric" THEN rows("number") ELSE <<>>
           missing == Len(rows("missing"))
           redacted == Len(rows("redacted"))
           unparsed == Len(rows("unparsed"))
           summarised == kind = "numeric" /\ Len(rows("number")) >= MinValuesToSummarise
<1>1. col = [index |-> index, label |-> label, kind |-> kind, rows |-> read, nMissing |-> missing,
             nRedacted |-> redacted, nUnparsed |-> unparsed, summarised |-> summarised]
  BY DEF Summed, Those
<1>2. DOMAIN is = 1..n
  OBVIOUS
<1>3. ident = [r \in 1..n |-> r] /\ DOMAIN ident = 1..n /\ \A r \in 1..n : ident[r] = r
  BY <1>2
<1> HIDE DEF ident
<1>4. ASSUME NEW k PROVE ToSet(rows(k)) = of(k) /\ Len(rows(k)) = Cardinality(of(k))
  <2>1. {m \in DOMAIN ident : is[ident[m]] = k} = of(k) /\ of(k) \in SUBSET (1..n)
    BY <1>3
  <2> HIDE DEF of
  <2>2. ToSet(Kept(ident, of(k))) = of(k) /\ Len(Kept(ident, of(k))) = Cardinality(of(k))
    BY <1>3, <2>1, PositionsHolding
  <2> QED BY <2>1, <2>2
<1> HIDE DEF rows
<1>5. ToSet(<<>>) = {}
  BY DEF ToSet
<1>6. Cardinality(of("number")) + Cardinality(of("missing")) + Cardinality(of("redacted"))
          + Cardinality(of("unparsed")) = n
  BY FourParts
<1>7. ToSet(read) \subseteq of("number")
  BY <1>4, <1>5
<1>8. kind = "numeric" => Len(read) + missing + redacted + unparsed = n
  <2>1. /\ Len(rows("number")) = Cardinality(of("number")) /\ missing = Cardinality(of("missing"))
        /\ redacted = Cardinality(of("redacted")) /\ unparsed = Cardinality(of("unparsed"))
    BY <1>4
  <2>2. \A k : Cardinality(of(k)) \in Nat
    <3> SUFFICES ASSUME NEW k PROVE Cardinality(of(k)) \in Nat
      OBVIOUS
    <3>1. of(k) \in SUBSET (1..n)
      OBVIOUS
    <3> HIDE DEF of
    <3>2. Cardinality(of(k)) \in 0..n
      BY <3>1, SizeOfPart
    <3> QED BY <3>2
  <2> HIDE DEF of
  <2> QED BY <1>6, <2>1, <2>2
<1>9. redacted = Cardinality(of("redacted"))
  BY <1>4
<1> HIDE DEF read, missing, redacted, unparsed, summarised, of
<1>10. /\ col.index = index /\ col.label = label /\ col.kind = kind
       /\ ToSet(col.rows) \subseteq of("number")
       /\ col.nRedacted = Cardinality(of("redacted"))
       /\ col.kind = "numeric" => Len(col.rows) + col.nMissing + col.nRedacted + col.nUnparsed = n
  BY <1>1, <1>7, <1>8, <1>9
<1> QED BY <1>10 DEF of, Sums

(* The elements of a page that are asked for, in their order.                *)
LEMMA PlacesAscending ==
    ASSUME NEW p \in Seq(Scanned), NEW doc \in Documents(p), NEW keep,
           NEW s, s = Kept([j \in DOMAIN doc.els |-> j], keep)
    PROVE  /\ s \in Seq(DOMAIN p) /\ Ascending(s) /\ DOMAIN s = 1..Len(s) /\ Len(s) \in Nat
           /\ \A n \in DOMAIN s : s[n] \in keep
<1> DEFINE is == [j \in DOMAIN doc.els |-> j]
<1>1. DOMAIN doc.els = DOMAIN p /\ DOMAIN p = 1..Len(p) /\ Len(p) \in Nat
  BY ElementTexts
<1>2. is \in Seq(Int) /\ DOMAIN is = DOMAIN p /\ \A j \in DOMAIN p : is[j] = j
  BY <1>1
<1>3. s = Kept(is, keep)
  OBVIOUS
<1> HIDE DEF is
<1>4. Ascending(is)
  BY <1>2 DEF Ascending
<1>5. Ascending(s) /\ ToSet(s) = {is[n] : n \in keep \cap DOMAIN is}
  BY <1>2, <1>3, <1>4, KeptAscending
<1>6. s \in Seq(DOMAIN p)
  BY SomePositions
<1>7. ASSUME NEW n \in DOMAIN s PROVE s[n] \in keep
  <2>1. s[n] \in ToSet(s)
    BY DEF ToSet
  <2>2. PICK m \in keep \cap DOMAIN is : s[n] = is[m]
    BY <1>5, <2>1
  <2> QED BY <1>2, <2>2
<1>8. DOMAIN s = 1..Len(s) /\ Len(s) \in Nat
  BY <1>6
<1> QED BY <1>5, <1>6, <1>7, <1>8

(* A cell of a row is an element that is there.                              *)
LEMMA CellThere ==
    ASSUME NEW p \in Seq(Scanned), NEW doc \in Documents(p), NEW row, NEW c \in Nat \ {0}
    PROVE  LET cell == CellAt(doc, row, c) IN cell = 0 \/ (cell \in DOMAIN p /\ cell \notin doc.gone)
<1> DEFINE ident == [j \in DOMAIN doc.els |-> j]
           keep == {n \in DOMAIN ident : Present(doc, ident[n]) /\ doc.els[ident[n]].parent = row}
           s == Children(doc, row)
<1>1. s = Kept(ident, keep)
  BY DEF Children, Those
<1>2. \A n \in keep : Present(doc, n)
  OBVIOUS
<1> HIDE DEF keep, s
<1>3. s \in Seq(DOMAIN p) /\ DOMAIN s = 1..Len(s) /\ Len(s) \in Nat /\ \A n \in DOMAIN s : s[n] \in keep
  BY <1>1, PlacesAscending
<1>4. ASSUME c <= Len(s) PROVE s[c] \in DOMAIN p /\ s[c] \notin doc.gone
  <2>1. c \in DOMAIN s
    BY <1>3, <1>4
  <2>2. s[c] \in DOMAIN p
    BY <1>3, <2>1
  <2>3. Present(doc, s[c])
    BY <1>2, <1>3, <2>1
  <2> QED BY <2>2, <2>3 DEF Present
<1>5. CellAt(doc, row, c) = IF c > Len(s) THEN 0 ELSE s[c]
  BY DEF CellAt, s
<1>6. c > Len(s) \/ c <= Len(s)
  BY <1>3
<1> QED BY <1>4, <1>5, <1>6

(* The header row is the first of the rows of headings, and the others are   *)
(* the body.                                                                 *)
FirstHeader(p, doc, rows, header) ==
    /\ header = 0 \/ (header \in ToSet(rows) /\ IsHeaderRow(doc, header))
    /\ Kept(rows, {n \in DOMAIN rows : rows[n] # header}) = Body(doc, rows)
    /\ Body(doc, rows) \in Seq(DOMAIN p)

LEMMA HeaderIsFirst ==
    ASSUME NEW p \in Seq(Scanned), NEW doc, NEW rows \in Seq(DOMAIN p), Ascending(rows),
           NEW header, header = HeaderRow(doc, rows)
    PROVE  FirstHeader(p, doc, rows, header)
<1> DEFINE keep == {n \in DOMAIN rows : IsHeaderRow(doc, rows[n])}
           headers == Kept(rows, keep)
<1>1. rows \in Seq(Int) /\ DOMAIN rows = 1..Len(rows) /\ \A n \in DOMAIN rows : rows[n] \in Nat \ {0}
  <2>1. DOMAIN p = 1..Len(p) /\ Len(p) \in Nat
    OBVIOUS
  <2>2. \A n \in 1..Len(rows) : rows[n] \in DOMAIN p
    BY Positions
  <2> QED BY <2>1, <2>2
<1>2. header = IF headers = <<>> THEN 0 ELSE headers[1]
  BY DEF HeaderRow, Those
<1>3. /\ headers \in Seq(Int) /\ Ascending(headers)
      /\ ToSet(headers) = {rows[n] : n \in keep \cap DOMAIN rows}
  <2> HIDE DEF keep
  <2> QED BY <1>1, KeptAscending
<1>4. \A n \in DOMAIN rows : IsHeaderRow(doc, rows[n]) <=> rows[n] \in ToSet(headers)
  <2> HIDE DEF headers
  <2>1. ASSUME NEW n \in DOMAIN rows, rows[n] \in ToSet(headers) PROVE IsHeaderRow(doc, rows[n])
    <3>1. PICK m \in keep : rows[m] = rows[n]
      BY <1>3, <2>1
    <3> QED BY <3>1
  <2>2. ASSUME NEW n \in DOMAIN rows, IsHeaderRow(doc, rows[n]) PROVE rows[n] \in ToSet(headers)
    <3>1. n \in keep \cap DOMAIN rows
      BY <2>2
    <3> QED BY <1>3, <3>1
  <2> QED BY <2>1, <2>2
<1>5. \A h \in ToSet(headers) : \E n \in DOMAIN rows : h = rows[n]
  <2> HIDE DEF headers, keep
  <2> QED BY <1>3
<1> HIDE DEF headers, keep
<1>6. DOMAIN headers = 1..Len(headers) /\ Len(headers) \in Nat
  BY <1>3
<1>7. CASE headers = <<>>
  <2>1. ToSet(headers) = {} /\ header = 0
    BY <1>2, <1>7 DEF ToSet
  <2>2. \A n \in DOMAIN rows : ~IsHeaderRow(doc, rows[n]) /\ rows[n] # header
    BY <1>1, <1>4, <2>1
  <2>3. {n \in DOMAIN rows : rows[n] # header}
            = {n \in DOMAIN rows : ~(IsHeaderRow(doc, rows[n])
                                     /\ \A q \in ToSet(rows) : IsHeaderRow(doc, q) => rows[n] <= q)}
    BY <2>2
  <2>4. Kept(rows, {n \in DOMAIN rows : rows[n] # header}) = Body(doc, rows)
    BY <2>3 DEF Those, Body
  <2>5. Body(doc, rows) \in Seq(DOMAIN p)
    BY KeptType DEF Body, Those
  <2> QED BY <2>1, <2>4, <2>5 DEF FirstHeader
<1>8. CASE headers # <<>>
  <2>1. 1 \in DOMAIN headers /\ header = headers[1] /\ header \in ToSet(headers)
    <3>1. Len(headers) # 0
      BY <1>3, <1>8
    <3> QED BY <1>2, <1>6, <1>8, <3>1 DEF ToSet
  <2>2. PICK f \in DOMAIN rows : header = rows[f]
    BY <1>5, <2>1
  <2>3. IsHeaderRow(doc, header) /\ header \in ToSet(rows)
    BY <1>4, <2>1, <2>2 DEF ToSet
  <2>4. \A h \in ToSet(headers) : header <= h
    <3> SUFFICES ASSUME NEW n \in DOMAIN headers PROVE headers[1] <= headers[n]
      BY <2>1 DEF ToSet
    <3>1. headers[1] \in Int /\ headers[n] \in Int /\ (n = 1 \/ 1 < n)
      BY <1>3, <1>6, <2>1
    <3> QED BY <1>3, <2>1, <3>1 DEF Ascending
  <2>5. ASSUME NEW n \in DOMAIN rows
        PROVE  rows[n] = header <=> (IsHeaderRow(doc, rows[n])
                                     /\ \A q \in ToSet(rows) : IsHeaderRow(doc, q) => rows[n] <= q)
    <3>1. \A q \in ToSet(rows) : IsHeaderRow(doc, q) => header <= q
      BY <1>4, <2>4 DEF ToSet
    <3>2. (\A q \in ToSet(rows) : IsHeaderRow(doc, q) => rows[n] <= q) => rows[n] <= header
      BY <2>3
    <3>3. rows[n] \in Int /\ header \in Int
      BY <1>1, <2>2
    <3>4. IsHeaderRow(doc, rows[n]) => header <= rows[n]
      BY <1>4, <2>4
    <3> QED BY <2>3, <3>1, <3>2, <3>3, <3>4
  <2>6. {n \in DOMAIN rows : rows[n] # header}
            = {n \in DOMAIN rows : ~(IsHeaderRow(doc, rows[n])
                                     /\ \A q \in ToSet(rows) : IsHeaderRow(doc, q) => rows[n] <= q)}
    BY <2>5
  <2>7. Kept(rows, {n \in DOMAIN rows : rows[n] # header}) = Body(doc, rows)
    BY <2>6 DEF Those, Body
  <2>8. Body(doc, rows) \in Seq(DOMAIN p)
    BY KeptType DEF Body, Those
  <2> QED BY <2>3, <2>7, <2>8 DEF FirstHeader
<1> QED BY <1>7, <1>8

(* What a reading is made of.                                                *)
Reading(doc, header, body, read) ==
    /\ read.rows \in 0..Len(body)
    /\ read.rows \in 1..(Len(body) - 1) => read.truncated
    /\ \A col \in ToSet(read.columns) : \E c \in Nat \ {0} :
           col = ReadCells(doc, header, c, [r \in 1..read.rows |-> CellAt(doc, body[r], c)])

LEMMA ReadTold ==
    ASSUME NEW p \in Seq(Scanned), NEW doc \in Documents(p), NEW header, NEW body \in Seq(DOMAIN p),
           NEW read, read = ReadBody(doc, header, body)
    PROVE  Reading(doc, header, body, read)
<1> DEFINE declared == IF header # 0 THEN Len(Children(doc, header))
                       ELSE FoldLeft(LAMBDA m, r : MostOf(m, Len(Children(doc, r))), 0, body)
           columns == LeastOf(declared, MaxColumns)
           rows == LeastOf(Len(body), LeastOf(MaxRows, MaxTableCells \div columns))
           whole == ReadRows(doc, header, body, declared, columns, rows)
<1>1. read = IF columns = 0 THEN NothingRead ELSE whole
  BY DEF ReadBody
<1>2. declared \in Nat
  BY WidthType
<1> HIDE DEF declared
<1>3. columns \in Nat
  BY <1>2, AnalysisAssumption DEF LeastOf
<1>4. Len(body) \in Nat
  OBVIOUS
<1> HIDE DEF columns
<1>5. CASE columns = 0
  <2>1. read.rows = 0 /\ read.columns = <<>>
    BY <1>1, <1>5 DEF NothingRead
  <2>2. ToSet(<<>>) = {}
    BY DEF ToSet
  <2>3. ToSet(read.columns) = {}
    BY <2>1, <2>2
  <2> QED BY <1>4, <2>1, <2>3 DEF Reading
<1>6. CASE columns # 0
  <2> DEFINE most == MaxTableCells \div columns
             Column(c) == ReadCells(doc, header, c, [r \in 1..rows |-> CellAt(doc, body[r], c)])
             cols == [c \in 1..columns |-> Column(c)]
             short == rows < Len(body) \/ declared > columns
  <2>1. most \in Nat
    BY <1>3, <1>6, AnalysisAssumption
  <2> HIDE DEF most
  <2>2. rows \in 0..Len(body)
    <3>1. rows = LeastOf(Len(body), LeastOf(MaxRows, most))
      BY DEF most
    <3> QED BY <1>4, <2>1, <3>1, AnalysisAssumption DEF LeastOf
  <2>3. whole = [rows |-> rows, truncated |-> short, columns |-> cols]
    BY DEF ReadRows
  <2> HIDE DEF rows, short, cols, whole
  <2>4. read.rows = rows /\ read.truncated = short /\ read.columns = cols
    BY <1>1, <1>6, <2>3
  <2>5. rows \in 1..(Len(body) - 1) => short
    BY <1>4, <2>2 DEF short
  <2>6. ASSUME NEW col \in ToSet(cols) PROVE \E c \in Nat \ {0} : col = Column(c)
    <3> HIDE DEF Column
    <3>1. \E c \in 1..columns : col = Column(c)
      BY DEF ToSet, cols
    <3> QED BY <1>3, <3>1
  <2>7. \A col \in ToSet(read.columns) : \E c \in Nat \ {0} :
            col = ReadCells(doc, header, c, [r \in 1..read.rows |-> CellAt(doc, body[r], c)])
    BY <2>4, <2>6
  <2> QED BY <2>2, <2>4, <2>5, <2>7 DEF Reading
<1> QED BY <1>5, <1>6

(* What the figures of a column count.                                       *)
Counts(p, F, x, n, body, header, c, col) ==
    LET cell(r) == CellAt(x.doc, body[r], c)
        written == {r \in 1..n : Writes(p, F, x, cell(r)) # {}}
        left == {r \in written : \A d \in Writes(p, F, x, cell(r)) : ~Clears(Blank(p), d)}
        pieces == {r \in 1..n : PieceWithin(p, cell(r))}
    IN /\ col.index = c /\ col.label = LabelOf(x.doc, header, c)
       /\ ToSet(col.rows) \cap left = {}
       /\ col.nRedacted \in Cardinality(left)..Cardinality(written \cup pieces)
       /\ col.kind = "numeric" => Len(col.rows) + col.nMissing + col.nRedacted + col.nUnparsed = n

(* A column that was read of a marked document.                              *)
LEMMA ColumnTold ==
    ASSUME NEW p \in Seq(Scanned), Nested(p), NEW F, NEW x, x.doc \in Documents(p), Marked(p, F, x),
           NEW n \in Nat, NEW body, NEW header, NEW c \in Nat \ {0},
           NEW col, col = ReadCells(x.doc, header, c, [r \in 1..n |-> CellAt(x.doc, body[r], c)])
    PROVE  Counts(p, F, x, n, body, header, c, col)
<1> DEFINE doc == x.doc
           cell(r) == CellAt(doc, body[r], c)
           written == {r \in 1..n : Writes(p, F, x, cell(r)) # {}}
           left == {r \in written : \A d \in Writes(p, F, x, cell(r)) : ~Clears(Blank(p), d)}
           pieces == {r \in 1..n : PieceWithin(p, cell(r))}
           cells == [r \in 1..n |-> cell(r)]
           is == [r \in DOMAIN cells |-> KindOfCell(doc, cells[r])]
           label == LabelOf(doc, header, c)
           distinct == Cardinality({CellText(doc, cells[r]) :
                                       r \in {q \in DOMAIN is : is[q] \in {"number", "unparsed"}}})
           kind == Classified(is, distinct)
<1>1. col = Summed(c, label, is, kind)
  BY DEF ReadCells, ReadColumn
<1>2. is = [r \in 1..n |-> KindOfCell(doc, cell(r))]
  OBVIOUS
<1> HIDE DEF distinct, kind, label, is, cells
<1>3. ASSUME NEW r \in 1..n
      PROVE  /\ is[r] \in Kinds
             /\ is[r] = "redacted" => r \in written \cup pieces
             /\ r \in left => is[r] = "redacted"
  <2> DEFINE e == cell(r)
  <2>1. is[r] = KindOfCell(doc, e)
    BY <1>2
  <2>2. e = 0 \/ (e \in DOMAIN p /\ e \notin doc.gone)
    BY CellThere
  <2>3. /\ r \in written <=> Writes(p, F, x, e) # {}
        /\ r \in pieces <=> PieceWithin(p, e)
        /\ r \in left <=> Writes(p, F, x, e) # {} /\ \A d \in Writes(p, F, x, e) : ~Clears(Blank(p), d)
    OBVIOUS
  <2> HIDE DEF e, written, pieces, left
  <2>4. CASE e = 0
    <3>1. is[r] = "missing" /\ "missing" # "redacted" /\ "missing" \in Kinds
      BY <2>1, <2>4 DEF KindOfCell, Kinds
    <3>2. Within(p, 0) = {}
      BY DEF Within
    <3>3. Writes(p, F, x, e) = {}
      BY <2>4, <3>2 DEF Writes
    <3> QED BY <2>3, <3>1, <3>3
  <2>5. CASE e # 0
    <3>1. e \in DOMAIN p /\ e \notin doc.gone
      BY <2>2, <2>5
    <3>2. is[r] = KindOfText(CellText(doc, e))
      BY <2>1, <2>5 DEF KindOfCell
    <3>3. CellText(doc, e) \in Seq(Tokens)
      BY <3>1, CellParts
    <3>4. is[r] \in Kinds /\ (is[r] = "redacted" <=> Redacted(CellText(doc, e)))
      BY <3>2, <3>3, KindMarked
    <3>5. /\ Redacted(CellText(x.doc, e)) => Writes(p, F, x, e) # {} \/ PieceWithin(p, e)
          /\ Writes(p, F, x, e) # {} /\ (\A d \in Writes(p, F, x, e) : ~Clears(Blank(p), d)) =>
                 Redacted(CellText(x.doc, e))
      BY <3>1, CellMarked
    <3> QED BY <2>3, <3>4, <3>5
  <2> QED BY <2>4, <2>5
<1>4. is \in [1..n -> Kinds]
  BY <1>2, <1>3
<1> DEFINE of(k) == {r \in 1..n : is[r] = k}
<1>5. /\ col.index = c /\ col.label = label /\ col.kind = kind
      /\ ToSet(col.rows) \subseteq of("number")
      /\ col.nRedacted = Cardinality(of("redacted"))
      /\ col.kind = "numeric" => Len(col.rows) + col.nMissing + col.nRedacted + col.nUnparsed = n
  <2> HIDE DEF cell, written, left, pieces, of
  <2>1. Sums(n, is, c, label, kind, col)
    BY <1>1, <1>4, SummedCounts
  <2> QED BY <2>1 DEF Sums, of
<1> HIDE DEF cell
<1>6. left \subseteq of("redacted") /\ of("redacted") \subseteq written \cup pieces
  BY <1>3
<1>7. /\ left \in SUBSET (1..n) /\ of("redacted") \in SUBSET (1..n) /\ written \cup pieces \in SUBSET (1..n)
      /\ "number" # "redacted"
  OBVIOUS
<1>8. of("number") \cap of("redacted") = {}
  BY <1>7
<1> HIDE DEF left, written, pieces, of
<1>9. /\ Cardinality(left) <= Cardinality(of("redacted"))
      /\ Cardinality(of("redacted")) <= Cardinality(written \cup pieces)
  <2>1. IsFiniteSet(1..n)
    BY FS_Interval
  <2>2. IsFiniteSet(of("redacted")) /\ IsFiniteSet(written \cup pieces)
    BY <1>7, <2>1, FS_Subset
  <2> QED BY <1>6, <2>2, FS_Subset
<1>10. /\ Cardinality(left) \in Nat /\ Cardinality(of("redacted")) \in Nat
       /\ Cardinality(written \cup pieces) \in Nat
  <2>1. \A S \in SUBSET (1..n) : Cardinality(S) \in 0..n
    BY SizeOfPart
  <2> QED BY <1>7, <2>1
<1>11. ToSet(col.rows) \cap left = {}
  BY <1>5, <1>6, <1>8
<1>12. col.nRedacted \in Cardinality(left)..Cardinality(written \cup pieces)
  BY <1>5, <1>9, <1>10
<1> QED BY <1>5, <1>11, <1>12 DEF Counts, cell, written, left, pieces, label

(* What is told of a table that was read is the reading, or part of it.      *)
LEMMA AnalysisTold ==
    ASSUME NEW doc, ChooseTable(doc) # 0, NEW read, read = ReadTable(doc, ChooseTable(doc)),
           NEW done, NEW told, told = AnalyzeDocument(doc, done)
    PROVE  /\ told.columns = <<>> \/ told.columns = read.columns
           /\ told.rows = 0 \/ told.rows = read.rows
           /\ told.rows # 0 /\ read.truncated => told.refusal = "too-many-cells"
<1> DEFINE table == ChooseTable(doc)
           numeric == NumericOf(read)
<1>1. told = Analyzed(read, table, numeric, done)
  BY DEF AnalyzeDocument, AnalyzeRead
<1> HIDE DEF table, numeric
<1>2. ASSUME NEW reason, NEW t, NEW columns
      PROVE  Refuse(reason, t, columns).columns = columns /\ Refuse(reason, t, columns).rows = 0
  BY DEF Refuse
<1>3. /\ Figures(read, table, numeric, done).columns = read.columns
      /\ Figures(read, table, numeric, done).rows = read.rows
      /\ read.truncated => Figures(read, table, numeric, done).refusal = "too-many-cells"
  BY DEF Figures
<1> DEFINE figures == Figures(read, table, numeric, done)
           why == IF \E c \in ToSet(read.columns) : c.kind = "redacted"
                  THEN "all-columns-redacted" ELSE "no-numeric-column"
<1>4. \/ told = figures
      \/ told = Refuse("no-table-found", 0, <<>>)
      \/ told = Refuse(why, 0, read.columns)
  BY <1>1 DEF Analyzed
<1> HIDE DEF figures, why
<1>5. CASE told = figures
  BY <1>3, <1>5 DEF figures
<1>6. CASE told = Refuse("no-table-found", 0, <<>>)
  <2>1. told.rows = 0 /\ told.columns = <<>>
    BY <1>2, <1>6
  <2> QED BY <2>1
<1>7. CASE told = Refuse(why, 0, read.columns)
  <2>1. told.rows = 0 /\ told.columns = read.columns
    BY <1>2, <1>7
  <2> QED BY <2>1
<1> QED BY <1>4, <1>5, <1>6, <1>7

(* A page is nested as its elements are, stripped or not.                    *)
LEMMA PageNested ==
    ASSUME NEW raw \in Pages
    PROVE  /\ raw \in Seq(Scanned) /\ Nested(raw)
           /\ StripForgeries(raw) \in Seq(Scanned) /\ Nested(StripForgeries(raw))
<1> DEFINE p == StripForgeries(raw)
           own == [els |-> p, gone |-> {}]
<1>1. raw \in Seq(Scanned) /\ \A i \in DOMAIN raw : raw[i].parent < i
  BY PipelineAssumption
<1>2. \A i \in DOMAIN raw : raw[i].parent \in Nat /\ i \in Nat
  <2>1. \A i \in DOMAIN raw : raw[i] \in Scanned /\ i \in Nat
    BY <1>1
  <2> QED BY <2>1 DEF Scanned
<1>3. Nested(raw)
  BY <1>1, <1>2 DEF Nested
<1>4. p \in Seq(Scanned)
  BY <1>1, StrippedPage
<1>5. own \in Documents(raw) /\ own.els = p
  <2>1. own \in Documents(p)
    BY <1>4, UnchangedDocument
  <2> QED BY <1>1, <2>1, DocumentOfPage
<1> HIDE DEF own, p
<1>6. DOMAIN p = DOMAIN raw /\ \A i \in DOMAIN raw : p[i].parent = raw[i].parent
  BY <1>1, <1>5, ElementTexts
<1>7. Nested(p)
  BY <1>3, <1>6 DEF Nested
<1> QED BY <1>1, <1>3, <1>4, <1>7 DEF p

(* What was written in a cell, said of the page and of the document.         *)
LEMMA MarksMean ==
    ASSUME page \in Pages, NEW p, p = StripForgeries(page), redaction.doc \in Documents(p),
           NEW F, F = ToSet(redaction.detections), NEW cell, cell = 0 \/ cell \in DOMAIN p
    PROVE  /\ WrittenIn(redaction.doc, cell) = Writes(p, F, redaction, cell)
           /\ \A d \in Writes(p, F, redaction, cell) : Clears(redaction.doc, d) <=> Clears(Blank(p), d)
           /\ PiecesIn(cell) <=> PieceWithin(p, cell)
<1> DEFINE doc == redaction.doc
<1>1. page \in Seq(Scanned) /\ Nested(page) /\ p \in Seq(Scanned) /\ Nested(p)
  BY PageNested
<1>2. doc \in Documents(page)
  BY <1>1, DocumentOfPage
<1>3. Applied = Done(F, redaction)
  BY DEF Applied, Done
<1> HIDE DEF doc
<1>4. DOMAIN doc.els = DOMAIN p /\ DOMAIN page = DOMAIN p
  <2>1. DOMAIN doc.els = DOMAIN p
    BY <1>1, ElementTexts DEF doc
  <2>2. DOMAIN doc.els = DOMAIN page
    BY <1>1, <1>2, ElementTexts
  <2> QED BY <2>1, <2>2
<1>5. \A i \in DOMAIN p : doc.els[i].tag = p[i].tag
  BY DEF Documents, Els, SameElement, doc
<1>6. Within(doc.els, cell) = Within(p, cell) /\ Within(page, cell) = Within(p, cell)
  <2>1. \A i, j \in DOMAIN p : Under(doc.els, i, j) <=> Under(p, i, j)
    BY <1>1, UnderFacts DEF doc
  <2>2. \A i, j \in DOMAIN p : Under(doc.els, i, j) <=> Under(page, i, j)
    BY <1>1, <1>2, <1>4, UnderFacts
  <2>3. \A j \in DOMAIN p : (cell # 0 /\ (j = cell \/ Under(doc.els, cell, j))) <=>
                            (cell # 0 /\ (j = cell \/ Under(p, cell, j)))
    BY <2>1
  <2>4. \A j \in DOMAIN p : (cell # 0 /\ (j = cell \/ Under(page, cell, j))) <=>
                            (cell # 0 /\ (j = cell \/ Under(p, cell, j)))
    BY <2>1, <2>2
  <2> QED BY <1>4, <2>3, <2>4 DEF Within
<1>7. ASSUME NEW d, d.at \in DOMAIN p
      PROVE  /\ WritesText(doc, d) <=> WritesText(Blank(p), d)
             /\ Clears(doc, d) <=> Clears(Blank(p), d)
  <2>1. Blank(p).els[d.at].tag = doc.els[d.at].tag
    BY <1>5, <1>7 DEF Blank
  <2>2. WritesText(doc, d) <=> WritesText(Blank(p), d)
    BY <2>1 DEF WritesText
  <2> QED BY <2>2 DEF Clears
<1>8. Within(p, cell) \subseteq DOMAIN p
  BY DEF Within
<1>9. WrittenIn(doc, cell) = Writes(p, F, redaction, cell)
  <2>1. \A d : d.at \in Within(p, cell) => (WritesText(doc, d) <=> WritesText(Blank(p), d))
    BY <1>7, <1>8
  <2>2. WrittenIn(doc, cell) = {d \in Done(F, redaction) : d.at \in Within(p, cell) /\ WritesText(doc, d)}
    BY <1>3, <1>6 DEF WrittenIn
  <2>3. Writes(p, F, redaction, cell) =
            {d \in Done(F, redaction) : d.at \in Within(p, cell) /\ WritesText(Blank(p), d)}
    BY DEF Writes
  <2> QED BY <2>1, <2>2, <2>3
<1>10. \A d \in Writes(p, F, redaction, cell) : Clears(doc, d) <=> Clears(Blank(p), d)
  BY <1>7, <1>8 DEF Writes
<1>11. PiecesIn(cell) <=> PieceWithin(p, cell)
  BY <1>6 DEF PiecesIn, PieceWithin
<1> QED BY <1>9, <1>10, <1>11 DEF doc

LEMMA ToldHolds ==
    ASSUME page \in Pages, NEW p, p = StripForgeries(page), redaction.doc \in Documents(p),
           Marked(p, ToSet(redaction.detections), redaction),
           NEW done, context.analysis = AnalyzeDocument(redaction.doc, done)
    PROVE  TableTold
<1> SUFFICES ASSUME ChooseTable(redaction.doc) # 0
    PROVE  LET doc == redaction.doc
               told == context.analysis
               rows == Below(doc, ChooseTable(doc), {"tr"})
               body == Body(doc, rows)
           IN /\ \A c \in ToSet(told.columns) :
                    c.label # <<>> =>
                        \E r \in ToSet(rows) :
                            IsHeaderRow(doc, r) /\ c.label = CellText(doc, CellAt(doc, r, c.index))
              /\ told.rows > 0 => \A c \in ToSet(told.columns) :
                    LET cell(r) == CellAt(doc, body[r], c.index)
                        written == {r \in 1..told.rows : WrittenIn(doc, cell(r)) # {}}
                        left == {r \in written : \A d \in WrittenIn(doc, cell(r)) : ~Clears(doc, d)}
                        pieces == {r \in 1..told.rows : PiecesIn(cell(r))}
                    IN /\ ToSet(c.rows) \cap left = {}
                       /\ c.nRedacted \in Cardinality(left)..Cardinality(written \cup pieces)
                       /\ c.kind = "numeric" =>
                              Len(c.rows) + c.nMissing + c.nRedacted + c.nUnparsed = told.rows
              /\ told.rows \in 1..(Len(body) - 1) => told.refusal = "too-many-cells"
  BY DEF TableTold
<1> DEFINE doc == redaction.doc
           told == context.analysis
           table == ChooseTable(doc)
           rows == Below(doc, table, {"tr"})
           header == HeaderRow(doc, rows)
           body == Body(doc, rows)
           read == ReadTable(doc, table)
           F == ToSet(redaction.detections)
<1>1. p \in Seq(Scanned) /\ Nested(p)
  BY PageNested
<1>0. doc \in Documents(p)
  OBVIOUS
<1>2. rows \in Seq(DOMAIN p) /\ Ascending(rows)
  <2> DEFINE ident == [j \in DOMAIN doc.els |-> j]
             keep == {n \in DOMAIN ident : /\ Present(doc, ident[n]) /\ doc.els[ident[n]].tag \in {"tr"}
                                           /\ Under(doc.els, table, ident[n])}
  <2>1. rows = Kept(ident, keep)
    BY DEF Below, Those
  <2> HIDE DEF keep, table
  <2> QED BY <1>1, <2>1, PlacesAscending
<1>3. read = ReadBody(doc, header, Those(rows, LAMBDA r : r # header))
  BY DEF ReadTable
<1>4. table # 0 /\ read = ReadTable(doc, table) /\ told = AnalyzeDocument(doc, done)
  OBVIOUS
<1>5. /\ told.columns = <<>> \/ told.columns = read.columns
      /\ told.rows = 0 \/ told.rows = read.rows
      /\ told.rows # 0 /\ read.truncated => told.refusal = "too-many-cells"
  BY <1>4, AnalysisTold
<1>6. header = HeaderRow(doc, rows) /\ body = Body(doc, rows)
  OBVIOUS
<1> HIDE DEF table, rows, header, body, read, doc
<1>7. /\ header = 0 \/ (header \in ToSet(rows) /\ IsHeaderRow(doc, header))
      /\ Those(rows, LAMBDA r : r # header) = body
      /\ body \in Seq(DOMAIN p)
  <2>1. FirstHeader(p, doc, rows, header)
    BY <1>1, <1>2, <1>6, HeaderIsFirst
  <2> QED BY <1>6, <2>1 DEF FirstHeader, Those
<1>8. read = ReadBody(doc, header, body)
  BY <1>3, <1>7
<1>9. /\ read.rows \in 0..Len(body)
      /\ read.rows \in 1..(Len(body) - 1) => read.truncated
      /\ \A col \in ToSet(read.columns) : \E c \in Nat \ {0} :
             col = ReadCells(doc, header, c, [r \in 1..read.rows |-> CellAt(doc, body[r], c)])
  <2>1. Reading(doc, header, body, read)
    BY <1>0, <1>1, <1>7, <1>8, ReadTold
  <2> QED BY <2>1 DEF Reading
<1>10. read.rows \in Nat
  BY <1>7, <1>9
<1>11. ToSet(told.columns) \subseteq ToSet(read.columns)
  <2>1. ToSet(<<>>) = {}
    BY DEF ToSet
  <2> QED BY <1>5, <2>1
<1>12. ASSUME NEW col \in ToSet(told.columns)
       PROVE  /\ col.label # <<>> =>
                     \E r \in ToSet(rows) :
                         IsHeaderRow(doc, r) /\ col.label = CellText(doc, CellAt(doc, r, col.index))
              /\ told.rows > 0 =>
                    LET cell(r) == CellAt(doc, body[r], col.index)
                        written == {r \in 1..told.rows : WrittenIn(doc, cell(r)) # {}}
                        left == {r \in written : \A d \in WrittenIn(doc, cell(r)) : ~Clears(doc, d)}
                        pieces == {r \in 1..told.rows : PiecesIn(cell(r))}
                    IN /\ ToSet(col.rows) \cap left = {}
                       /\ col.nRedacted \in Cardinality(left)..Cardinality(written \cup pieces)
                       /\ col.kind = "numeric" =>
                              Len(col.rows) + col.nMissing + col.nRedacted + col.nUnparsed = told.rows
  <2> DEFINE n == read.rows
  <2>1. PICK c \in Nat \ {0} :
            col = ReadCells(doc, header, c, [r \in 1..n |-> CellAt(doc, body[r], c)])
    BY <1>9, <1>11, <1>12
  <2> DEFINE cell(r) == CellAt(doc, body[r], c)
             written == {r \in 1..n : Writes(p, F, redaction, cell(r)) # {}}
             left == {r \in written : \A d \in Writes(p, F, redaction, cell(r)) : ~Clears(Blank(p), d)}
             pieces == {r \in 1..n : PieceWithin(p, cell(r))}
             written2 == {r \in 1..n : WrittenIn(doc, cell(r)) # {}}
             left2 == {r \in written2 : \A d \in WrittenIn(doc, cell(r)) : ~Clears(doc, d)}
             pieces2 == {r \in 1..n : PiecesIn(cell(r))}
  <2> HIDE DEF n
  <2>2. /\ col.index = c /\ col.label = LabelOf(doc, header, c)
        /\ ToSet(col.rows) \cap left = {}
        /\ col.nRedacted \in Cardinality(left)..Cardinality(written \cup pieces)
        /\ col.kind = "numeric" => Len(col.rows) + col.nMissing + col.nRedacted + col.nUnparsed = n
    <3>1. n \in Nat
      BY <1>10 DEF n
    <3> HIDE DEF F
    <3>2. Marked(p, F, redaction)
      BY DEF F
    <3>3. col = ReadCells(redaction.doc, header, c, [r \in 1..n |-> CellAt(redaction.doc, body[r], c)])
      BY <2>1 DEF doc
    <3>4. Counts(p, F, redaction, n, body, header, c, col)
      BY <1>1, <3>1, <3>2, <3>3, ColumnTold
    <3> QED BY <3>4 DEF Counts, doc
  <2>3. ASSUME NEW r \in 1..n
        PROVE  /\ WrittenIn(doc, cell(r)) = Writes(p, F, redaction, cell(r))
               /\ \A d \in Writes(p, F, redaction, cell(r)) : Clears(doc, d) <=> Clears(Blank(p), d)
               /\ PiecesIn(cell(r)) <=> PieceWithin(p, cell(r))
    <3> DEFINE e == cell(r)
    <3>1. e = 0 \/ e \in DOMAIN p
      BY <1>0, <1>1, CellThere
    <3> HIDE DEF e, F
    <3>2. F = ToSet(redaction.detections)
      BY DEF F
    <3>3. /\ WrittenIn(doc, e) = Writes(p, F, redaction, e)
          /\ \A d \in Writes(p, F, redaction, e) : Clears(doc, d) <=> Clears(Blank(p), d)
          /\ PiecesIn(e) <=> PieceWithin(p, e)
      BY <3>1, <3>2, MarksMean DEF doc
    <3> QED BY <3>3 DEF e
  <2> HIDE DEF F, cell, doc
  <2>4. written2 = written /\ pieces2 = pieces
    BY <2>3
  <2>5. left2 = left
    <3>1. \A r \in 1..n : (\A d \in WrittenIn(doc, cell(r)) : ~Clears(doc, d)) <=>
                          (\A d \in Writes(p, F, redaction, cell(r)) : ~Clears(Blank(p), d))
      BY <2>3
    <3> QED BY <2>4, <3>1
  <2> HIDE DEF written, left, pieces, written2, left2, pieces2
  <2>6. /\ ToSet(col.rows) \cap left2 = {}
        /\ col.nRedacted \in Cardinality(left2)..Cardinality(written2 \cup pieces2)
    <3>1. Cardinality(left2) = Cardinality(left) /\
          Cardinality(written2 \cup pieces2) = Cardinality(written \cup pieces)
      BY ZenonT(60), <2>4, <2>5
    <3> QED BY <2>2, <2>5, <3>1
  <2>7. col.label # <<>> =>
            \E r \in ToSet(rows) :
                IsHeaderRow(doc, r) /\ col.label = CellText(doc, CellAt(doc, r, col.index))
    BY <1>7, <2>2 DEF LabelOf, doc
  <2>8. told.rows > 0 => told.rows = n
    BY <1>5 DEF n
  <2> QED BY <2>2, <2>6, <2>7, <2>8 DEF written2, left2, pieces2, cell
<1>13. told.rows \in 1..(Len(body) - 1) => told.refusal = "too-many-cells"
  <2>1. told.rows \in 1..(Len(body) - 1) => told.rows # 0
    OBVIOUS
  <2> QED BY <1>5, <1>9, <2>1
<1> QED BY <1>12, <1>13 DEF doc, told, rows, body, table

(* What the step has redacted is marked where it was written, and the        *)
(* analysis in its context is of the document that was redacted.             *)
Counting ==
    /\ Inputs
    /\ stage \in {"captured", "redacted", "baked"} => context = Nothing
    /\ stage # "captured" =>
          /\ redaction.doc \in Documents(StripForgeries(page))
          /\ Marked(StripForgeries(page), ToSet(redaction.detections), redaction)
    /\ context # Nothing =>
          stage # "captured" /\ \E done : context.analysis = AnalyzeDocument(redaction.doc, done)

LEMMA CountingStart == PipelineInit => Counting
BY DEF PipelineInit, Counting, Inputs

LEMMA CountingStep == Counting /\ [PipelineNext]_pipelineVars => Counting'
<1> SUFFICES ASSUME Counting, [PipelineNext]_pipelineVars PROVE Counting'
  OBVIOUS
<1>1. ASSUME DomRedact PROVE Counting'
  <2> DEFINE seen == DecodeDetections(vision, Ratio, LeastScore, NmsPercent)
             p == StripForgeries(page)
             r == Redact(page, seen, wanted)
  <2>1. /\ stage' = "redacted" /\ redaction' = r /\ context' = Nothing
        /\ page' = page /\ vision' = vision /\ Inputs
    BY <1>1 DEF DomRedact, Counting
  <2>2. page \in Seq(Scanned) /\ vision \in Seq(Sight) /\ page \in Pages
    BY <2>1, PipelineAssumption DEF Sight, Inputs
  <2>3. seen \in Own(Finding, SeenIds) /\ seen \in Seq(Sighted)
    BY <2>2, DecodedOwn, DecodedType
  <2>4. Nested(p)
    BY <2>2, PageNested
  <2>5. r.doc \in Documents(p)
    <3> HIDE DEF seen
    <3> QED BY <2>2, <2>3, RedactType
  <2>6. Marked(p, ToSet(r.detections), r)
    <3>1. p = StripForgeries(page) /\ r = Redact(page, seen, wanted)
      OBVIOUS
    <3> HIDE DEF seen, p, r
    <3> QED BY <2>2, <2>3, <2>4, <3>1, RedactMarks
  <2>7. p = StripForgeries(page)'
    BY <2>1
  <2> HIDE DEF seen, p, r
  <2> QED BY <2>1, <2>5, <2>6, <2>7 DEF Counting, Inputs
<1>2. ASSUME NotBaked PROVE Counting'
  BY <1>2 DEF NotBaked, Counting, Inputs
<1>3. ASSUME Bake PROVE Counting'
  BY <1>3 DEF Bake, Counting, Inputs
<1>4. ASSUME Sanitize PROVE Counting'
  <2>1. PICK done, sent, earlier : context' = BuildSanitizedContext(redaction, sent, earlier, MostElements,
                                                                    AnalyzeDocument(redaction.doc, done))
    BY <1>4 DEF Sanitize
  <2>2. stage = "baked" /\ stage' = "sanitized" /\ page' = page /\ vision' = vision /\ redaction' = redaction
    BY <1>4 DEF Sanitize
  <2>3. context'.analysis = AnalyzeDocument(redaction.doc, done)
    BY <2>1 DEF BuildSanitizedContext, Pruned, Assembled
  <2> QED BY <2>2, <2>3 DEF Counting, Inputs
<1>5. ASSUME Verify PROVE Counting'
  BY <1>5 DEF Verify, Counting, Inputs
<1>6. ASSUME UNCHANGED pipelineVars PROVE Counting'
  BY <1>6 DEF pipelineVars, Counting, Inputs
<1> QED BY <1>1, <1>2, <1>3, <1>4, <1>5, <1>6 DEF PipelineNext

LEMMA CountingTold == Counting => TableTold
<1> SUFFICES ASSUME Counting PROVE TableTold
  OBVIOUS
<1>1. CASE context = Nothing
  BY <1>1 DEF TableTold
<1>2. CASE context # Nothing
  <2> DEFINE p == StripForgeries(page)
  <2>1. /\ page \in Pages /\ redaction.doc \in Documents(p)
        /\ Marked(p, ToSet(redaction.detections), redaction)
    BY <1>2 DEF Counting, Inputs
  <2>2. PICK done : context.analysis = AnalyzeDocument(redaction.doc, done)
    BY <1>2 DEF Counting
  <2>3. p = StripForgeries(page)
    OBVIOUS
  <2> HIDE DEF p
  <2> QED BY <2>1, <2>2, <2>3, ToldHolds
<1> QED BY <1>1, <1>2

(* Of every page, with whatever boxes a model saw in it, redacted with       *)
(* whatever strategies: only headings of a table leave as text, and no       *)
(* figure says less than it leaves out (analysis/table.ts, analyze.ts,       *)
(* redaction/redact.ts).                                                     *)
THEOREM TableIsTold == PipelineSpec => []TableTold
<1> QED BY CountingStart, CountingStep, CountingTold, PTL DEF PipelineSpec

===============================================================================
