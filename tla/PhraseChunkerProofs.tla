------------------------- MODULE PhraseChunkerProofs -------------------------
(***************************************************************************)
(* What becomes of the words: the chunker, for every agreement, every size *)
(* of phrase and every sequence of transcripts, and the translation of the *)
(* phrases it cuts, for every set of languages and models.                 *)
(*                                                                         *)
(* All that the chunker commits is in the words of the hypothesis it       *)
(* leaves as its last (Emission), whichever of its three calls was made;   *)
(* and the window always ends in that hypothesis (WindowIsOfLastHyp).  So  *)
(* what is spoken was agreed on, and stays a prefix of the transcript      *)
(* until a call reports that it is not.  Stamps that are in order and lie  *)
(* behind the cursor until they are committed (StampsInOrder) make the     *)
(* spans go forward.                                                       *)
(*                                                                         *)
(* A translation is answered by the jobs that were started for it: while   *)
(* the pipeline waits, each language has one that is its own or its        *)
(* family's (Asked, Waited), and a pair's job can only say its own         *)
(* language.                                                               *)
(***************************************************************************)
EXTENDS PhraseChunker, Translation, SequenceTheorems, FiniteSetTheorems, WellFoundedInduction, TLAPS

USE ChunkerAssumption DEF ChunkerAssumption

-----------------------------------------------------------------------------
(* Maxima, prefixes and the operators of the model that are built on them. *)

LEMMA MaxOfTwo == ASSUME NEW a \in Int, NEW b \in Int PROVE Max({a, b}) = IF a >= b THEN a ELSE b
<1> DEFINE m == IF a >= b THEN a ELSE b
<1>1. m \in {a, b} /\ \A x \in {a, b} : m >= x
  OBVIOUS
<1>2. ASSUME NEW n \in {a, b}, \A x \in {a, b} : n >= x PROVE n = m
  BY <1>2
<1> HIDE DEF m
<1>3. Max({a, b}) = m
  BY <1>1, <1>2 DEF Max
<1> QED BY <1>3 DEF m

LEMMA MinOfTwo == ASSUME NEW a \in Int, NEW b \in Int PROVE Min({a, b}) = IF a <= b THEN a ELSE b
<1> DEFINE m == IF a <= b THEN a ELSE b
<1>1. m \in {a, b} /\ \A x \in {a, b} : m =< x
  OBVIOUS
<1>2. ASSUME NEW n \in {a, b}, \A x \in {a, b} : n =< x PROVE n = m
  BY <1>2
<1> HIDE DEF m
<1>3. Min({a, b}) = m
  BY <1>1, <1>2 DEF Min
<1> QED BY <1>3 DEF m

\* A bounded set of natural numbers has a greatest element: of the sets of those
\* above one of them, a smallest is empty.
LEMMA Highest ==
  ASSUME NEW S \in SUBSET Nat, S # {}, NEW bound \in Nat, \A x \in S : x <= bound
  PROVE  \E m \in S : \A x \in S : m >= x
<1> DEFINE Above(x) == {y \in S : y > x}
           Tails == {Above(x) : x \in S}
<1>1. IsFiniteSet(S)
  BY FS_BoundedSetOfNaturals
<1>2. Tails \subseteq FiniteSubsetsOf(S) /\ Tails # {}
  <2>1. ASSUME NEW x \in S PROVE Above(x) \in SUBSET S /\ IsFiniteSet(Above(x))
    <3>1. Above(x) \in SUBSET S
      OBVIOUS
    <3> HIDE DEF Above
    <3> QED BY <1>1, <3>1, FS_Subset
  <2> HIDE DEF Above
  <2> QED BY <2>1 DEF FiniteSubsetsOf
<1>3. PICK U \in Tails : \A V \in Tails : <<V, U>> \notin StrictSubsetOrdering(S)
  <2>1. IsWellFoundedOn(StrictSubsetOrdering(S), FiniteSubsetsOf(S))
    BY FS_StrictSubsetOrderingWellFounded
  <2> HIDE DEF Tails
  <2> QED BY <1>2, <2>1, WFMin
<1>4. PICK m \in S : U = Above(m)
  OBVIOUS
<1>5. ASSUME NEW x \in S, ~(m >= x) PROVE FALSE
  <2>1. x \in Above(m) /\ x \notin Above(x) /\ Above(x) \subseteq Above(m) /\ Above(x) \subseteq S
        /\ Above(m) \subseteq S
    <3>1. m \in Nat /\ x \in Nat /\ x > m /\ ~(x > x)
      BY <1>5
    <3>2. ASSUME NEW y \in S, y > x PROVE y > m
      BY <3>1, <3>2
    <3> QED BY <3>1, <3>2
  <2>2. <<Above(x), U>> \in StrictSubsetOrdering(S)
    <3> HIDE DEF Above
    <3> QED BY <1>4, <2>1 DEF StrictSubsetOrdering
  <2>3. Above(x) \in Tails
    OBVIOUS
  <2> HIDE DEF Above, Tails
  <2> QED BY <1>3, <2>2, <2>3
<1> QED BY <1>5

LEMMA MaxIsHighest ==
  ASSUME NEW S \in SUBSET Nat, S # {}, NEW bound \in Nat, \A x \in S : x <= bound
  PROVE  Max(S) \in S /\ \A x \in S : Max(S) >= x
BY Highest DEF Max

LEMMA PrefixPlaces ==
  ASSUME NEW T, NEW s \in Seq(T), NEW t \in Seq(T)
  PROVE  IsPrefix(s, t) <=> Len(s) <= Len(t) /\ \A i \in 1..Len(s) : s[i] = t[i]
<1>1. Len(s) \in Nat /\ Len(t) \in Nat /\ SubSeq(s, 1, Len(s)) = s
  BY SubSeqFull
<1>2. ASSUME Len(s) <= Len(t)
      PROVE  SubSeq(t, 1, Len(s)) \in Seq(T) /\ Len(SubSeq(t, 1, Len(s))) = Len(s)
             /\ \A i \in 1..Len(s) : SubSeq(t, 1, Len(s))[i] = t[i]
  BY <1>1, <1>2
<1>3. ASSUME Len(s) <= Len(t), \A i \in 1..Len(s) : s[i] = t[i]
      PROVE  s = SubSeq(t, 1, Len(s))
  BY <1>1, <1>2, <1>3, SeqEqual
<1> QED BY <1>1, <1>2, <1>3 DEF IsPrefix

LEMMA LongestPrefix ==
  ASSUME NEW T, NEW H \in SUBSET Seq(T), H # {}
  PROVE  /\ LongestCommonPrefix(H) \in Seq(T)
         /\ \A h \in H : IsPrefix(LongestCommonPrefix(H), h)
         /\ \A p \in Seq(T) : (\A h \in H : IsPrefix(p, h)) => Len(p) <= Len(LongestCommonPrefix(H))
<1> DEFINE Common == {p \in Seq(T) : \A h \in H : IsPrefix(p, h)}
           Lengths == {Len(p) : p \in Common}
<1>1. CommonPrefixes(H) = Common
  <2>1. ASSUME NEW h \in H, NEW l \in 0..Len(h) PROVE SubSeq(h, 1, l) \in Seq(T)
    OBVIOUS
  <2>2. CommonPrefixes(H) \subseteq Common
    <3>1. ASSUME NEW h \in H PROVE Prefixes(h) \subseteq Seq(T)
      BY <2>1 DEF Prefixes
    <3>2. UNION {Prefixes(h) : h \in H} \subseteq Seq(T)
      BY <3>1
    <3> QED BY <3>2 DEF CommonPrefixes
  <2>3. ASSUME NEW p \in Common PROVE p \in CommonPrefixes(H)
    <3>1. PICK h \in H : IsPrefix(p, h)
      BY <2>3
    <3>2. Len(p) \in 0..Len(h) /\ p = SubSeq(h, 1, Len(p))
      <4>1. h \in Seq(T) /\ p \in Seq(T) /\ Len(h) \in Nat /\ Len(p) \in Nat
        BY <2>3, <3>1, SMTT(30)
      <4> QED BY <3>1, <4>1, SubSeqFull DEF IsPrefix
    <3>3. p \in Prefixes(h)
      BY <3>2 DEF Prefixes
    <3>4. p \in UNION {Prefixes(seq) : seq \in H}
      BY <3>3
    <3> QED BY <2>3, <3>4 DEF CommonPrefixes
  <2> QED BY <2>2, <2>3
<1>2. <<>> \in Common
  <2>1. ASSUME NEW h \in H PROVE IsPrefix(<<>>, h)
    <3>1. Len(<<>>) = 0 /\ Len(h) >= 0
      OBVIOUS
    <3>2. SubSeq(<<>>, 1, 0) = <<>> /\ SubSeq(h, 1, 0) = <<>>
      BY SubSeqEmpty
    <3> QED BY <3>1, <3>2 DEF IsPrefix
  <2> QED BY <2>1
<1>3. PICK h \in H : TRUE
  OBVIOUS
<1>4. Lengths \in SUBSET Nat /\ Lengths # {} /\ Len(h) \in Nat /\ \A x \in Lengths : x <= Len(h)
  <2>1. ASSUME NEW p \in Common PROVE Len(p) \in Nat /\ Len(p) <= Len(h)
    BY <1>3 DEF IsPrefix
  <2>2. Len(h) \in Nat
    BY <1>3
  <2> HIDE DEF Common
  <2> QED BY <1>2, <2>1, <2>2
<1>5. PICK m \in Lengths : \A x \in Lengths : m >= x
  <2> HIDE DEF Lengths
  <2> QED BY <1>4, Highest
<1>6. PICK longest \in Common : \A other \in Common : Len(other) <= Len(longest)
  BY <1>4, <1>5
<1> HIDE DEF Common
<1>7. LongestCommonPrefix(H) \in Common /\ \A other \in Common : Len(other) <= Len(LongestCommonPrefix(H))
  BY <1>1, <1>6 DEF LongestCommonPrefix
<1> QED BY <1>7 DEF Common

LEMMA NormalisedPlaces ==
  ASSUME NEW text \in Seq(Tokens)
  PROVE  /\ Normalised(text) \in Seq(Words) /\ Len(Normalised(text)) = Len(text)
         /\ \A i \in 1..Len(text) : Normalised(text)[i] = text[i].word
<1>1. Len(text) \in Nat /\ DOMAIN text = 1..Len(text) /\ \A i \in 1..Len(text) : text[i] \in Tokens
  OBVIOUS
<1>2. Normalised(text) \in [1..Len(text) -> Words]
  BY <1>1 DEF Normalised, Words
<1> QED BY <1>1, <1>2 DEF Normalised

\* What the window agrees on heads each of its transcripts, and all of one when
\* they are the same; a window that is not full agrees on nothing.
LEMMA Agreement ==
  ASSUME NEW win \in Seq(Seq(Words))
  PROVE  /\ AgreedLength(win) \in Nat
         /\ AgreedLength(win) > 0 => Len(win) >= AgreementN
         /\ \A i \in DOMAIN win : AgreedLength(win) <= Len(win[i])
         /\ \A i, j \in DOMAIN win : \A k \in 1..AgreedLength(win) : win[i][k] = win[j][k]
         /\ \A words \in Seq(Words) :
              Len(win) >= AgreementN /\ (\A i \in DOMAIN win : win[i] = words) => AgreedLength(win) = Len(words)
<1> DEFINE H == {win[i] : i \in DOMAIN win}
           p == LongestCommonPrefix(H)
<1>1. Len(win) \in Nat /\ DOMAIN win = 1..Len(win) /\ \A i \in DOMAIN win : win[i] \in Seq(Words)
  OBVIOUS
<1>2. CASE Len(win) < AgreementN
  <2>1. AgreedLength(win) = 0
    BY <1>2 DEF AgreedLength
  <2>2. \A s \in Seq(Words) : 0 <= Len(s)
    OBVIOUS
  <2> QED BY <1>1, <1>2, <2>1, <2>2
<1>3. CASE Len(win) >= AgreementN
  <2>1. H \in SUBSET Seq(Words) /\ win[1] \in H
    <3>1. 1 \in DOMAIN win
      BY <1>1, <1>3
    <3> QED BY <1>1, <3>1
  <2>2. AgreedLength(win) = Len(p)
    BY <1>1, <1>3 DEF AgreedLength, CommonPrefix
  <2>3. /\ p \in Seq(Words) /\ \A h \in H : IsPrefix(p, h)
        /\ \A q \in Seq(Words) : (\A h \in H : IsPrefix(q, h)) => Len(q) <= Len(p)
    <3> HIDE DEF H
    <3> QED BY <2>1, LongestPrefix
  <2> HIDE DEF p
  <2>4. ASSUME NEW i \in DOMAIN win
        PROVE  Len(p) <= Len(win[i]) /\ \A k \in 1..Len(p) : p[k] = win[i][k]
    <3>1. win[i] \in Seq(Words) /\ IsPrefix(p, win[i])
      BY <1>1, <2>3
    <3> QED BY <2>3, <3>1, PrefixPlaces
  <2>5. ASSUME NEW words \in Seq(Words), \A i \in DOMAIN win : win[i] = words
        PROVE  Len(p) = Len(words)
    <3>1. \A h \in H : h = words
      BY <2>5
    <3>2. IsPrefix(words, words) /\ Len(words) \in Nat
      BY PrefixPlaces
    <3>3. Len(words) <= Len(p) /\ IsPrefix(p, words)
      BY <2>1, <2>3, <3>1, <3>2
    <3> QED BY <2>3, <3>2, <3>3 DEF IsPrefix
  <2> QED BY <1>3, <2>2, <2>3, <2>4, <2>5
<1>4. Len(win) < AgreementN \/ Len(win) >= AgreementN
  BY <1>1
<1> QED BY <1>2, <1>3, <1>4

LEMMA KeptPlaces ==
  ASSUME NEW T, NEW seq \in Seq(T), NEW n \in Nat \ {0}
  PROVE  /\ KeepLast(seq, n) \in Seq(T)
         /\ Len(KeepLast(seq, n)) = IF Len(seq) <= n THEN Len(seq) ELSE n
         /\ \A i \in 1..Len(KeepLast(seq, n)) :
              /\ KeepLast(seq, n)[i] = seq[Len(seq) - Len(KeepLast(seq, n)) + i]
              /\ Len(seq) - Len(KeepLast(seq, n)) + i \in 1..Len(seq)
<1> DEFINE from == 1 + Max({0, Len(seq) - n})
<1>1. Len(seq) \in Nat /\ from = IF Len(seq) <= n THEN 1 ELSE Len(seq) - n + 1
  BY MaxOfTwo
<1>2. KeepLast(seq, n) = SubSeq(seq, from, Len(seq))
  BY DEF KeepLast
<1> HIDE DEF from
<1>3. /\ SubSeq(seq, from, Len(seq)) \in Seq(T)
      /\ Len(SubSeq(seq, from, Len(seq))) = IF from <= Len(seq) THEN Len(seq) - from + 1 ELSE 0
      /\ \A i \in 1..(Len(seq) - from + 1) : SubSeq(seq, from, Len(seq))[i] = seq[from + i - 1]
  <2>1. from \in Int /\ Len(seq) \in Int /\ \A i \in from..Len(seq) : seq[i] \in T
    BY <1>1
  <2> QED BY ONLY <2>1, SubSeqProperties
<1>4. Len(KeepLast(seq, n)) = IF Len(seq) <= n THEN Len(seq) ELSE n
  <2>1. Len(KeepLast(seq, n)) = IF from <= Len(seq) THEN Len(seq) - from + 1 ELSE 0
    BY <1>2, <1>3
  <2>2. CASE Len(seq) <= n
    <3>1. from = 1 /\ Len(seq) >= 0 /\ Len(seq) \in Int
      BY <1>1, <2>2
    <3> QED BY <2>1, <2>2, <3>1
  <2>3. CASE ~(Len(seq) <= n)
    <3>1. from = Len(seq) - n + 1 /\ n \in Int /\ n >= 1 /\ Len(seq) \in Int
      BY <1>1, <2>3
    <3> QED BY <2>1, <2>3, <3>1
  <2> QED BY <2>2, <2>3
<1>5. ASSUME NEW i \in 1..Len(KeepLast(seq, n))
      PROVE  /\ i \in 1..(Len(seq) - from + 1) /\ from + i - 1 = Len(seq) - Len(KeepLast(seq, n)) + i
             /\ from + i - 1 \in 1..Len(seq)
  BY <1>1, <1>4, <1>5
<1> QED BY <1>2, <1>3, <1>4, <1>5

LEMMA FunctionIsSeq == ASSUME NEW S, NEW n \in Nat, NEW f \in [1..n -> S] PROVE f \in Seq(S)
OBVIOUS

\* How many phrases of at most m words there are in o words.
LEMMA Blocks ==
  ASSUME NEW o \in Nat, NEW m \in Nat \ {0}, NEW k \in Int, m * k <= o + m - 1, o + m - 1 < m * k + m
  PROVE  k \in Nat /\ o <= k * m /\ (k = 0 <=> o = 0) /\ (k > 0 => (k - 1) * m < o)
OBVIOUS

LEMMA Quotient ==
  ASSUME NEW a \in Nat, NEW b \in Nat \ {0}
  PROVE  a \div b \in Nat
OBVIOUS

\* The window takes the new transcript last; a final fills it.
LEMMA WindowPlaces ==
  ASSUME NEW win \in Seq(Seq(Words)), NEW words \in Seq(Words), NEW final \in BOOLEAN,
         NEW new, new = WindowWith(win, words, final)
  PROVE  /\ new \in Seq(Seq(Words)) /\ Len(new) \in 1..AgreementN /\ Last(new) = words
         /\ final => Len(new) = AgreementN /\ \A i \in 1..Len(new) : new[i] = words
<1> DEFINE k == IF final THEN AgreementN ELSE 1
           more == [i \in 1..k |-> words]
           all == win \o more
<1>1. k \in Nat /\ k >= 1 /\ k <= AgreementN
  OBVIOUS
<1>2. more \in Seq(Seq(Words)) /\ Len(more) = k /\ \A i \in 1..k : more[i] = words
  <2> HIDE DEF k
  <2>1. more \in [1..k -> Seq(Words)]
    OBVIOUS
  <2> QED BY <1>1, <2>1
<1> HIDE DEF more
<1>3. all \in Seq(Seq(Words)) /\ Len(all) = Len(win) + k /\ Len(win) \in Nat
      /\ \A i \in 1..Len(all) : i > Len(win) => all[i] = words
  <2>1. /\ all \in Seq(Seq(Words)) /\ Len(all) = Len(win) + Len(more)
        /\ \A i \in 1..Len(all) : all[i] = IF i <= Len(win) THEN win[i] ELSE more[i - Len(win)]
    BY <1>2, ConcatProperties
  <2>2. ASSUME NEW i \in 1..Len(all), i > Len(win) PROVE all[i] = words
    <3>1. i - Len(win) \in 1..k /\ ~(i <= Len(win))
      BY <1>1, <1>2, <2>1, <2>2
    <3> QED BY <1>2, <2>1, <3>1
  <2> HIDE DEF all, k
  <2> QED BY <1>2, <2>1, <2>2
<1>4. new = KeepLast(all, AgreementN)
  BY DEF WindowWith, more
<1> HIDE DEF all
<1>5. /\ new \in Seq(Seq(Words)) /\ Len(new) = IF Len(all) <= AgreementN THEN Len(all) ELSE AgreementN
      /\ \A i \in 1..Len(new) : new[i] = all[Len(all) - Len(new) + i] /\ Len(all) - Len(new) + i \in 1..Len(all)
  <2>1. AgreementN \in Nat \ {0} /\ all \in Seq(Seq(Words))
    BY <1>3
  <2>2. /\ KeepLast(all, AgreementN) \in Seq(Seq(Words))
        /\ Len(KeepLast(all, AgreementN)) = IF Len(all) <= AgreementN THEN Len(all) ELSE AgreementN
        /\ \A i \in 1..Len(KeepLast(all, AgreementN)) :
             /\ KeepLast(all, AgreementN)[i] = all[Len(all) - Len(KeepLast(all, AgreementN)) + i]
             /\ Len(all) - Len(KeepLast(all, AgreementN)) + i \in 1..Len(all)
    BY <2>1, KeptPlaces
  <2> QED BY <1>4, <2>2
<1>6. Len(new) \in 1..AgreementN /\ Len(new) \in Nat /\ Len(all) \in Nat
  <2>1. Len(all) \in Nat /\ Len(all) >= 1
    BY <1>1, <1>3
  <2>2. Len(new) = IF Len(all) <= AgreementN THEN Len(all) ELSE AgreementN
    BY <1>5
  <2> QED BY <2>1, <2>2
<1>7. Last(new) = words
  <2>1. Len(new) \in 1..Len(new) /\ Len(all) - Len(new) + Len(new) = Len(all) /\ Len(all) > Len(win)
    BY <1>1, <1>3, <1>6
  <2>2. new[Len(new)] = all[Len(all)] /\ Len(all) \in 1..Len(all)
    BY <1>5, <1>6, <2>1
  <2> QED BY <1>3, <2>1, <2>2 DEF Last
<1>8. ASSUME final PROVE Len(new) = AgreementN /\ \A i \in 1..Len(new) : new[i] = words
  <2>1. k = AgreementN
    BY <1>8
  <2>2. Len(all) = Len(win) + AgreementN /\ Len(new) = AgreementN
    BY <1>3, <1>5, <1>6, <2>1, SMTT(30)
  <2>3. ASSUME NEW i \in 1..Len(new) PROVE Len(all) - Len(new) + i > Len(win)
    BY <1>3, <2>2, SMTT(30)
  <2> QED BY <1>3, <1>5, <2>2, <2>3
<1> QED BY <1>5, <1>6, <1>7, <1>8

LEMMA StableEndIs ==
  ASSUME NEW win \in Seq(Seq(Words)), NEW text \in Seq(Tokens)
  PROVE  /\ StableEnd(win, text) \in Nat
         /\ StableEnd(win, text) <= AgreedLength(win) /\ StableEnd(win, text) <= Len(text)
         /\ StableEnd(win, text) = AgreedLength(win) \/ StableEnd(win, text) = Len(text)
<1>1. AgreedLength(win) \in Nat /\ Len(text) \in Nat
  BY Agreement
<1>2. StableEnd(win, text) = IF AgreedLength(win) <= Len(text) THEN AgreedLength(win) ELSE Len(text)
  <2>1. AgreedLength(win) \in Int /\ Len(text) \in Int
    BY <1>1
  <2> QED BY <2>1, MinOfTwo DEF StableEnd
<1> QED BY <1>1, <1>2

\* A cut that find_boundary chooses is at a clause end or before a conjunction,
\* and it chooses none only when no clause end is there.
LEMMA BoundaryIs ==
  ASSUME NEW tokens \in Seq(Tokens), NEW allowWeak \in BOOLEAN, NEW cut, cut = FindBoundary(tokens, allowWeak)
  PROVE  /\ cut \in 0..Len(tokens)
         /\ cut > 0 => /\ cut >= MinWords
                       /\ tokens[cut].closes \/ (cut < Len(tokens) /\ tokens[cut + 1].word \in Conjunctions)
         /\ cut = 0 => \A n \in MinWords..Len(tokens) : ~tokens[n].closes
<1>1. Len(tokens) \in Nat
  OBVIOUS
<1> DEFINE strong == StrongCuts(tokens)
           weak == IF allowWeak THEN WeakCuts(tokens) ELSE {}
<1>2. strong \in SUBSET Nat /\ \A x \in strong : x <= Len(tokens) /\ x >= MinWords /\ tokens[x].closes
  BY <1>1 DEF StrongCuts
<1>3. {0} \union weak \in SUBSET Nat /\ \A x \in weak : /\ x < Len(tokens) /\ x >= MinWords
                                                        /\ tokens[x + 1].word \in Conjunctions
  BY <1>1 DEF WeakCuts
<1>4. CASE strong # {}
  <2>1. cut = Max(strong)
    BY <1>4 DEF FindBoundary
  <2> HIDE DEF strong
  <2>2. cut \in strong
    BY <1>1, <1>2, <1>4, <2>1, MaxIsHighest
  <2> QED BY <1>1, <1>2, <2>2
<1>5. CASE strong = {}
  <2>1. cut = Max({0} \union weak)
    BY <1>5 DEF FindBoundary
  <2>2. \A n \in MinWords..Len(tokens) : ~tokens[n].closes
    BY <1>5 DEF StrongCuts
  <2> HIDE DEF weak
  <2>3. \A x \in {0} \union weak : x <= Len(tokens)
    BY <1>1, <1>3
  <2>4. cut \in {0} \union weak
    BY <1>1, <1>3, <2>1, <2>3, MaxIsHighest
  <2> QED BY <1>1, <1>3, <2>2, <2>4
<1> QED BY <1>4, <1>5

\* What _try_emit commits, and why.
LEMMA CutIs ==
  ASSUME NEW tokens \in Seq(Tokens), NEW lag \in Int, NEW cut, cut = Cut(tokens, lag)
  PROVE  /\ cut.take \in 0..Len(tokens) /\ cut.reason \in {"clause", "max_words", "stability_timeout", "held"}
         /\ cut.take > 0 => cut.take \in MinWords..MaxWords /\ cut.reason # "held"
         /\ cut.take > 0 /\ cut.reason = "clause" =>
              \/ tokens[cut.take].closes
              \/ cut.take < Len(tokens) /\ tokens[cut.take + 1].word \in Conjunctions
         /\ cut.take > 0 /\ cut.reason = "stability_timeout" =>
              \A n \in MinWords..cut.take : ~tokens[n].closes
<1> DEFINE weak == Len(tokens) >= WeakFrom
           boundary == FindBoundary(tokens, weak)
<1>1. Len(tokens) \in Nat /\ weak \in BOOLEAN
  OBVIOUS
<1>2. /\ boundary \in 0..Len(tokens)
      /\ boundary > 0 => /\ boundary >= MinWords
                         /\ \/ tokens[boundary].closes
                            \/ boundary < Len(tokens) /\ tokens[boundary + 1].word \in Conjunctions
      /\ boundary = 0 => \A n \in MinWords..Len(tokens) : ~tokens[n].closes
  <2> HIDE DEF weak
  <2> QED BY <1>1, BoundaryIs
<1>3. cut = IF Len(tokens) >= MaxWords THEN [take |-> MaxWords, reason |-> "max_words"]
            ELSE IF boundary > 0 THEN [take |-> boundary, reason |-> "clause"]
            ELSE IF lag >= MaxWait /\ Len(tokens) >= MinWords
                 THEN [take |-> Len(tokens), reason |-> "stability_timeout"]
            ELSE [take |-> 0, reason |-> "held"]
  BY DEF Cut
<1> HIDE DEF boundary
<1>4. CASE Len(tokens) >= MaxWords
  BY <1>1, <1>3, <1>4
<1>5. CASE ~(Len(tokens) >= MaxWords) /\ boundary > 0
  BY <1>1, <1>2, <1>3, <1>5
<1>6. CASE ~(Len(tokens) >= MaxWords) /\ ~(boundary > 0)
  BY <1>1, <1>2, <1>3, <1>6
<1> QED BY <1>4, <1>5, <1>6

\* The phrases a call commits: in the words of hyp from the committed ones on,
\* one after the other, each as long as it may be.
Leads(phrases, win, hyp, stamps) ==
  /\ phrases \in Seq(PhraseChunks)
  /\ phrases # <<>> => phrases[1].from = committed /\ phrases[1].id = nextId /\ phrases[1].start = cursor
  /\ \A i \in 1..(Len(phrases) - 1) :
       /\ phrases[i + 1].from = phrases[i].from + phrases[i].take
       /\ phrases[i + 1].id = phrases[i].id + 1
       /\ phrases[i + 1].start = phrases[i].end
  /\ \A i \in 1..Len(phrases) :
       /\ phrases[i].take \in 1..MaxWords /\ phrases[i].from >= committed
       /\ phrases[i].from + phrases[i].take <= StableEnd(win, hyp.text)
       /\ phrases[i].end = WordEnd(hyp, stamps, phrases[i].from, phrases[i].take)
  /\ phrases # <<>> => phrases[Len(phrases)].id = nextId + Len(phrases) - 1

LEMMA WordEndTyped ==
  ASSUME NEW hyp \in Hypotheses, NEW stamps \in Seq(Nat), NEW before \in Nat, NEW take \in Nat \ {0}
  PROVE  WordEnd(hyp, stamps, before, take) \in Nat
<1> DEFINE index == before + take
           total == Len(hyp.text)
<1>1. /\ hyp.audioEnd \in Nat /\ total \in Nat /\ index \in Nat \ {0} /\ Len(stamps) \in Nat
      /\ \A i \in 1..Len(stamps) : stamps[i] \in Nat
  BY SMTT(30) DEF Hypotheses
<1>2. CASE timed /\ hyp.text # <<>> /\ index <= Len(stamps)
  <2>1. stamps[index] \in Nat
    BY <1>1, <1>2, SMTT(30)
  <2> QED BY <1>2, <2>1 DEF WordEnd
<1>3. CASE ~(timed /\ hyp.text # <<>> /\ index <= Len(stamps)) /\ (total = 0 \/ hyp.audioEnd = 0)
  BY <1>1, <1>3 DEF WordEnd
<1>4. CASE ~(timed /\ hyp.text # <<>> /\ index <= Len(stamps)) /\ ~(total = 0 \/ hyp.audioEnd = 0)
  <2> DEFINE n == Min({index, total})
  <2>1. n \in Nat
    <3>1. index \in Int /\ total \in Int /\ index \in Nat /\ total \in Nat
      BY <1>1
    <3> HIDE DEF index, total
    <3>2. n = IF index <= total THEN index ELSE total
      BY <3>1, MinOfTwo
    <3> QED BY <3>1, <3>2
  <2>2. WordEnd(hyp, stamps, before, take) = (hyp.audioEnd * n) \div total
    BY <1>4 DEF WordEnd
  <2> HIDE DEF n
  <2>3. hyp.audioEnd * n \in Nat /\ total \in Nat \ {0}
    BY <1>1, <1>4, <2>1
  <2> QED BY <2>2, <2>3, Quotient
<1> QED BY <1>2, <1>3, <1>4

LEMMA LagTyped ==
  ASSUME NEW wall \in Nat \union {Unseen}, NEW seen \in Nat \union {Unseen}
  PROVE  Max({0, wall - seen}) \in Nat
<1>1. wall - seen \in Int
  BY DEF Unseen
<1> QED BY <1>1, MaxOfTwo

\* At most one phrase: in words the window agrees on, cut as find_boundary says.
LEMMA TryEmitIs ==
  ASSUME TypeOK, NEW win \in Seq(Seq(Words)), AgreedLength(win) <= MaxText,
         NEW seen \in [0..MaxText -> Nat \union {Unseen}], NEW flag \in BOOLEAN,
         NEW hyp \in Hypotheses, NEW stamps \in Seq(Nat),
         NEW phrases, phrases = TryEmit(win, seen, flag, hyp, stamps)
  PROVE  /\ Leads(phrases, win, hyp, stamps) /\ Len(phrases) <= 1
         /\ phrases # <<>> =>
              LET p == phrases[1]
              IN  /\ p.from + p.take <= StableEnd(win, hyp.text) /\ p.take >= MinWords
                  /\ p.reason \in {"clause", "max_words", "stability_timeout"}
                  /\ p.reason = "clause" =>
                       \/ hyp.text[p.from + p.take].closes
                       \/ /\ p.from + p.take < Len(hyp.text)
                          /\ hyp.text[p.from + p.take + 1].word \in Conjunctions
                  /\ p.reason = "stability_timeout" =>
                       \A n \in MinWords..p.take : ~hyp.text[p.from + n].closes
<1> DEFINE stable == StableEnd(win, hyp.text)
           since == seen[AgreedLength(win)]
           tokens == SubSeq(hyp.text, committed + 1, stable)
           cut == Cut(tokens, hyp.wall - since)
<1>1. /\ committed \in Nat /\ nextId \in Nat /\ cursor \in Nat /\ hyp.text \in Seq(Tokens)
      /\ hyp.wall \in Nat \union {Unseen} /\ stable \in Nat /\ stable <= Len(hyp.text) /\ Len(hyp.text) \in Nat
      /\ since \in Nat \union {Unseen}
  <2>1. hyp.text \in Seq(Tokens) /\ hyp.wall \in Nat \union {Unseen}
    BY DEF Hypotheses
  <2>2. committed \in Nat /\ nextId \in Nat /\ cursor \in Nat
    BY DEF TypeOK
  <2>3. AgreedLength(win) \in 0..MaxText
    BY Agreement
  <2> QED BY <2>1, <2>2, <2>3, StableEndIs, SMTT(30)
<1>2. CASE stable <= committed \/ cut.take = 0
  <2>1. phrases = <<>>
    BY <1>2 DEF TryEmit
  <2> QED BY <2>1 DEF Leads
<1>3. CASE ~(stable <= committed \/ cut.take = 0)
  <2>0. stable > committed /\ cut.take # 0
    BY <1>1, <1>3, SMTT(30)
  <2>1. /\ tokens \in Seq(Tokens) /\ Len(tokens) = stable - committed
        /\ \A i \in 1..Len(tokens) : tokens[i] = hyp.text[committed + i]
    <3> HIDE DEF stable
    <3>1. \A i \in (committed + 1)..stable : hyp.text[i] \in Tokens
      BY <1>1, SMTT(30)
    <3>2. committed + 1 \in Int /\ stable \in Int /\ committed + 1 <= stable
      BY <1>1, <2>0
    <3>3. /\ tokens \in Seq(Tokens)
          /\ Len(tokens) = (IF committed + 1 <= stable THEN stable - (committed + 1) + 1 ELSE 0)
          /\ \A i \in 1..(stable - (committed + 1) + 1) : tokens[i] = hyp.text[(committed + 1) + i - 1]
      <4> DEFINE from == committed + 1
      <4>1. from \in Int /\ stable \in Int /\ \A i \in from..stable : hyp.text[i] \in Tokens
        BY <3>1, <3>2
      <4> HIDE DEF from
      <4>2. /\ SubSeq(hyp.text, from, stable) \in Seq(Tokens)
            /\ Len(SubSeq(hyp.text, from, stable)) = (IF from <= stable THEN stable - from + 1 ELSE 0)
            /\ \A i \in 1..(stable - from + 1) : SubSeq(hyp.text, from, stable)[i] = hyp.text[from + i - 1]
        BY <4>1, SubSeqProperties
      <4> QED BY <4>2 DEF from, tokens, stable
    <3>4. Len(tokens) = stable - committed
      BY <1>1, <3>2, <3>3
    <3>5. ASSUME NEW i \in 1..Len(tokens) PROVE tokens[i] = hyp.text[committed + i]
      <4>1. i \in 1..(stable - (committed + 1) + 1) /\ (committed + 1) + i - 1 = committed + i
        BY <1>1, <3>4
      <4> QED BY <3>3, <4>1
    <3> QED BY <3>3, <3>4, <3>5
  <2> HIDE DEF tokens, stable, since
  <2>2. hyp.wall - since \in Int
    BY <1>1, SMTT(30) DEF Unseen
  <2>3. /\ cut.take \in 0..Len(tokens) /\ cut.reason \in {"clause", "max_words", "stability_timeout", "held"}
        /\ cut.take > 0 => cut.take \in MinWords..MaxWords /\ cut.reason # "held"
        /\ cut.take > 0 /\ cut.reason = "clause" =>
              \/ tokens[cut.take].closes
              \/ cut.take < Len(tokens) /\ tokens[cut.take + 1].word \in Conjunctions
        /\ cut.take > 0 /\ cut.reason = "stability_timeout" =>
              \A n \in MinWords..cut.take : ~tokens[n].closes
    BY <2>1, <2>2, CutIs
  <2>4. phrases = <<Phrase(nextId, hyp, stamps, committed, cut.take, cursor, cut.reason, hyp.wall, since, flag)>>
    BY <1>3 DEF TryEmit, tokens, stable, since
  <2> HIDE DEF cut
  <2>5. /\ cut.take \in Nat \ {0} /\ cut.take \in MinWords..MaxWords /\ cut.reason \in CommitReasons
        /\ cut.reason \in {"clause", "max_words", "stability_timeout"}
    BY <1>1, <2>0, <2>1, <2>3, SMTT(30) DEF CommitReasons
  <2> DEFINE p == phrases[1]
  <2>6. p = Phrase(nextId, hyp, stamps, committed, cut.take, cursor, cut.reason, hyp.wall, since, flag)
        /\ Len(phrases) = 1 /\ phrases = <<p>>
    BY <2>4
  <2>7. /\ p \in PhraseChunks /\ p.id = nextId /\ p.from = committed /\ p.take = cut.take /\ p.reason = cut.reason
        /\ p.start = cursor /\ p.end = WordEnd(hyp, stamps, committed, cut.take)
    <3> DEFINE take == cut.take
               reason == cut.reason
               wall == hyp.wall
    <3>1. /\ nextId \in Nat /\ committed \in Nat /\ take \in Nat \ {0} /\ cursor \in Nat
          /\ reason \in CommitReasons /\ wall \in Nat \union {Unseen} /\ since \in Nat \union {Unseen}
      BY <1>1, <2>5
    <3>2. p = Phrase(nextId, hyp, stamps, committed, take, cursor, reason, wall, since, flag)
      BY <2>6
    <3> HIDE DEF take, reason, wall, p
    <3> DEFINE end == WordEnd(hyp, stamps, committed, take)
               lag == Max({0, wall - since})
    <3>3. end \in Nat /\ lag \in Nat
      BY <3>1, WordEndTyped, LagTyped
    <3>4. p = [id |-> nextId, from |-> committed, take |-> take, reason |-> reason, start |-> cursor,
               end |-> end, lag |-> lag, revised |-> flag]
      BY <3>2 DEF Phrase
    <3> HIDE DEF end, lag
    <3>5. /\ p \in PhraseChunks /\ p.id = nextId /\ p.from = committed /\ p.take = take /\ p.reason = reason
          /\ p.start = cursor /\ p.end = end
      BY <3>1, <3>3, <3>4 DEF PhraseChunks
    <3> QED BY <3>5 DEF take, reason, end
  <2> HIDE DEF p
  <2>8. cut.take <= stable - committed
    BY <1>1, <2>0, <2>1, <2>3
  <2>9. p.from + p.take <= stable /\ p.take >= MinWords
    BY <1>1, <2>5, <2>7, <2>8, SMTT(30)
  <2>10. Leads(phrases, win, hyp, stamps)
    <3>1. phrases \in Seq(PhraseChunks) /\ 1..(Len(phrases) - 1) = {} /\ 1..Len(phrases) = {1} /\ phrases[1] = p
      BY <2>6, <2>7
    <3>2. nextId = nextId + Len(phrases) - 1 /\ cut.take \in 1..MaxWords
      BY <1>1, <2>5, <2>6, SMTT(30)
    <3>3. \A i \in 1..Len(phrases) :
            /\ phrases[i].take \in 1..MaxWords /\ phrases[i].from >= committed
            /\ phrases[i].from + phrases[i].take <= stable
            /\ phrases[i].end = WordEnd(hyp, stamps, phrases[i].from, phrases[i].take)
      <4>1. committed >= committed
        BY <1>1
      <4> QED BY <2>7, <2>9, <3>1, <3>2, <4>1
    <3>4. phrases[1].from = committed /\ phrases[1].id = nextId /\ phrases[1].start = cursor
          /\ phrases[Len(phrases)].id = nextId + Len(phrases) - 1
      BY <2>6, <2>7, <3>1, <3>2
    <3> QED BY <3>1, <3>3, <3>4 DEF Leads, stable
  <2>11. ASSUME p.reason = "clause"
         PROVE  \/ hyp.text[p.from + p.take].closes
                \/ /\ p.from + p.take < Len(hyp.text)
                   /\ hyp.text[p.from + p.take + 1].word \in Conjunctions
    <3>1. cut.take > 0 /\ cut.take \in 1..Len(tokens)
      BY <1>1, <2>0, <2>1, <2>3, <2>5, SMTT(30)
    <3>2. CASE tokens[cut.take].closes
      BY <2>1, <2>7, <3>1, <3>2
    <3>3. CASE cut.take < Len(tokens) /\ tokens[cut.take + 1].word \in Conjunctions
      <4> DEFINE taken == cut.take
                 length == Len(hyp.text)
                 found == Len(tokens)
      <4>1. taken \in Nat /\ found \in Nat /\ committed \in Nat /\ stable \in Nat /\ length \in Nat
            /\ found = stable - committed /\ stable <= length /\ taken < found
        BY <1>1, <2>1, <2>5, <3>3, SMTT(30)
      <4> HIDE DEF taken, length, found
      <4>2. taken + 1 \in 1..found /\ committed + (taken + 1) = committed + taken + 1
        BY <4>1
      <4>3. committed + taken < length
        BY <4>1
      <4> USE DEF taken, length, found
      <4>4. tokens[cut.take + 1] = hyp.text[committed + (cut.take + 1)]
        BY <2>1, <4>2
      <4> QED BY <2>7, <3>3, <4>2, <4>3, <4>4
    <3> QED BY <2>3, <2>7, <2>11, <3>1, <3>2, <3>3
  <2>12. ASSUME p.reason = "stability_timeout", NEW n \in MinWords..p.take PROVE ~hyp.text[p.from + n].closes
    <3>1. n \in MinWords..cut.take /\ n \in 1..Len(tokens) /\ cut.take > 0
      <4>1. p.take = cut.take /\ cut.take \in Nat \ {0} /\ cut.take <= Len(tokens) /\ MinWords \in Nat \ {0}
        BY <2>3, <2>5, <2>7
      <4>2. n \in MinWords..cut.take
        BY <2>12, <4>1
      <4> QED BY <4>1, <4>2, SMTT(30)
    <3> QED BY <2>1, <2>3, <2>7, <2>12, <3>1
  <2> QED BY <2>5, <2>6, <2>7, <2>9, <2>10, <2>11, <2>12 DEF p, stable
<1> QED BY <1>2, <1>3

LEMMA Multiples ==
  ASSUME NEW m \in Nat \ {0}, NEW i \in Nat \ {0}, NEW j \in Nat \ {0}, i <= j
  PROVE  (i - 1) * m \in Nat /\ (i - 1) * m <= (j - 1) * m /\ ((i + 1) - 1) * m = (i - 1) * m + m
<1>1. (i - 1) * m \in Int /\ (j - 1) * m \in Int /\ (j - i) * m \in Int
  OBVIOUS
<1>2. (i - 1) * m >= 0 /\ (j - i) * m >= 0
  OBVIOUS
<1>3. (j - 1) * m = (i - 1) * m + (j - i) * m
  OBVIOUS
<1>4. ((i + 1) - 1) * m = (i - 1) * m + m
  OBVIOUS
<1> QED BY <1>1, <1>2, <1>3, <1>4

\* All that is stable, in as few phrases as MaxWords allows, for one reason.
LEMMA EmitAllIs ==
  ASSUME TypeOK, NEW win \in Seq(Seq(Words)), AgreedLength(win) <= MaxText,
         NEW seen \in [0..MaxText -> Nat \union {Unseen}], NEW flag \in BOOLEAN,
         NEW hyp \in Hypotheses, NEW stamps \in Seq(Nat), NEW reason \in CommitReasons,
         NEW wall \in Nat \union {Unseen},
         NEW phrases, phrases = EmitAll(win, seen, flag, hyp, stamps, reason, wall)
  PROVE  /\ Leads(phrases, win, hyp, stamps)
         /\ \A i \in 1..Len(phrases) : phrases[i].reason = reason
         /\ phrases = <<>> => StableEnd(win, hyp.text) <= committed
         /\ phrases # <<>> =>
              phrases[Len(phrases)].from + phrases[Len(phrases)].take = StableEnd(win, hyp.text)
<1> DEFINE stable == StableEnd(win, hyp.text)
           out == Max({0, stable - committed})
           since == seen[AgreedLength(win)]
           k == (out + MaxWords - 1) \div MaxWords
           done(i) == (i - 1) * MaxWords
           take(i) == Min({MaxWords, out - done(i)})
           start(i) == IF i = 1 THEN cursor ELSE WordEnd(hyp, stamps, committed + done(i - 1), MaxWords)
           lag == Max({0, wall - since})
           end(i) == WordEnd(hyp, stamps, committed + done(i), take(i))
<1>1. committed \in Nat /\ nextId \in Nat /\ cursor \in Nat /\ stable \in Nat /\ MaxWords \in Nat \ {0}
  <2>1. committed \in Nat /\ nextId \in Nat /\ cursor \in Nat
    BY DEF TypeOK
  <2>2. hyp.text \in Seq(Tokens)
    BY DEF Hypotheses
  <2>3. MaxWords \in Nat \ {0}
    OBVIOUS
  <2> QED BY <2>1, <2>2, <2>3, StableEndIs
<1>2. out \in Nat /\ out = IF stable <= committed THEN 0 ELSE stable - committed
  <2> HIDE DEF stable
  <2>1. 0 \in Int /\ stable - committed \in Int
    BY <1>1
  <2>2. out = IF 0 >= stable - committed THEN 0 ELSE stable - committed
    BY <2>1, MaxOfTwo
  <2> QED BY <1>1, <2>2
<1>3. since \in Nat \union {Unseen} /\ lag \in Nat
  <2>1. AgreedLength(win) \in 0..MaxText
    BY Agreement
  <2>2. since \in Nat \union {Unseen}
    BY <2>1
  <2> HIDE DEF since
  <2> QED BY <2>2, LagTyped
<1>4. phrases = [i \in 1..k |->
         [id |-> nextId + i - 1, from |-> committed + done(i), take |-> take(i), reason |-> reason, start |-> start(i),
          end |-> end(i), lag |-> lag, revised |-> (flag /\ i = 1)]]
  BY DEF EmitAll, Phrase
<1> HIDE DEF stable, out, since, lag
<1>5. k \in Nat /\ out <= k * MaxWords /\ (k = 0 <=> out = 0) /\ (k > 0 => (k - 1) * MaxWords < out)
  <2>1. out \in Nat /\ MaxWords \in Nat \ {0} /\ k = (out + MaxWords - 1) \div MaxWords
    BY <1>1, <1>2
  <2> HIDE DEF k
  <2>2. k \in Int /\ MaxWords * k <= out + MaxWords - 1 /\ out + MaxWords - 1 < MaxWords * k + MaxWords
    BY <2>1
  <2>3. ASSUME NEW m, m = MaxWords
        PROVE  k \in Nat /\ out <= k * m /\ (k = 0 <=> out = 0) /\ (k > 0 => (k - 1) * m < out)
    <3>1. m \in Nat \ {0} /\ m * k <= out + m - 1 /\ out + m - 1 < m * k + m /\ k \in Int /\ out \in Nat
      BY <2>1, <2>2, <2>3
    <3> QED BY <3>1, Blocks
  <2> QED BY <2>3
<1> HIDE DEF k
<1>6. /\ done(1) = 0
      /\ \A i \in 1..k : /\ done(i) \in Nat /\ done(i) <= done(k)
                         /\ i < k => done(i + 1) = done(i) + MaxWords /\ done(i + 1) <= done(k)
      /\ k > 0 => done(k) < out /\ out <= done(k) + MaxWords
  <2>1. done(1) = 0
    BY <1>1
  <2>2. ASSUME NEW i \in 1..k
        PROVE  /\ done(i) \in Nat /\ done(i) <= done(k)
               /\ i < k => done(i + 1) = done(i) + MaxWords /\ done(i + 1) <= done(k)
    <3>1. i \in Nat \ {0} /\ k \in Nat \ {0} /\ i <= k
      BY <1>5, <2>2
    <3>2. done(i) \in Nat /\ done(i) <= done(k) /\ done(i + 1) = done(i) + MaxWords
      BY <1>1, <3>1, Multiples
    <3>3. ASSUME i < k PROVE done(i + 1) <= done(k)
      <4> DEFINE n == i + 1
      <4>1. n \in Nat \ {0} /\ n <= k
        BY <3>1, <3>3
      <4> HIDE DEF n
      <4>2. done(n) <= done(k)
        BY <1>1, <3>1, <4>1, Multiples
      <4> QED BY <4>2 DEF n
    <3> QED BY <3>2, <3>3
  <2>3. ASSUME k > 0 PROVE done(k) < out /\ out <= done(k) + MaxWords
    <3>1. k \in Nat \ {0} /\ k <= k
      BY <1>5, <2>3
    <3>2. ((k + 1) - 1) * MaxWords = (k - 1) * MaxWords + MaxWords
      BY <1>1, <3>1, Multiples
    <3>3. (k + 1) - 1 = k
      BY <3>1
    <3> QED BY <1>5, <2>3, <3>2, <3>3
  <2> HIDE DEF done
  <2> QED BY <2>1, <2>2, <2>3
<1> HIDE DEF done
<1>7. ASSUME NEW i \in 1..k
      PROVE  /\ take(i) \in 1..MaxWords
             /\ i < k => take(i) = MaxWords
             /\ i = k => done(i) + take(i) = out
  <2>1. done(i) \in Nat /\ done(k) \in Nat /\ done(i) <= done(k) /\ done(k) < out /\ out <= done(k) + MaxWords
        /\ (i < k => done(i) + MaxWords <= done(k))
    <3>1. k > 0 /\ k \in 1..k
      BY <1>5, <1>7
    <3> QED BY <1>6, <3>1
  <2> DEFINE left == out - done(i)
  <2>2. left \in Int /\ left >= 1 /\ MaxWords \in Int /\ done(i) + left = out
    BY <1>1, <1>2, <2>1, SMTT(30)
  <2>3. i < k => left > MaxWords
    BY <1>1, <1>2, <2>1, SMTT(30)
  <2>4. i = k => left <= MaxWords
    BY <1>1, <1>2, <2>1
  <2> HIDE DEF left
  <2>5. Min({MaxWords, left}) = IF MaxWords <= left THEN MaxWords ELSE left
    BY <2>2, MinOfTwo
  <2>6. take(i) = IF MaxWords <= left THEN MaxWords ELSE left
    BY <2>5 DEF left
  <2> HIDE DEF take
  <2>7. take(i) \in 1..MaxWords
    BY <1>1, <2>2, <2>6
  <2>8. i < k => take(i) = MaxWords
    BY <2>2, <2>3, <2>6
  <2>9. i = k => take(i) = left
    BY <1>1, <2>2, <2>4, <2>6
  <2> QED BY <2>2, <2>7, <2>8, <2>9
<1>8. ASSUME NEW i \in 1..k PROVE end(i) \in Nat
  <2>1. committed + done(i) \in Nat
    BY <1>1, <1>6
  <2>2. take(i) \in Nat \ {0}
    BY <1>1, <1>7
  <2> QED BY <2>1, <2>2, WordEndTyped
<1>9. /\ start(1) = cursor
      /\ \A i \in 1..k : start(i) \in Nat
      /\ \A i \in 1..k : i < k => start(i + 1) = end(i)
  <2>1. ASSUME NEW i \in 1..k, i # 1 PROVE start(i) \in Nat
    <3> DEFINE j == i - 1
    <3>1. j \in 1..k
      BY <1>5, <2>1
    <3>2. start(i) = WordEnd(hyp, stamps, committed + done(j), MaxWords)
      BY <2>1
    <3> HIDE DEF j
    <3>3. committed + done(j) \in Nat
      BY <1>1, <1>6, <3>1, SMTT(30)
    <3> QED BY <1>1, <3>2, <3>3, WordEndTyped
  <2>2. ASSUME NEW i \in 1..k, i < k PROVE start(i + 1) = end(i)
    <3>1. i + 1 # 1 /\ (i + 1) - 1 = i
      BY <2>2
    <3>2. start(i + 1) = WordEnd(hyp, stamps, committed + done(i), MaxWords)
      BY <3>1
    <3>3. take(i) = MaxWords
      BY <1>7, <2>2
    <3> QED BY <3>2, <3>3
  <2>3. start(1) = cursor
    OBVIOUS
  <2> HIDE DEF start, end
  <2> QED BY <1>1, <2>1, <2>2, <2>3
<1>10. ASSUME NEW i \in 1..k, i < k
       PROVE  committed + done(i + 1) = (committed + done(i)) + take(i) /\ nextId + (i + 1) - 1 = (nextId + i - 1) + 1
  <2>1. done(i) \in Nat /\ done(i + 1) = done(i) + MaxWords /\ take(i) = MaxWords
    BY <1>6, <1>7, <1>10
  <2> HIDE DEF take
  <2> QED BY <1>1, <2>1
<1> HIDE DEF take, start, end
<1>11. Len(phrases) = k /\ \A i \in 1..k : phrases[i] =
         [id |-> nextId + i - 1, from |-> committed + done(i), take |-> take(i), reason |-> reason, start |-> start(i),
          end |-> end(i), lag |-> lag, revised |-> (flag /\ i = 1)]
  BY <1>4, <1>5
<1>12. phrases \in Seq(PhraseChunks)
  <2>1. ASSUME NEW i \in 1..k PROVE phrases[i] \in PhraseChunks
    <3> DEFINE id == nextId + i - 1
               from == committed + done(i)
               taken == take(i)
               begin == start(i)
               finish == end(i)
               revised == (flag /\ i = 1)
    <3>1. id \in Nat
      BY <1>1
    <3>2. from \in Nat
      <4>1. done(i) \in Nat
        BY <1>6
      <4> QED BY <1>1, <4>1
    <3>3. taken \in Nat /\ begin \in Nat /\ finish \in Nat /\ lag \in Nat /\ revised \in BOOLEAN
      <4>1. taken \in 1..MaxWords
        BY <1>7
      <4>2. begin \in Nat /\ finish \in Nat
        BY <1>8, <1>9
      <4> QED BY <1>1, <1>3, <4>1, <4>2, SMTT(30)
    <3>4. phrases[i] = [id |-> id, from |-> from, take |-> taken, reason |-> reason, start |-> begin,
                        end |-> finish, lag |-> lag, revised |-> revised]
      BY <1>11
    <3> HIDE DEF id, from, taken, begin, finish, revised
    <3> QED BY <3>1, <3>2, <3>3, <3>4 DEF PhraseChunks
  <2>2. phrases \in [1..k -> PhraseChunks]
    BY <1>4, <1>11, <2>1
  <2>3. k \in Nat
    BY <1>5
  <2> QED BY <2>2, <2>3, FunctionIsSeq
<1>13. phrases = <<>> <=> k = 0
  BY <1>5, <1>11, <1>12
<1>14. \A i \in 1..(Len(phrases) - 1) :
         /\ phrases[i + 1].from = phrases[i].from + phrases[i].take
         /\ phrases[i + 1].id = phrases[i].id + 1
         /\ phrases[i + 1].start = phrases[i].end
  <2>1. ASSUME NEW i \in 1..(Len(phrases) - 1) PROVE i \in 1..k /\ i + 1 \in 1..k /\ i < k
    BY <1>5, <1>11
  <2> QED BY <1>9, <1>10, <1>11, <2>1, SMTT(30)
<1>15. \A i \in 1..Len(phrases) :
         /\ phrases[i].take \in 1..MaxWords /\ phrases[i].from >= committed
         /\ phrases[i].from + phrases[i].take <= stable
         /\ phrases[i].end = WordEnd(hyp, stamps, phrases[i].from, phrases[i].take)
  <2>1. ASSUME NEW i \in 1..k PROVE committed + done(i) >= committed /\ (committed + done(i)) + take(i) <= stable
    <3> DEFINE before == done(i)
               taken == take(i)
               last == done(k)
    <3>1. before \in Nat /\ taken \in Nat
      <4>1. done(i) \in Nat /\ take(i) \in 1..MaxWords
        BY <1>6, <1>7
      <4> QED BY <4>1, <1>1
    <3>2. before + taken <= out
      <4>1. i \in Nat /\ k \in Nat /\ i <= k /\ k > 0 /\ k \in 1..k
        BY <1>5, <2>1
      <4>2. last < out /\ last \in Nat
        BY <1>6, <4>1
      <4>3. CASE i = k
        BY <1>2, <1>7, <4>3
      <4>4. CASE i < k
        <5>1. taken = MaxWords /\ before + MaxWords <= last
          BY <1>6, <1>7, <4>4
        <5> HIDE DEF before, taken, last
        <5> QED BY <1>1, <1>2, <3>1, <4>2, <5>1
      <4> QED BY <4>1, <4>3, <4>4
    <3>3. out = stable - committed
      <4>1. i \in Nat /\ k \in Nat /\ k # 0
        BY <1>5, <2>1
      <4> QED BY <1>1, <1>2, <1>5, <4>1
    <3> HIDE DEF before, taken
    <3>4. committed + before >= committed /\ (committed + before) + taken <= stable
      BY <1>1, <3>1, <3>2, <3>3
    <3> QED BY <3>4 DEF before, taken
  <2> QED BY <1>7, <1>11, <2>1, SMTT(30) DEF end
<1>16. ASSUME phrases # <<>>
       PROVE  /\ phrases[1].from = committed /\ phrases[1].id = nextId /\ phrases[1].start = cursor
              /\ phrases[Len(phrases)].id = nextId + Len(phrases) - 1
              /\ phrases[Len(phrases)].from + phrases[Len(phrases)].take = stable
  <2>1. k > 0 /\ 1 \in 1..k /\ k \in 1..k
    BY <1>5, <1>13, <1>16
  <2>2. committed + done(1) = committed /\ nextId + 1 - 1 = nextId
    BY <1>1, <1>6
  <2>3. done(k) + take(k) = out /\ done(k) \in Nat /\ take(k) \in Nat
    BY <1>6, <1>7, <2>1, SMTT(30)
  <2>4. out = stable - committed
    BY <1>1, <1>2, <1>5, <2>1
  <2>5. (committed + done(k)) + take(k) = stable
    <3> DEFINE before == done(k)
               taken == take(k)
    <3>1. before \in Int /\ taken \in Int /\ committed \in Int /\ stable \in Int /\ before + taken = stable - committed
      BY <1>1, <2>3, <2>4
    <3> HIDE DEF before, taken
    <3>2. (committed + before) + taken = stable
      BY <3>1
    <3> QED BY <3>2 DEF before, taken
  <2> QED BY <1>9, <1>11, <2>1, <2>2, <2>5
<1>17. phrases = <<>> => stable <= committed
  BY <1>1, <1>2, <1>5, <1>13
<1>18. Leads(phrases, win, hyp, stamps)
  BY <1>12, <1>14, <1>15, <1>16 DEF Leads, stable
<1> QED BY <1>11, <1>16, <1>17, <1>18 DEF stable

-----------------------------------------------------------------------------
(* Calls that commit: feed, tick and flush.                                *)

\* What each of the three does with the words, whichever phrases it commits: it
\* commits them in the words of the hypothesis it leaves in _last_hyp, and the
\* flag says if those take back spoken ones.
Emission ==
  /\ window' \in Seq(Seq(Words)) /\ lastHyp' \in Hypotheses /\ ends' \in Seq(Nat)
  /\ Leads(batch', window', lastHyp', ends')
  /\ \E flag \in BOOLEAN :
       /\ ~IsPrefix(spoken, Normalised(lastHyp'.text)) => flag
       /\ Commit(batch', flag, lastHyp')

LEMMA EmissionIs ==
  ASSUME TypeOK, Emission
  PROVE  /\ batch' \in Seq(PhraseChunks) /\ nextId' \in Nat /\ cursor' \in Nat /\ contradicted' \in BOOLEAN
         /\ spoken' \in Seq(Words) /\ committed' = Len(spoken')
         /\ batch' = <<>> => committed' = committed /\ spoken' = spoken /\ cursor' = cursor
         /\ batch' # <<>> =>
              /\ committed' = batch'[Len(batch')].from + batch'[Len(batch')].take
              /\ committed' > committed /\ committed' <= StableEnd(window', lastHyp'.text)
              /\ cursor' = batch'[Len(batch')].end /\ batch'[Len(batch')].id = nextId' - 1
              /\ IsPrefix(spoken', Normalised(lastHyp'.text))
         /\ RevisionsReported'
<1> DEFINE text == lastHyp'.text
           words == Normalised(text)
           stable == StableEnd(window', text)
           last == batch'[Len(batch')]
<1>1. PICK flag \in BOOLEAN :
        /\ ~IsPrefix(spoken, words) => flag
        /\ Commit(batch', flag, lastHyp')
  BY DEF Emission
<1>2. /\ batch' \in Seq(PhraseChunks) /\ Len(batch') \in Nat /\ text \in Seq(Tokens) /\ Len(text) \in Nat
      /\ committed \in Nat /\ nextId \in Nat /\ cursor \in Nat /\ spoken \in Seq(Words) /\ committed = Len(spoken)
      /\ nextId' = nextId + Len(batch')
  <2>1. batch' \in Seq(PhraseChunks) /\ text \in Seq(Tokens)
    BY DEF Emission, Leads, Hypotheses
  <2>2. committed \in Nat /\ nextId \in Nat /\ cursor \in Nat /\ spoken \in Seq(Words) /\ committed = Len(spoken)
    BY DEF TypeOK
  <2>3. nextId' = nextId + Len(batch')
    BY <1>1 DEF Commit
  <2> QED BY <2>1, <2>2, <2>3
<1>3. contradicted' = (flag /\ batch' = <<>>)
  BY <1>1 DEF Commit
<1>4. CASE batch' = <<>>
  <2>1. committed' = committed /\ spoken' = spoken /\ cursor' = cursor
    BY <1>1, <1>4 DEF Commit
  <2>2. contradicted' = flag
    BY <1>3, <1>4
  <2>3. RevisionsReported'
    BY <1>1, <2>1, <2>2 DEF RevisionsReported
  <2>4. nextId' \in Nat
    BY <1>2
  <2> QED BY <1>2, <1>4, <2>1, <2>2, <2>3, <2>4
<1>5. CASE batch' # <<>>
  <2>1. committed' = last.from + last.take /\ cursor' = last.end /\ spoken' = SubSeq(words, 1, committed')
    BY <1>1, <1>5 DEF Commit, Last
  <2>2. Len(batch') \in 1..Len(batch')
    BY <1>2, <1>5
  <2>3. last \in PhraseChunks /\ last.from \in Nat /\ last.take \in Nat /\ last.end \in Nat
    <3>1. last \in PhraseChunks
      BY <1>2, <2>2
    <3> HIDE DEF last
    <3> QED BY <3>1 DEF PhraseChunks
  <2>4. last.take \in 1..MaxWords /\ last.from >= committed /\ last.from + last.take <= stable
        /\ last.id = nextId + Len(batch') - 1
    BY <1>5, <2>2 DEF Emission, Leads
  <2>5. stable \in Nat /\ stable <= Len(text)
    BY <1>2, StableEndIs DEF Emission
  <2> HIDE DEF stable
  <2>6. committed' \in Nat /\ committed' > committed /\ committed' <= stable /\ committed' <= Len(text)
    <3> DEFINE from == last.from
               take == last.take
               length == Len(text)
    <3>1. from \in Nat /\ take \in Nat /\ take >= 1 /\ from >= committed /\ from + take <= stable
          /\ committed' = from + take
      BY <2>1, <2>3, <2>4
    <3>2. length \in Nat /\ stable <= length
      BY <1>2, <2>5
    <3> HIDE DEF from, take, length
    <3>3. committed' \in Nat /\ committed' > committed /\ committed' <= stable /\ committed' <= length
      BY <1>2, <2>5, <3>1, <3>2
    <3> QED BY <3>3 DEF length
  <2>7. last.id = nextId' - 1 /\ nextId' \in Nat
    BY <1>2, <2>4
  <2>8. words \in Seq(Words) /\ Len(words) = Len(text)
    BY <1>2, NormalisedPlaces
  <2> HIDE DEF words, text
  <2>9. spoken' \in Seq(Words) /\ Len(spoken') = committed' /\ \A i \in 1..committed' : spoken'[i] = words[i]
    <3>1. 1 \in Int /\ committed' \in Int /\ \A i \in 1..committed' : words[i] \in Words
      BY <2>6, <2>8
    <3> DEFINE n == committed'
    <3> HIDE DEF n
    <3>2. 1 \in Int /\ n \in Int /\ n >= 0 /\ \A i \in 1..n : words[i] \in Words
      BY <2>6, <3>1 DEF n
    <3>3. /\ SubSeq(words, 1, n) \in Seq(Words)
          /\ Len(SubSeq(words, 1, n)) = (IF 1 <= n THEN n - 1 + 1 ELSE 0)
          /\ \A i \in 1..(n - 1 + 1) : SubSeq(words, 1, n)[i] = words[1 + i - 1]
      BY <3>2, SubSeqProperties
    <3>4. Len(SubSeq(words, 1, n)) = n /\ \A i \in 1..n : i \in 1..(n - 1 + 1) /\ 1 + i - 1 = i
      BY <3>2, <3>3
    <3> QED BY <2>1, <3>3, <3>4 DEF n
  <2>10. IsPrefix(spoken', words)
    BY <2>6, <2>8, <2>9, PrefixPlaces
  <2>11. RevisionsReported'
    BY <2>10 DEF RevisionsReported, words, text
  <2>12. contradicted' \in BOOLEAN
    BY <1>3
  <2> QED BY <1>2, <1>5, <2>1, <2>3, <2>6, <2>7, <2>9, <2>10, <2>11, <2>12 DEF words, text, stable
<1> QED BY <1>4, <1>5

LEMMA AgreedFits ==
  ASSUME NEW win \in Seq(Seq(Words)), NEW text \in Seq(Tokens), win # <<>> => Last(win) = Normalised(text)
  PROVE  AgreedLength(win) <= Len(text)
<1>1. Len(win) \in Nat /\ Len(text) \in Nat /\ AgreedLength(win) \in Nat
  BY Agreement
<1>2. CASE win = <<>>
  <2>1. ~(AgreedLength(win) > 0)
    BY <1>2 DEF AgreedLength
  <2> QED BY <1>1, <2>1
<1>3. CASE win # <<>>
  <2>1. Len(win) \in DOMAIN win /\ win[Len(win)] = Normalised(text)
    BY <1>1, <1>3 DEF Last
  <2>2. AgreedLength(win) <= Len(win[Len(win)])
    BY <2>1, Agreement
  <2>3. Len(Normalised(text)) = Len(text)
    BY NormalisedPlaces
  <2> QED BY <2>1, <2>2, <2>3
<1> QED BY <1>2, <1>3

\* The window ends in the last hypothesis, and holds nothing else after a final.
WindowIsOfLastHyp ==
  /\ window = <<>> => lastHyp.text = <<>> /\ ~lastHyp.final
  /\ window # <<>> => Last(window) = Normalised(lastHyp.text)
  /\ lastHyp.final => Len(window) = AgreementN /\ \A i \in 1..Len(window) : window[i] = Normalised(lastHyp.text)

\* A call that commits all that is stable.
LEMMA AllEmitted ==
  ASSUME TypeOK, window' \in Seq(Seq(Words)), lastHyp' \in Hypotheses, ends' \in Seq(Nat),
         WindowIsOfLastHyp', Len(lastHyp'.text) <= MaxText,
         NEW seen \in [0..MaxText -> Nat \union {Unseen}], NEW flag \in BOOLEAN, NEW reason \in {"final", "silence"},
         NEW wall \in Nat \union {Unseen},
         ~IsPrefix(spoken, Normalised(lastHyp'.text)) => flag,
         Commit(EmitAll(window', seen, flag, lastHyp', ends', reason, wall), flag, lastHyp')
  PROVE  /\ Emission /\ PhraseShape'
         /\ StableEnd(window', lastHyp'.text) <= committed'
         /\ lastHyp'.final => Len(lastHyp'.text) <= committed'
         /\ \A i \in 1..Len(batch') : batch'[i].reason = reason
<1>1. batch' = EmitAll(window', seen, flag, lastHyp', ends', reason, wall)
  BY DEF Commit
<1>2. lastHyp'.text \in Seq(Tokens) /\ AgreedLength(window') <= MaxText
  <2> DEFINE text == lastHyp'.text
             win == window'
  <2>1. text \in Seq(Tokens) /\ Len(text) \in Nat /\ Len(text) <= MaxText
    BY DEF Hypotheses
  <2>2. win \in Seq(Seq(Words)) /\ (win # <<>> => Last(win) = Normalised(text))
    BY DEF WindowIsOfLastHyp
  <2> HIDE DEF text, win
  <2>3. AgreedLength(win) <= Len(text) /\ AgreedLength(win) \in Nat
    BY <2>1, <2>2, AgreedFits, Agreement
  <2>4. AgreedLength(win) <= MaxText
    BY <2>1, <2>3
  <2> QED BY <2>1, <2>4 DEF text, win
<1>3. reason \in CommitReasons
  BY DEF CommitReasons
<1>4. /\ Leads(batch', window', lastHyp', ends')
      /\ \A i \in 1..Len(batch') : batch'[i].reason = reason
      /\ batch' = <<>> => StableEnd(window', lastHyp'.text) <= committed
      /\ batch' # <<>> =>
           batch'[Len(batch')].from + batch'[Len(batch')].take = StableEnd(window', lastHyp'.text)
  <2> DEFINE win == window'
             hyp == lastHyp'
             stamps == ends'
             phrases == batch'
  <2>1. /\ win \in Seq(Seq(Words)) /\ AgreedLength(win) <= MaxText /\ hyp \in Hypotheses /\ stamps \in Seq(Nat)
        /\ phrases = EmitAll(win, seen, flag, hyp, stamps, reason, wall)
    BY <1>1, <1>2
  <2> HIDE DEF win, hyp, stamps, phrases
  <2>2. /\ Leads(phrases, win, hyp, stamps)
        /\ \A i \in 1..Len(phrases) : phrases[i].reason = reason
        /\ phrases = <<>> => StableEnd(win, hyp.text) <= committed
        /\ phrases # <<>> =>
             phrases[Len(phrases)].from + phrases[Len(phrases)].take = StableEnd(win, hyp.text)
    BY ONLY TypeOK, <1>3, <2>1, EmitAllIs, seen \in [0..MaxText -> Nat \union {Unseen}], flag \in BOOLEAN, wall \in Nat \union {Unseen}
  <2> QED BY <2>2 DEF win, hyp, stamps, phrases
<1>5. Emission
  BY <1>1, <1>4 DEF Emission
<1>6. PhraseShape'
  <2>1. batch' \in Seq(PhraseChunks) /\ \A i \in 1..Len(batch') : batch'[i].take \in 1..MaxWords
    BY <1>4 DEF Leads
  <2>2. DOMAIN batch' = 1..Len(batch')
    BY <2>1
  <2>3. reason \notin {"clause", "max_words", "stability_timeout"}
    OBVIOUS
  <2> QED BY <1>4, <2>1, <2>2, <2>3 DEF PhraseShape
<1>7. StableEnd(window', lastHyp'.text) <= committed' /\ committed' \in Nat
  <2>1. CASE batch' = <<>>
    <3>1. committed' = committed /\ committed \in Nat
      BY <1>5, <2>1, EmissionIs, SMTT(30) DEF TypeOK
    <3> QED BY <1>4, <2>1, <3>1
  <2>2. CASE batch' # <<>>
    <3>1. committed' = StableEnd(window', lastHyp'.text)
      BY <1>4, <1>5, <2>2, EmissionIs
    <3>2. StableEnd(window', lastHyp'.text) \in Nat
      BY <1>2, StableEndIs
    <3> QED BY <3>1, <3>2
  <2> QED BY <2>1, <2>2
<1>8. ASSUME lastHyp'.final PROVE Len(lastHyp'.text) <= committed'
  <2> DEFINE words == Normalised(lastHyp'.text)
  <2>1. words \in Seq(Words) /\ Len(words) = Len(lastHyp'.text) /\ Len(lastHyp'.text) \in Nat
    BY <1>2, NormalisedPlaces
  <2>2. Len(window') = AgreementN /\ \A i \in DOMAIN window' : window'[i] = words
    BY <1>8 DEF WindowIsOfLastHyp
  <2> HIDE DEF words
  <2>3. Len(window') >= AgreementN
    BY <2>2
  <2>4. AgreedLength(window') = Len(words)
    BY <2>1, <2>2, <2>3, Agreement
  <2>5. StableEnd(window', lastHyp'.text) = Len(lastHyp'.text)
    BY <1>2, <2>1, <2>4, StableEndIs
  <2> QED BY <1>7, <2>5
<1> QED BY <1>4, <1>5, <1>6, <1>7, <1>8

Inv == TypeOK /\ WindowIsOfLastHyp /\ RevisionsReported

LEMMA TickEmits ==
  ASSUME Inv, Tick
  PROVE  /\ Emission /\ PhraseShape' /\ NothingLeftStable'
<1>1. /\ window \in Seq(Seq(Words)) /\ lastHyp \in Hypotheses /\ ends \in Seq(Nat) /\ Len(lastHyp.text) <= MaxText
      /\ firstSeen \in [0..MaxText -> Nat \union {Unseen}] /\ contradicted \in BOOLEAN /\ now \in Nat \union {Unseen}
  BY DEF Inv, TypeOK
<1>2. /\ phase' = "tick" /\ batch = <<>>
      /\ window' = window /\ firstSeen' = firstSeen /\ lastHyp' = lastHyp /\ ends' = ends
  BY DEF Tick
<1>3. WindowIsOfLastHyp' /\ (~IsPrefix(spoken, Normalised(lastHyp'.text)) => contradicted)
  BY <1>2 DEF Inv, WindowIsOfLastHyp, RevisionsReported
<1>4. CASE now - lastHyp.wall < SilenceCommit
  <2>1. batch' = <<>> /\ contradicted' = contradicted /\ nextId' = nextId
        /\ committed' = committed /\ cursor' = cursor /\ spoken' = spoken
    BY <1>2, <1>4 DEF Tick
  <2>2. Commit(batch', contradicted, lastHyp')
    <3>1. nextId' = nextId + Len(batch')
      BY <2>1 DEF Inv, TypeOK
    <3>2. contradicted' = (contradicted /\ batch' = <<>>)
      BY <1>1, <2>1
    <3> QED BY <2>1, <3>1, <3>2 DEF Commit
  <2>3. Leads(batch', window', lastHyp', ends')
    BY <2>1 DEF Leads
  <2>4. Emission
    BY <1>1, <1>2, <1>3, <2>2, <2>3 DEF Emission
  <2>5. PhraseShape' /\ NothingLeftStable'
    BY <1>2, <2>1 DEF PhraseShape, NothingLeftStable
  <2> QED BY <2>4, <2>5
<1>5. CASE ~(now - lastHyp.wall < SilenceCommit)
  <2>1. Commit(EmitAll(window', firstSeen, contradicted, lastHyp', ends', "silence", now), contradicted, lastHyp')
    BY <1>2, <1>5 DEF Tick
  <2>2. /\ window' \in Seq(Seq(Words)) /\ lastHyp' \in Hypotheses /\ ends' \in Seq(Nat)
        /\ Len(lastHyp'.text) <= MaxText /\ "silence" \in {"final", "silence"} /\ TypeOK
    BY <1>1, <1>2 DEF Inv
  <2>3. /\ Emission /\ PhraseShape'
        /\ StableEnd(window', lastHyp'.text) <= committed'
        /\ lastHyp'.final => Len(lastHyp'.text) <= committed'
    BY ONLY <1>1, <1>3, <2>1, <2>2, AllEmitted
  <2>4. NothingLeftStable'
    BY <2>3 DEF NothingLeftStable
  <2> QED BY <2>3, <2>4
<1> QED BY <1>4, <1>5

LEMMA FlushEmits ==
  ASSUME Inv, Flush
  PROVE  /\ Emission /\ PhraseShape' /\ NothingLeftStable'
<1>1. /\ window \in Seq(Seq(Words)) /\ lastHyp \in Hypotheses /\ ends \in Seq(Nat) /\ Len(lastHyp.text) <= MaxText
      /\ firstSeen \in [0..MaxText -> Nat \union {Unseen}] /\ contradicted \in BOOLEAN
      /\ lastHyp.wall \in Nat \union {Unseen} /\ lastHyp.text \in Seq(Tokens) /\ committed \in Nat
  BY SMTT(30) DEF Inv, TypeOK, Hypotheses
<1>2. /\ batch = <<>>
      /\ window' = window /\ firstSeen' = firstSeen /\ lastHyp' = lastHyp /\ ends' = ends
  BY DEF Flush, Listening
<1>3. WindowIsOfLastHyp' /\ (~IsPrefix(spoken, Normalised(lastHyp'.text)) => contradicted)
  BY <1>2 DEF Inv, WindowIsOfLastHyp, RevisionsReported
<1>4. CASE lastHyp = NoHyp
  <2>1. batch' = <<>> /\ contradicted' = contradicted /\ nextId' = nextId
        /\ committed' = committed /\ cursor' = cursor /\ spoken' = spoken
    BY <1>2, <1>4 DEF Flush
  <2>2. Commit(batch', contradicted, lastHyp')
    <3>1. nextId' = nextId + Len(batch')
      BY <2>1 DEF Inv, TypeOK
    <3>2. contradicted' = (contradicted /\ batch' = <<>>)
      BY <1>1, <2>1
    <3> QED BY <2>1, <3>1, <3>2 DEF Commit
  <2>3. Leads(batch', window', lastHyp', ends')
    BY <2>1 DEF Leads
  <2>4. Emission
    BY <1>1, <1>2, <1>3, <2>2, <2>3 DEF Emission
  <2>5. PhraseShape'
    BY <2>1 DEF PhraseShape
  <2>6. Len(lastHyp.text) = 0 /\ ~lastHyp.final
    BY <1>4 DEF NoHyp
  <2>7. StableEnd(window, lastHyp.text) <= Len(lastHyp.text) /\ StableEnd(window, lastHyp.text) \in Nat
    BY <1>1, StableEndIs
  <2>8. StableEnd(window', lastHyp'.text) <= committed' /\ ~lastHyp'.final
    BY <1>1, <1>2, <2>1, <2>6, <2>7
  <2> QED BY <2>4, <2>5, <2>8 DEF NothingLeftStable
<1>5. CASE lastHyp # NoHyp
  <2>1. Commit(EmitAll(window', firstSeen, contradicted, lastHyp', ends', "final", lastHyp.wall), contradicted, lastHyp')
    BY <1>2, <1>5 DEF Flush
  <2>2. /\ window' \in Seq(Seq(Words)) /\ lastHyp' \in Hypotheses /\ ends' \in Seq(Nat)
        /\ Len(lastHyp'.text) <= MaxText /\ "final" \in {"final", "silence"} /\ TypeOK
    BY <1>1, <1>2 DEF Inv
  <2>3. /\ Emission /\ PhraseShape'
        /\ StableEnd(window', lastHyp'.text) <= committed'
        /\ lastHyp'.final => Len(lastHyp'.text) <= committed'
    BY ONLY <1>1, <1>3, <2>1, <2>2, AllEmitted
  <2> QED BY <2>3 DEF NothingLeftStable
<1> QED BY <1>4, <1>5

\* For a timed backend: every word has a stamp, the stamps do not go down, none
\* is past the end of the audio heard, and no word still to commit has one
\* before the audio the phrases have covered.
InOrder(stamps, text, audioEnd) ==
  /\ Len(stamps) = Len(text) /\ cursor <= audioEnd
  /\ \A i \in 1..Len(stamps) : /\ stamps[i] <= audioEnd
                               /\ i > committed => cursor <= stamps[i]
                               /\ \A j \in i..Len(stamps) : stamps[i] <= stamps[j]
StampsInOrder == timed => InOrder(ends, lastHyp.text, lastHyp.audioEnd) /\ lastHyp.audioEnd <= 12 * now

LEMMA NextTextIs ==
  ASSUME TypeOK, NEW text \in NextTexts
  PROVE  text \in Seq(Tokens) /\ locked <= Len(text)
<1> DEFINE old == lastHyp.text
           low == Max({locked, Len(old) - MaxDrop})
<1>1. PICK kept \in low..Len(old), more \in UNION {[1..n -> Tokens] : n \in 0..MaxAdd} :
        text = SubSeq(old, 1, kept) \o more
  BY DEF NextTexts
<1>2. old \in Seq(Tokens) /\ Len(old) \in Nat /\ locked \in Nat /\ MaxDrop \in Nat
  BY DEF TypeOK, Hypotheses
<1>3. low \in Int /\ locked <= low
  <2> HIDE DEF old
  <2>1. locked \in Int /\ Len(old) - MaxDrop \in Int
    BY <1>2
  <2>2. low = IF locked >= Len(old) - MaxDrop THEN locked ELSE Len(old) - MaxDrop
    BY <2>1, MaxOfTwo
  <2> QED BY <2>1, <2>2
<1> HIDE DEF low
<1>4. kept \in Nat /\ locked <= kept /\ kept <= Len(old)
  BY <1>1, <1>2, <1>3
<1>5. PICK n \in 0..MaxAdd : more \in [1..n -> Tokens]
  BY <1>1
<1>6. more \in Seq(Tokens) /\ Len(more) \in Nat
  <2>1. n \in Nat
    BY <1>5
  <2>2. more \in Seq(Tokens)
    BY <1>5, <2>1, FunctionIsSeq
  <2> QED BY <2>2
<1> HIDE DEF old
<1>7. SubSeq(old, 1, kept) \in Seq(Tokens) /\ Len(SubSeq(old, 1, kept)) = kept
  <2>1. 1 \in Int /\ kept \in Int /\ \A i \in 1..kept : old[i] \in Tokens
    BY <1>2, <1>4
  <2>2. /\ SubSeq(old, 1, kept) \in Seq(Tokens)
        /\ Len(SubSeq(old, 1, kept)) = (IF 1 <= kept THEN kept - 1 + 1 ELSE 0)
    BY <2>1, SubSeqProperties
  <2> QED BY <1>4, <2>2
<1>8. text \in Seq(Tokens) /\ Len(text) = kept + Len(more)
  BY <1>1, <1>6, <1>7, ConcatProperties
<1> QED BY <1>2, <1>4, <1>6, <1>8, SMTT(30)

LEMMA StampsAre ==
  ASSUME TypeOK, StampsInOrder, timed, NEW text \in Seq(Tokens), NEW audioEnd \in Nat, lastHyp.audioEnd <= audioEnd
  PROVE  Stamps(text, audioEnd) \in Seq(Nat) /\ InOrder(Stamps(text, audioEnd), text, audioEnd)
<1> DEFINE old == lastHyp.text
           H == {text, old}
           shared == Len(LongestCommonPrefix(H))
           s == Stamps(text, audioEnd)
           last == lastHyp.audioEnd
<1>0. lastHyp \in Hypotheses /\ ends \in Seq(Nat) /\ cursor \in Nat /\ committed \in Nat
  BY DEF TypeOK
<1>1. /\ old \in Seq(Tokens) /\ Len(old) \in Nat /\ Len(text) \in Nat /\ ends \in Seq(Nat) /\ Len(ends) = Len(old)
      /\ cursor \in Nat /\ committed \in Nat /\ last \in Nat /\ cursor <= last /\ last <= audioEnd
      /\ \A i \in 1..Len(ends) : /\ ends[i] \in Nat /\ ends[i] <= last
                                 /\ i > committed => cursor <= ends[i]
                                 /\ \A j \in i..Len(ends) : ends[i] <= ends[j]
  <2>1. old \in Seq(Tokens) /\ last \in Nat
    BY <1>0 DEF Hypotheses
  <2>2. InOrder(ends, old, last)
    BY DEF StampsInOrder
  <2> HIDE DEF old, last
  <2>3. Len(ends) = Len(old) /\ cursor <= last /\ \A i \in 1..Len(ends) : ends[i] \in Nat
    BY <1>0, <2>2, SMTT(30) DEF InOrder
  <2>4. \A i \in 1..Len(ends) : /\ ends[i] <= last
                                /\ i > committed => cursor <= ends[i]
                                /\ \A j \in i..Len(ends) : ends[i] <= ends[j]
    BY <2>2 DEF InOrder
  <2>5. Len(old) \in Nat /\ Len(text) \in Nat /\ last <= audioEnd
    BY <2>1 DEF last
  <2> QED BY <1>0, <2>1, <2>3, <2>4, <2>5
<1>2. shared \in Nat /\ shared <= Len(text) /\ shared <= Len(old)
  <2>1. H \in SUBSET Seq(Tokens) /\ H # {}
    BY <1>1
  <2>2. LongestCommonPrefix(H) \in Seq(Tokens) /\ \A h \in H : IsPrefix(LongestCommonPrefix(H), h)
    <3> HIDE DEF H
    <3> QED BY ONLY <2>1, LongestPrefix
  <2>3. IsPrefix(LongestCommonPrefix(H), text) /\ IsPrefix(LongestCommonPrefix(H), old)
    BY <2>2
  <2> HIDE DEF H, old
  <2> QED BY <2>2, <2>3 DEF IsPrefix
<1>3. s = [i \in 1..Len(text) |-> IF i <= shared THEN ends[i] ELSE audioEnd]
  <2>1. DOMAIN text = 1..Len(text)
    OBVIOUS
  <2> QED BY <2>1 DEF Stamps
<1> HIDE DEF shared, s, H
<1>4. \A i \in 1..Len(text) : s[i] = IF i <= shared THEN ends[i] ELSE audioEnd
  BY <1>3
<1> HIDE DEF old, last
<1>5. ASSUME NEW i \in 1..Len(text)
      PROVE  /\ s[i] \in Nat /\ s[i] <= audioEnd
             /\ i > committed => cursor <= s[i]
  <2>1. CASE i <= shared
    <3>1. s[i] = ends[i] /\ i \in 1..Len(ends)
      BY <1>1, <1>2, <1>4, <2>1
    <3>2. ends[i] \in Nat /\ ends[i] <= last /\ (i > committed => cursor <= ends[i])
      BY <1>1, <3>1
    <3> QED BY <1>1, <3>1, <3>2, SMTT(30)
  <2>2. CASE ~(i <= shared)
    <3>1. s[i] = audioEnd
      BY <1>4, <2>2
    <3> QED BY <1>1, <3>1
  <2> QED BY <2>1, <2>2
<1>6. ASSUME NEW i \in 1..Len(text), NEW j \in i..Len(text) PROVE s[i] <= s[j]
  <2>0. j \in 1..Len(text)
    BY <1>1
  <2>1. CASE j <= shared
    <3>1. i <= shared /\ i \in 1..Len(ends) /\ j \in i..Len(ends)
      BY <1>1, <1>2, <2>1, SMTT(30)
    <3>2. s[i] = ends[i] /\ s[j] = ends[j]
      BY <1>4, <2>0, <2>1, <3>1
    <3> QED BY <1>1, <3>1, <3>2
  <2>2. CASE ~(j <= shared)
    <3>1. s[j] = audioEnd
      BY <1>4, <2>0, <2>2
    <3> QED BY <1>5, <3>1
  <2> QED BY <2>1, <2>2
<1>7. s \in Seq(Nat) /\ Len(s) = Len(text)
  <2>1. s \in [1..Len(text) -> Nat]
    BY <1>3, <1>4, <1>5
  <2>2. Len(text) \in Nat
    BY <1>1
  <2>3. s \in Seq(Nat)
    BY ONLY <2>1, <2>2, FunctionIsSeq
  <2> QED BY <1>3, <2>2, <2>3
<1>8. cursor <= audioEnd
  BY <1>1
<1> QED BY <1>5, <1>6, <1>7, <1>8 DEF InOrder, s

\* A hypothesis that takes spoken words back raises the flag.
LEMMA TakingBackFlags ==
  ASSUME Inv, NEW words \in Seq(Words), ~IsPrefix(spoken, words)
  PROVE  contradicted \/ Contradicts(window, committed, words)
<1> DEFINE last == Last(window)
<1>1. spoken \in Seq(Words) /\ committed = Len(spoken) /\ committed \in Nat /\ Len(words) \in Nat
      /\ window \in Seq(Seq(Words)) /\ Len(window) \in Nat /\ lastHyp.text \in Seq(Tokens)
  BY SMTT(30) DEF Inv, TypeOK, Hypotheses
<1>2. committed > 0
  <2>1. CASE committed = 0
    <3>1. Len(spoken) = 0 /\ 0 <= Len(words) /\ 1..Len(spoken) = {}
      BY <1>1, <2>1
    <3>2. IsPrefix(spoken, words)
      BY <1>1, <3>1, PrefixPlaces
    <3> QED BY <3>2
  <2> QED BY <1>1, <2>1
<1>3. SUFFICES ASSUME ~contradicted, Len(words) >= committed PROVE Contradicts(window, committed, words)
  BY <1>1, <1>2 DEF Contradicts
<1>4. IsPrefix(spoken, Normalised(lastHyp.text))
  BY <1>3 DEF Inv, RevisionsReported
<1>5. Normalised(lastHyp.text) \in Seq(Words) /\ Len(Normalised(lastHyp.text)) = Len(lastHyp.text)
  BY <1>1, NormalisedPlaces
<1>6. committed <= Len(Normalised(lastHyp.text)) /\ spoken = SubSeq(Normalised(lastHyp.text), 1, committed)
  BY <1>1, <1>4, <1>5 DEF IsPrefix
<1>7. window # <<>>
  <2>1. CASE window = <<>>
    <3>1. lastHyp.text = <<>>
      BY <2>1 DEF Inv, WindowIsOfLastHyp
    <3>2. Len(lastHyp.text) = 0
      BY <3>1
    <3> QED BY <1>1, <1>2, <1>5, <1>6, <3>2
  <2> QED BY <2>1
<1>8. last = Normalised(lastHyp.text)
  BY <1>7 DEF Inv, WindowIsOfLastHyp
<1>9. SubSeq(words, 1, committed) # SubSeq(last, 1, committed)
  <2>1. CASE SubSeq(words, 1, committed) = SubSeq(last, 1, committed)
    <3>1. spoken = SubSeq(words, 1, Len(spoken)) /\ Len(spoken) <= Len(words)
      BY <1>1, <1>3, <1>6, <1>8, <2>1
    <3>2. IsPrefix(spoken, words)
      BY <3>1 DEF IsPrefix
    <3> QED BY <3>2
  <2> QED BY <2>1
<1>10. Len(last) >= committed
  BY <1>1, <1>5, <1>6, <1>8
<1> QED BY <1>2, <1>7, <1>9, <1>10 DEF Contradicts

LEMMA HearEmits ==
  ASSUME Inv, StampsInOrder, Hear
  PROVE  /\ Emission /\ PhraseShape' /\ NothingLeftStable' /\ WindowIsOfLastHyp'
         /\ Len(window') <= AgreementN /\ firstSeen' \in [0..MaxText -> Nat \union {Unseen}]
         /\ Len(lastHyp'.text) <= MaxText /\ lastHyp'.wall = now /\ locked' \in 0..Len(lastHyp'.text)
         /\ timed => InOrder(ends', lastHyp'.text, lastHyp'.audioEnd) /\ lastHyp'.audioEnd = 12 * now
<1>1. PICK text \in NextTexts, final \in BOOLEAN :
        Len(text) <= MaxText /\ Feed(text, final) /\ locked' = IF final THEN Len(text) ELSE locked
  BY DEF Hear
<1> DEFINE hyp == [text |-> text, final |-> final, wall |-> now, audioEnd |-> 12 * now]
           words == Normalised(text)
           win == WindowWith(window, words, final)
           flag == contradicted \/ Contradicts(window, committed, words)
           agreed == AgreedLength(win)
           seen == IF firstSeen[agreed] = Unseen THEN [firstSeen EXCEPT ![agreed] = now] ELSE firstSeen
           stamps == IF timed THEN Stamps(text, hyp.audioEnd) ELSE <<>>
<1>2. /\ batch = <<>> /\ phase' = "feed" /\ timed' = timed /\ now' = now /\ now \in Nat
      /\ window \in Seq(Seq(Words)) /\ firstSeen \in [0..MaxText -> Nat \union {Unseen}]
      /\ contradicted \in BOOLEAN /\ locked \in Nat /\ lastHyp.wall <= now /\ TypeOK
  BY SMTT(30) DEF Hear, Listening, Inv, TypeOK
<1>3. text \in Seq(Tokens) /\ Len(text) \in Nat /\ locked <= Len(text)
  BY <1>2, NextTextIs
<1>4. /\ lastHyp' = hyp /\ window' = win /\ firstSeen' = seen /\ ends' = stamps
      /\ Commit(IF final THEN EmitAll(win, seen, flag, hyp, stamps, "final", now)
                ELSE TryEmit(win, seen, flag, hyp, stamps), flag, hyp)
  BY <1>1 DEF Feed
<1>5. /\ hyp \in Hypotheses /\ hyp.text = text /\ hyp.final = final /\ hyp.wall = now /\ hyp.audioEnd = 12 * now
      /\ 12 * now \in Nat
  BY <1>2, <1>3 DEF Hypotheses
<1>6. words \in Seq(Words) /\ Len(words) = Len(text)
  BY <1>3, NormalisedPlaces
<1>7. /\ win \in Seq(Seq(Words)) /\ Len(win) \in 1..AgreementN /\ Last(win) = words
      /\ final => Len(win) = AgreementN /\ \A i \in 1..Len(win) : win[i] = words
  <2> HIDE DEF words
  <2> QED BY ONLY <1>2, <1>6, WindowPlaces, final \in BOOLEAN
<1>8. flag \in BOOLEAN /\ (~IsPrefix(spoken, words) => flag)
  <2>1. Contradicts(window, committed, words) \in BOOLEAN
    BY DEF Contradicts
  <2> HIDE DEF words
  <2>2. ~IsPrefix(spoken, words) => flag
    BY <1>6, TakingBackFlags
  <2> QED BY <1>2, <2>1, <2>2
<1>9. WindowIsOfLastHyp'
  <2>1. window' # <<>>
    BY <1>4, <1>7
  <2>2. Last(window') = Normalised(lastHyp'.text)
    BY <1>4, <1>5, <1>7
  <2>3. lastHyp'.final => Len(window') = AgreementN /\ \A i \in 1..Len(window') : window'[i] = Normalised(lastHyp'.text)
    BY <1>4, <1>5, <1>7
  <2> QED BY <2>1, <2>2, <2>3 DEF WindowIsOfLastHyp
<1> HIDE DEF win
<1>10. agreed \in 0..MaxText
  <2>1. agreed <= Len(text) /\ agreed \in Nat
    BY <1>3, <1>7, AgreedFits, Agreement
  <2> QED BY <1>1, <1>3, <2>1
<1> HIDE DEF agreed
<1>11. seen \in [0..MaxText -> Nat \union {Unseen}]
  BY <1>2, <1>10
<1>12. /\ stamps \in Seq(Nat)
       /\ timed => InOrder(stamps, text, 12 * now)
  <2>1. CASE ~timed
    BY <2>1
  <2>2. CASE timed
    <3>1. lastHyp.audioEnd <= 12 * now
      BY <2>2 DEF StampsInOrder
    <3>2. Stamps(text, 12 * now) \in Seq(Nat) /\ InOrder(Stamps(text, 12 * now), text, 12 * now)
      <4> DEFINE audioEnd == 12 * now
      <4>1. audioEnd \in Nat /\ lastHyp.audioEnd <= audioEnd
        BY <1>5, <3>1
      <4> HIDE DEF audioEnd
      <4>2. Stamps(text, audioEnd) \in Seq(Nat) /\ InOrder(Stamps(text, audioEnd), text, audioEnd)
        BY ONLY <1>2, <1>3, <2>2, <4>1, StampsInOrder, StampsAre
      <4> QED BY <4>2 DEF audioEnd
    <3> QED BY <1>5, <2>2, <3>2
  <2> QED BY <2>1, <2>2
<1> HIDE DEF seen, stamps, flag, hyp
<1>13. /\ window' \in Seq(Seq(Words)) /\ lastHyp' \in Hypotheses /\ ends' \in Seq(Nat)
       /\ Len(lastHyp'.text) <= MaxText /\ "final" \in {"final", "silence"} /\ now \in Nat \union {Unseen}
       /\ (~IsPrefix(spoken, Normalised(lastHyp'.text)) => flag)
  BY <1>1, <1>2, <1>4, <1>5, <1>7, <1>8, <1>12
<1>14. ASSUME final PROVE Emission /\ PhraseShape' /\ NothingLeftStable'
  <2>1. Commit(EmitAll(window', seen, flag, lastHyp', ends', "final", now), flag, lastHyp')
    BY <1>4, <1>14
  <2>2. /\ Emission /\ PhraseShape'
        /\ StableEnd(window', lastHyp'.text) <= committed'
        /\ lastHyp'.final => Len(lastHyp'.text) <= committed'
    BY ONLY <1>2, <1>8, <1>9, <1>11, <1>13, <2>1, AllEmitted
  <2> QED BY <2>2 DEF NothingLeftStable
<1>15. ASSUME ~final PROVE Emission /\ PhraseShape' /\ NothingLeftStable'
  <2> DEFINE phrases == TryEmit(win, seen, flag, hyp, stamps)
  <2>1. Commit(phrases, flag, hyp) /\ batch' = phrases
    BY <1>4, <1>15 DEF Commit
  <2>2. AgreedLength(win) <= MaxText
    BY <1>10 DEF agreed
  <2>3. /\ Leads(phrases, win, hyp, stamps) /\ Len(phrases) <= 1
        /\ phrases # <<>> =>
             LET p == phrases[1]
             IN  /\ p.from + p.take <= StableEnd(win, hyp.text) /\ p.take >= MinWords
                 /\ p.reason \in {"clause", "max_words", "stability_timeout"}
                 /\ p.reason = "clause" =>
                      \/ hyp.text[p.from + p.take].closes
                      \/ /\ p.from + p.take < Len(hyp.text)
                         /\ hyp.text[p.from + p.take + 1].word \in Conjunctions
                 /\ p.reason = "stability_timeout" =>
                      \A n \in MinWords..p.take : ~hyp.text[p.from + n].closes
    BY ONLY <1>2, <1>5, <1>7, <1>8, <1>11, <1>12, <2>2, TryEmitIs
  <2> HIDE DEF phrases
  <2>4. Emission
    BY <1>4, <1>8, <1>13, <2>1, <2>3 DEF Emission
  <2>5. batch' \in Seq(PhraseChunks) /\ DOMAIN batch' = 1..Len(batch') /\ Len(batch') \in Nat /\ Len(batch') <= 1
        /\ \A i \in 1..Len(batch') : batch'[i].take \in 1..MaxWords
    <3>1. phrases \in Seq(PhraseChunks) /\ \A i \in 1..Len(phrases) : phrases[i].take \in 1..MaxWords
      BY <2>3 DEF Leads
    <3> QED BY <2>1, <2>3, <3>1
  <2>6. ASSUME NEW i \in DOMAIN batch' PROVE i = 1 /\ phrases # <<>> /\ batch'[i] = phrases[1]
    BY <2>1, <2>5
  <2>7. PhraseShape'
    <3>1. ASSUME NEW i \in DOMAIN batch'
          PROVE  LET p == batch'[i]
                     token(n) == lastHyp'.text[p.from + n]
                 IN  /\ p.take \in 1..MaxWords
                     /\ p.reason \in {"clause", "max_words", "stability_timeout"} => p.take >= MinWords
                     /\ p.reason = "clause" =>
                          \/ token(p.take).closes
                          \/ p.from + p.take < Len(lastHyp'.text) /\ token(p.take + 1).word \in Conjunctions
                     /\ p.reason = "stability_timeout" => \A n \in MinWords..p.take : ~token(n).closes
      <4> DEFINE p == batch'[i]
      <4>1. p = phrases[1] /\ p.take \in 1..MaxWords /\ p.from \in Nat /\ p.take \in Nat
        <5>1. p \in PhraseChunks
          BY <2>5, <3>1
        <5>2. p = phrases[1] /\ p.take \in 1..MaxWords
          BY <2>5, <2>6, <3>1
        <5> QED BY <5>1, <5>2 DEF PhraseChunks
      <4>2. p.from + (p.take + 1) = p.from + p.take + 1
        BY <4>1
      <4> HIDE DEF p
      <4>3. /\ p.take >= MinWords
            /\ p.reason = "clause" =>
                 \/ lastHyp'.text[p.from + p.take].closes
                 \/ p.from + p.take < Len(lastHyp'.text) /\ lastHyp'.text[p.from + (p.take + 1)].word \in Conjunctions
            /\ p.reason = "stability_timeout" => \A n \in MinWords..p.take : ~lastHyp'.text[p.from + n].closes
        BY <1>4, <2>3, <2>6, <3>1, <4>1, <4>2
      <4> QED BY <4>1, <4>3 DEF p
    <3> QED BY <3>1 DEF PhraseShape
  <2>8. NothingLeftStable'
    <3>1. phase' # "flush" /\ ~lastHyp'.final
      BY <1>2, <1>4, <1>5, <1>15
    <3>2. \A i \in DOMAIN batch' : batch'[i].reason # "silence"
      BY <2>3, <2>6
    <3> QED BY <3>1, <3>2 DEF NothingLeftStable
  <2> QED BY <2>4, <2>7, <2>8
<1>16. /\ Len(window') <= AgreementN /\ firstSeen' \in [0..MaxText -> Nat \union {Unseen}]
       /\ Len(lastHyp'.text) <= MaxText /\ lastHyp'.wall = now
  BY <1>1, <1>4, <1>5, <1>7, <1>11
<1>17. locked' \in 0..Len(lastHyp'.text)
  BY <1>1, <1>2, <1>3, <1>4, <1>5
<1>18. timed => InOrder(ends', lastHyp'.text, lastHyp'.audioEnd) /\ lastHyp'.audioEnd = 12 * now
  BY <1>4, <1>5, <1>12
<1> QED BY <1>9, <1>14, <1>15, <1>16, <1>17, <1>18

\* With word timings, the phrases a call commits follow on one another in the
\* audio, and leave the cursor before every word still to commit.
LEMMA SpansAre ==
  ASSUME TypeOK, Emission, timed, timed' = timed, InOrder(ends', lastHyp'.text, lastHyp'.audioEnd)
  PROVE  /\ SpansForward'
         /\ cursor' <= lastHyp'.audioEnd
         /\ \A i \in 1..Len(ends') : i > committed' => cursor' <= ends'[i]
<1> DEFINE n == Len(batch')
           text == lastHyp'.text
           audioEnd == lastHyp'.audioEnd
           upto(i) == batch'[i].from + batch'[i].take
<1>1. /\ batch' \in Seq(PhraseChunks) /\ n \in Nat /\ text \in Seq(Tokens) /\ Len(text) \in Nat /\ audioEnd \in Nat
      /\ ends' \in Seq(Nat) /\ Len(ends') = Len(text) /\ committed \in Nat /\ cursor \in Nat
      /\ window' \in Seq(Seq(Words)) /\ lastHyp' \in Hypotheses
  <2>1. batch' \in Seq(PhraseChunks) /\ window' \in Seq(Seq(Words)) /\ lastHyp' \in Hypotheses /\ ends' \in Seq(Nat)
    BY DEF Emission, Leads
  <2>2. text \in Seq(Tokens) /\ audioEnd \in Nat
    BY <2>1 DEF Hypotheses
  <2>3. committed \in Nat /\ cursor \in Nat
    BY DEF TypeOK
  <2>4. Len(ends') = Len(text)
    BY DEF InOrder
  <2> HIDE DEF text, audioEnd
  <2> QED BY <2>1, <2>2, <2>3, <2>4
<1>2. /\ cursor <= audioEnd
      /\ \A i \in 1..Len(ends') : /\ ends'[i] <= audioEnd /\ ends'[i] \in Nat
                                  /\ i > committed => cursor <= ends'[i]
                                  /\ \A j \in i..Len(ends') : ends'[i] <= ends'[j]
  <2>1. InOrder(ends', text, audioEnd)
    OBVIOUS
  <2> HIDE DEF text, audioEnd
  <2>2. \A i \in 1..Len(ends') : ends'[i] \in Nat
    BY <1>1, SMTT(30)
  <2> QED BY <2>1, <2>2 DEF InOrder
<1>3. StableEnd(window', text) \in Nat /\ StableEnd(window', text) <= Len(text)
  BY <1>1, StableEndIs
<1>4. ASSUME NEW i \in 1..n
      PROVE  /\ upto(i) \in 1..Len(ends') /\ upto(i) > committed /\ batch'[i].from \in Nat
             /\ batch'[i].end = ends'[upto(i)] /\ batch'[i].from < upto(i)
  <2> DEFINE p == batch'[i]
             end == StableEnd(window', text)
  <2>1. p \in PhraseChunks
    BY <1>1
  <2>2. /\ p.take \in 1..MaxWords /\ p.from >= committed /\ p.from + p.take <= end
        /\ p.end = WordEnd(lastHyp', ends', p.from, p.take)
    BY DEF Emission, Leads
  <2>3. p.from \in Nat /\ p.take \in Nat
    <3> HIDE DEF p
    <3> QED BY <2>1 DEF PhraseChunks
  <2> HIDE DEF p, end
  <2>4. p.from + p.take \in 1..Len(ends') /\ p.from + p.take > committed /\ p.from < p.from + p.take
    <3> DEFINE from == p.from
               take == p.take
               length == Len(ends')
    <3>1. /\ from \in Nat /\ take \in Nat /\ take >= 1 /\ from >= committed /\ from + take <= end /\ end \in Nat
          /\ length \in Nat /\ end <= length /\ committed \in Nat
      BY <1>1, <1>3, <2>2, <2>3 DEF end
    <3> HIDE DEF from, take, length
    <3>2. from + take \in 1..length /\ from + take > committed /\ from < from + take
      BY <3>1
    <3> QED BY <3>2 DEF from, take, length
  <2>5. text # <<>> /\ p.from + p.take <= Len(ends')
    <3>1. Len(text) # 0
      BY <1>1, <2>4
    <3> QED BY <1>1, <2>4, <3>1
  <2>6. p.end = ends'[p.from + p.take]
    BY <2>2, <2>5 DEF WordEnd
  <2> QED BY <2>3, <2>4, <2>6 DEF p
<1>5. n > 0 => batch'[1].start = cursor
  BY <1>1 DEF Emission, Leads
<1>6. ASSUME NEW i \in 1..(n - 1)
      PROVE  /\ batch'[i + 1].start = batch'[i].end /\ batch'[i + 1].from = upto(i)
             /\ i \in 1..n /\ i + 1 \in 1..n
  <2>1. i \in 1..n /\ i + 1 \in 1..n
    BY <1>1, SMTT(30)
  <2> QED BY <2>1 DEF Emission, Leads
<1> HIDE DEF upto
<1>7. ASSUME NEW i \in 1..n PROVE batch'[i].start <= batch'[i].end
  <2>1. CASE i = 1
    <3>1. n > 0
      BY <1>1
    <3>2. batch'[i].start = cursor
      BY <1>5, <2>1, <3>1
    <3>3. cursor <= ends'[upto(i)]
      BY <1>2, <1>4
    <3> QED BY <1>4, <3>2, <3>3
  <2>2. CASE i # 1
    <3> DEFINE j == i - 1
    <3>1. j \in 1..(n - 1) /\ j + 1 = i
      BY <1>1, <2>2
    <3> HIDE DEF j
    <3>2. batch'[i].start = batch'[j].end /\ batch'[i].from = upto(j) /\ j \in 1..n
      BY <1>6, <3>1
    <3>3. upto(j) \in 1..Len(ends') /\ upto(i) \in 1..Len(ends') /\ upto(j) < upto(i)
      BY <1>4, <3>2
    <3>4. upto(i) \in upto(j)..Len(ends')
      BY <1>1, <3>3
    <3>5. ends'[upto(j)] <= ends'[upto(i)]
      BY <1>2, <3>3, <3>4
    <3> QED BY <1>4, <3>2, <3>5
  <2> QED BY <2>1, <2>2
<1>8. n > 0 => Last(batch').end = cursor' /\ committed' = upto(n)
  <2>1. ASSUME n > 0 PROVE Last(batch').end = cursor' /\ committed' = upto(n)
    <3>1. batch' # <<>>
      BY <2>1
    <3> QED BY <3>1, EmissionIs DEF Last, upto
  <2> QED BY <2>1
<1>9. SpansForward'
  <2>1. DOMAIN batch' = 1..n /\ (batch' # <<>> => n > 0)
    BY <1>1
  <2> QED BY <1>6, <1>7, <1>8, <2>1 DEF SpansForward
<1>10. cursor' <= audioEnd /\ \A i \in 1..Len(ends') : i > committed' => cursor' <= ends'[i]
  <2>1. CASE n = 0
    <3>1. cursor' = cursor /\ committed' = committed
      <4>1. batch' = <<>>
        BY <1>1, <2>1
      <4> QED BY <4>1, EmissionIs
    <3> QED BY <1>2, <3>1
  <2>2. CASE n # 0
    <3>1. n \in 1..n /\ n > 0
      BY <1>1, <2>2
    <3>2. cursor' = ends'[upto(n)] /\ committed' = upto(n) /\ upto(n) \in 1..Len(ends')
      BY <1>4, <1>8, <3>1 DEF Last
    <3>3. ASSUME NEW i \in 1..Len(ends'), i > committed' PROVE cursor' <= ends'[i]
      <4>1. i \in upto(n)..Len(ends')
        BY <1>1, <3>2, <3>3
      <4> QED BY <1>2, <3>2, <4>1
    <3> QED BY <1>2, <3>2, <3>3
  <2> QED BY <2>1, <2>2
<1> QED BY <1>9, <1>10

LEMMA AgreedOnly ==
  ASSUME TypeOK, Emission, WindowIsOfLastHyp', Len(window') <= AgreementN
  PROVE  OnlyAgreedWords'
<1> SUFFICES ASSUME batch' # <<>> PROVE OnlyAgreedWords'
  BY DEF OnlyAgreedWords
<1> DEFINE words == Normalised(lastHyp'.text)
           agreed == AgreedLength(window')
<1>1. /\ batch' \in Seq(PhraseChunks) /\ Len(batch') \in Nat /\ window' \in Seq(Seq(Words)) /\ Len(window') \in Nat
      /\ lastHyp'.text \in Seq(Tokens) /\ committed \in Nat
  <2>1. batch' \in Seq(PhraseChunks) /\ window' \in Seq(Seq(Words)) /\ lastHyp'.text \in Seq(Tokens)
    BY DEF Emission, Leads, Hypotheses
  <2>2. committed \in Nat
    BY DEF TypeOK
  <2> QED BY <2>1, <2>2
<1>2. /\ spoken' \in Seq(Words) /\ committed' = Len(spoken')
      /\ committed' = batch'[Len(batch')].from + batch'[Len(batch')].take
      /\ committed' > committed /\ committed' <= StableEnd(window', lastHyp'.text)
      /\ batch'[Len(batch')].id = nextId' - 1 /\ IsPrefix(spoken', words)
  BY EmissionIs
<1>3. words \in Seq(Words) /\ Len(words) \in Nat
  BY <1>1, NormalisedPlaces
<1>4. committed' \in Nat /\ committed' <= agreed /\ agreed \in Nat /\ agreed > 0
  <2>1. StableEnd(window', lastHyp'.text) \in Nat /\ StableEnd(window', lastHyp'.text) <= agreed
    BY <1>1, StableEndIs
  <2>2. agreed \in Nat /\ committed' \in Nat
    BY <1>1, <1>2, Agreement, SMTT(30)
  <2> HIDE DEF agreed
  <2> QED BY <1>1, <1>2, <2>1, <2>2, SMTT(30)
<1> HIDE DEF words
<1>5. Len(window') = AgreementN /\ window' # <<>>
  <2>1. Len(window') >= AgreementN
    BY <1>1, <1>4, Agreement
  <2> QED BY <1>1, <2>1
<1>6. Len(window') \in DOMAIN window' /\ window'[Len(window')] = words
  <2>1. Last(window') = words
    BY <1>5 DEF WindowIsOfLastHyp, words
  <2> QED BY <1>1, <1>5, <2>1 DEF Last
<1>7. ASSUME NEW i \in DOMAIN window' PROVE IsPrefix(spoken', window'[i])
  <2>1. window'[i] \in Seq(Words) /\ agreed <= Len(window'[i])
    BY <1>1, Agreement
  <2>2. \A k \in 1..agreed : window'[i][k] = words[k]
    BY <1>1, <1>6, Agreement
  <2>3. \A k \in 1..Len(spoken') : spoken'[k] = words[k]
    <3>1. spoken' \in Seq(Words) /\ words \in Seq(Words) /\ IsPrefix(spoken', words)
      BY <1>2, <1>3
    <3> QED BY ONLY <3>1, PrefixPlaces
  <2> HIDE DEF agreed
  <2>4. Len(spoken') <= Len(window'[i]) /\ \A k \in 1..Len(spoken') : spoken'[k] = window'[i][k]
    <3>1. Len(window'[i]) \in Nat
      BY <2>1
    <3>2. Len(spoken') <= Len(window'[i])
      BY <1>2, <1>4, <2>1, <3>1, SMTT(30)
    <3>3. \A k \in 1..Len(spoken') : k \in 1..agreed
      BY <1>2, <1>4, SMTT(30)
    <3> QED BY <2>2, <2>3, <3>2, <3>3
  <2> QED BY <1>2, <2>1, <2>4, PrefixPlaces
<1>8. \A i \in 1..(Len(batch') - 1) :
        batch'[i + 1].from = batch'[i].from + batch'[i].take /\ batch'[i + 1].id = batch'[i].id + 1
  BY DEF Emission, Leads
<1> QED BY <1>2, <1>5, <1>7, <1>8 DEF OnlyAgreedWords, Last

LEMMA EmissionKeepsTypes ==
  ASSUME TypeOK, Emission, timed' = timed, Len(window') <= AgreementN,
         firstSeen' \in [0..MaxText -> Nat \union {Unseen}], Len(lastHyp'.text) <= MaxText, now' = now, heard' \in Nat,
         lastHyp'.wall <= now, locked' \in 0..Len(lastHyp'.text), phase' \in {"feed", "tick", "flush"}
  PROVE  TypeOK'
<1>1. timed' \in BOOLEAN /\ now' \in Nat /\ lastHyp'.wall <= now'
  BY DEF TypeOK
<1>2. window' \in Seq(Seq(Words)) /\ lastHyp' \in Hypotheses /\ ends' \in Seq(Nat)
  BY DEF Emission
<1>3. /\ batch' \in Seq(PhraseChunks) /\ nextId' \in Nat /\ cursor' \in Nat /\ contradicted' \in BOOLEAN
      /\ spoken' \in Seq(Words) /\ committed' = Len(spoken')
  BY EmissionIs
<1> QED BY <1>1, <1>2, <1>3 DEF TypeOK

-----------------------------------------------------------------------------
(* The inductive invariant.                                                *)

IInv == /\ Inv /\ StampsInOrder
        /\ OnlyAgreedWords /\ PhraseShape /\ NothingLeftStable /\ SpansForward

LEMMA InitIsSound == Init => IInv
<1> SUFFICES ASSUME Init PROVE IInv
  OBVIOUS
<1>1. NoHyp \in Hypotheses /\ NoHyp.text = <<>> /\ ~NoHyp.final /\ NoHyp.wall = Unseen /\ NoHyp.audioEnd = 0
  BY DEF NoHyp, Hypotheses
<1>2. Len(<<>>) = 0 /\ DOMAIN <<>> = {} /\ 0 \in 0..0
  OBVIOUS
<1>3. firstSeen \in [0..MaxText -> Nat \union {Unseen}]
  BY DEF Init
<1>4. TypeOK
  <2>1. Unseen <= 0 /\ 0 <= MaxText /\ 0 <= AgreementN
    BY DEF Unseen
  <2>2. /\ window = <<>> /\ window \in Seq(Seq(Words)) /\ ends \in Seq(Nat) /\ batch \in Seq(PhraseChunks)
        /\ spoken \in Seq(Words) /\ Len(spoken) = 0
    BY DEF Init
  <2> QED BY <1>1, <1>2, <1>3, <2>1, <2>2 DEF Init, TypeOK
<1>5. WindowIsOfLastHyp
  BY <1>1 DEF Init, WindowIsOfLastHyp
<1>6. RevisionsReported
  <2>1. Normalised(<<>>) = <<>>
    BY <1>2 DEF Normalised
  <2>2. IsPrefix(<<>>, <<>>)
    BY <1>2 DEF IsPrefix
  <2> QED BY <1>1, <2>1, <2>2 DEF Init, RevisionsReported
<1>7. StampsInOrder
  <2>1. InOrder(<<>>, <<>>, 0)
    <3>1. cursor = 0 /\ 1..Len(<<>>) = {}
      BY DEF Init
    <3> QED BY <3>1 DEF InOrder
  <2> QED BY <1>1, <2>1 DEF Init, StampsInOrder
<1>8. batch = <<>> /\ phase = "tick"
  BY DEF Init
<1> QED BY <1>4, <1>5, <1>6, <1>7, <1>8 DEF IInv, Inv, OnlyAgreedWords, PhraseShape, NothingLeftStable, SpansForward

LEMMA HearIsSound == ASSUME IInv, Hear PROVE IInv'
<1>1. /\ Emission /\ PhraseShape' /\ NothingLeftStable' /\ WindowIsOfLastHyp'
      /\ Len(window') <= AgreementN /\ firstSeen' \in [0..MaxText -> Nat \union {Unseen}]
      /\ Len(lastHyp'.text) <= MaxText /\ lastHyp'.wall = now /\ locked' \in 0..Len(lastHyp'.text)
      /\ timed => InOrder(ends', lastHyp'.text, lastHyp'.audioEnd) /\ lastHyp'.audioEnd = 12 * now
  BY HearEmits DEF IInv
<1>2. timed' = timed /\ now' = now /\ heard' = heard + 1 /\ phase' = "feed"
  BY DEF Hear
<1>3. TypeOK /\ now \in Nat /\ heard' \in Nat
  BY <1>2 DEF IInv, Inv, TypeOK
<1>4. TypeOK'
  <2>1. lastHyp'.wall <= now
    BY <1>1, <1>3
  <2>2. phase' \in {"feed", "tick", "flush"}
    BY <1>2
  <2> QED BY ONLY <1>1, <1>2, <1>3, <2>1, <2>2, EmissionKeepsTypes
<1>5. OnlyAgreedWords'
  BY <1>1, <1>3, AgreedOnly
<1>6. RevisionsReported'
  BY <1>1, <1>3, EmissionIs
<1>7. CASE ~timed
  BY <1>1, <1>2, <1>4, <1>5, <1>6, <1>7 DEF IInv, Inv, SpansForward, StampsInOrder
<1>8. CASE timed
  <2>1. /\ SpansForward' /\ cursor' <= lastHyp'.audioEnd
        /\ \A i \in 1..Len(ends') : i > committed' => cursor' <= ends'[i]
    BY <1>1, <1>2, <1>3, <1>8, SpansAre
  <2>2. InOrder(ends, lastHyp.text, lastHyp.audioEnd)'
    BY <1>1, <1>8, <2>1 DEF InOrder
  <2>3. lastHyp'.audioEnd <= 12 * now'
    BY <1>1, <1>2, <1>3, <1>8
  <2> QED BY <1>1, <1>4, <1>5, <1>6, <2>1, <2>2, <2>3 DEF IInv, Inv, StampsInOrder
<1> QED BY <1>7, <1>8

\* Neither of the calls that hear nothing changes what was heard.
LEMMA RestIsSound ==
  ASSUME IInv, Tick \/ Flush, Emission, PhraseShape', NothingLeftStable'
  PROVE  IInv'
<1>1. /\ timed' = timed /\ window' = window /\ firstSeen' = firstSeen /\ lastHyp' = lastHyp /\ ends' = ends
      /\ locked' = locked /\ now' = now /\ heard' = heard /\ phase' \in {"feed", "tick", "flush"}
  BY DEF Tick, Flush
<1>2. TypeOK /\ WindowIsOfLastHyp' /\ Len(window') <= AgreementN
  BY <1>1 DEF IInv, Inv, TypeOK, WindowIsOfLastHyp
<1>3. /\ firstSeen' \in [0..MaxText -> Nat \union {Unseen}] /\ Len(lastHyp'.text) <= MaxText
      /\ heard' \in Nat /\ lastHyp'.wall <= now /\ locked' \in 0..Len(lastHyp'.text)
  BY <1>1 DEF IInv, Inv, TypeOK
<1>4. TypeOK'
  BY ONLY <1>1, <1>2, <1>3, EmissionKeepsTypes, Emission
<1>5. OnlyAgreedWords'
  BY <1>2, AgreedOnly
<1>6. RevisionsReported'
  BY <1>2, EmissionIs
<1>7. CASE ~timed
  BY <1>1, <1>2, <1>4, <1>5, <1>6, <1>7 DEF IInv, Inv, SpansForward, StampsInOrder
<1>8. CASE timed
  <2>1. InOrder(ends, lastHyp.text, lastHyp.audioEnd) /\ lastHyp.audioEnd <= 12 * now
    BY <1>8 DEF IInv, StampsInOrder
  <2>2. InOrder(ends', lastHyp'.text, lastHyp'.audioEnd)
    BY <1>1, <2>1
  <2>3. /\ SpansForward' /\ cursor' <= lastHyp'.audioEnd
        /\ \A i \in 1..Len(ends') : i > committed' => cursor' <= ends'[i]
    BY <1>1, <1>2, <1>8, <2>2, SpansAre
  <2>4. InOrder(ends, lastHyp.text, lastHyp.audioEnd)'
    BY <2>2, <2>3 DEF InOrder
  <2>5. lastHyp'.audioEnd <= 12 * now'
    BY <1>1, <2>1
  <2> QED BY <1>2, <1>4, <1>5, <1>6, <2>3, <2>4, <2>5 DEF IInv, Inv, StampsInOrder
<1> QED BY <1>7, <1>8

LEMMA DispatchIsSound == ASSUME IInv, Dispatch PROVE IInv'
<1> DEFINE n == Len(batch)
<1>1. batch \in Seq(PhraseChunks) /\ batch # <<>> /\ n \in Nat \ {0}
  BY DEF IInv, Inv, TypeOK, Dispatch
<1>2. /\ batch' = Tail(batch)
      /\ timed' = timed /\ window' = window /\ firstSeen' = firstSeen /\ committed' = committed
      /\ contradicted' = contradicted /\ nextId' = nextId /\ lastHyp' = lastHyp /\ cursor' = cursor /\ ends' = ends
      /\ locked' = locked /\ phase' = phase /\ now' = now /\ heard' = heard /\ spoken' = spoken
  BY DEF Dispatch, tracker
<1>3. batch' \in Seq(PhraseChunks) /\ Len(batch') = n - 1 /\ \A i \in 1..(n - 1) : batch'[i] = batch[i + 1] /\ i + 1 \in 1..n
  BY <1>1, <1>2
<1>4. DOMAIN batch = 1..n /\ DOMAIN batch' = 1..(n - 1)
  BY <1>1, <1>3
<1>5. TypeOK'
  BY <1>2, <1>3 DEF IInv, Inv, TypeOK
<1>6. WindowIsOfLastHyp' /\ RevisionsReported' /\ StampsInOrder'
  BY <1>2 DEF IInv, Inv, WindowIsOfLastHyp, RevisionsReported, StampsInOrder, InOrder
<1>7. ASSUME batch' # <<>> PROVE n > 1 /\ Last(batch') = Last(batch)
  <2>1. n - 1 # 0
    BY <1>3, <1>7, SMTT(30)
  <2>2. n > 1 /\ n - 1 \in 1..(n - 1) /\ (n - 1) + 1 = n
    <3>1. n \in Nat /\ n >= 1
      BY <1>1
    <3> HIDE DEF n
    <3> QED BY ONLY <2>1, <3>1
  <2> QED BY <1>3, <2>2 DEF Last
<1>8. \A i \in 1..(Len(batch') - 1) : i \in 1..(n - 1) /\ i + 1 \in 1..(n - 1)
  BY <1>1, <1>3
<1>9. OnlyAgreedWords'
  BY <1>1, <1>2, <1>3, <1>7, <1>8, SMTT(30) DEF IInv, OnlyAgreedWords
<1>10. PhraseShape'
  BY <1>2, <1>3, <1>4, SMTT(30) DEF IInv, PhraseShape
<1>11. NothingLeftStable'
  BY <1>2, <1>3, <1>4 DEF IInv, NothingLeftStable
<1>12. SpansForward'
  BY <1>1, <1>2, <1>3, <1>4, <1>7, <1>8 DEF IInv, SpansForward
<1> QED BY <1>5, <1>6, <1>9, <1>10, <1>11, <1>12 DEF IInv, Inv

LEMMA StepIsSound == IInv /\ [Next]_vars => IInv'
<1> SUFFICES ASSUME IInv, [Next]_vars PROVE IInv'
  OBVIOUS
<1>1. CASE Hear
  BY <1>1, HearIsSound
<1>2. CASE Dispatch
  BY <1>2, DispatchIsSound
<1>3. CASE Tick
  BY <1>3, TickEmits, RestIsSound DEF IInv
<1>4. CASE Flush
  BY <1>4, FlushEmits, RestIsSound DEF IInv
<1>5. CASE Pass \/ UNCHANGED vars
  <2>1. /\ timed' = timed /\ window' = window /\ firstSeen' = firstSeen /\ committed' = committed
        /\ contradicted' = contradicted /\ nextId' = nextId /\ lastHyp' = lastHyp /\ cursor' = cursor /\ ends' = ends
        /\ locked' = locked /\ phase' = phase /\ batch' = batch /\ heard' = heard /\ spoken' = spoken
        /\ (now' = now \/ now' = now + 1)
    BY <1>5 DEF Pass, vars, tracker
  <2>2. lastHyp.wall \in Nat \union {Unseen} /\ now \in Nat /\ lastHyp.audioEnd \in Nat /\ lastHyp.wall <= now
    BY DEF IInv, Inv, TypeOK, Hypotheses
  <2>3. now' \in Nat /\ lastHyp.wall <= now' /\ (lastHyp.audioEnd <= 12 * now => lastHyp.audioEnd <= 12 * now')
    BY <2>1, <2>2 DEF Unseen
  <2>4. TypeOK'
    BY <2>1, <2>3 DEF IInv, Inv, TypeOK
  <2>5. WindowIsOfLastHyp' /\ RevisionsReported'
    BY <2>1 DEF IInv, Inv, WindowIsOfLastHyp, RevisionsReported
  <2>6. StampsInOrder'
    BY <2>1, <2>3 DEF IInv, StampsInOrder, InOrder
  <2>7. OnlyAgreedWords' /\ PhraseShape'
    BY <2>1 DEF IInv, OnlyAgreedWords, PhraseShape
  <2>8. NothingLeftStable' /\ SpansForward'
    BY <2>1 DEF IInv, NothingLeftStable, SpansForward
  <2> QED BY <2>4, <2>5, <2>6, <2>7, <2>8 DEF IInv, Inv
<1> QED BY <1>1, <1>2, <1>3, <1>4, <1>5 DEF Next

\* The chunker's variables have their types.
THEOREM TypeCorrect == Spec => []TypeOK
<1>1. IInv => TypeOK
  BY DEF IInv, Inv
<1> QED BY <1>1, InitIsSound, StepIsSound, PTL DEF Spec

\* Only words on which the last AgreementN transcripts agree are spoken, each
\* of them once and in order (StabilityTracker.stable_prefix, PhraseChunker._commit).
THEOREM OnlyAgreedIsSpoken == Spec => []OnlyAgreedWords
<1>1. IInv => OnlyAgreedWords
  BY DEF IInv
<1> QED BY <1>1, InitIsSound, StepIsSound, PTL DEF Spec

\* Every phrase has a size and an end that _try_emit and _emit_all allow.
THEOREM PhrasesAreShaped == Spec => []PhraseShape
<1>1. IInv => PhraseShape
  BY DEF IInv
<1> QED BY <1>1, InitIsSound, StepIsSound, PTL DEF Spec

\* No revision of spoken words goes unreported (StabilityTracker.update).
THEOREM RevisionsAreReported == Spec => []RevisionsReported
<1>1. IInv => RevisionsReported
  BY DEF IInv, Inv
<1> QED BY <1>1, InitIsSound, StepIsSound, PTL DEF Spec

\* A final, a silence and the flush leave no agreed word behind (_emit_all).
THEOREM NothingIsLeft == Spec => []NothingLeftStable
<1>1. IInv => NothingLeftStable
  BY DEF IInv
<1> QED BY <1>1, InitIsSound, StepIsSound, PTL DEF Spec

\* The phrases of a backend with word timings cover its audio in order
\* (WordClock.stamp, PhraseChunker._word_end_time).
THEOREM SpansGoForward == Spec => []SpansForward
<1>1. IInv => SpansForward
  BY DEF IInv
<1> QED BY <1>1, InitIsSound, StepIsSound, PTL DEF Spec

-----------------------------------------------------------------------------
(* What becomes of a phrase: Translation.                                  *)

Loaded == service \in {"ready", "closed"}
JobStates == {"none", "queued", "waiting", "decoding", "done", "failed"}
Jobs == [at : JobStates, said : Targets \union {Nllb, None}]
Active(p, u) == job[p][u].at \in {"queued", "waiting", "decoding"}

TTypes ==
  /\ route \in [Targets -> {"opus", "nllb", "other"}]
  /\ service \in {"new", "failed", "ready", "closed"}
  /\ phrase \in 0..MaxPhrases /\ call \in {0, phrase}
  /\ job \in [Phrases -> [Units -> Jobs]]
  /\ submitted \in [Targets -> Seq(Nat \X (Targets \union {None}))]

\* What is loaded can answer for every language.
Routed ==
  /\ Loaded => Loadable /\ pairs = [t \in OpusTargets |-> Resolve(t)]
  /\ ~Loaded => phrase = 0
  /\ call # 0 => service = "ready"

\* Only the last phrase's jobs still run, and those of a session that goes on only
\* while it waits for them; a pair's job speaks its own language.
Asked ==
  \A p \in Phrases, u \in Units :
    /\ job[p][u].at # "none" => p <= phrase /\ \E t \in Targets : u = UnitOf(t)
    /\ Active(p, u) => p = phrase /\ (service = "closed" \/ call = p)
    /\ job[p][u].at = "done" => u = Nllb \/ job[p][u].said = u

Waited == call # 0 => \A t \in Targets : job[call][UnitOf(t)].at # "none"

Answered(s, t) ==
  \A i \in 1..Len(s) : \/ s[i] = <<i, t>>
                       \/ s[i] = <<i, None>> /\ job[i][UnitOf(t)].at = "failed"

Answers ==
  \A t \in Targets :
    /\ Len(submitted[t]) <= phrase
    /\ service = "ready" => Len(submitted[t]) = IF call = 0 THEN phrase ELSE phrase - 1
    /\ Answered(submitted[t], t)

TInv == TTypes /\ Routed /\ Asked /\ Waited /\ Answers

LEMMA Directories ==
  /\ Family \notin Targets /\ Nllb \notin Targets /\ Nllb # Family /\ None \notin Targets
  /\ MaxPhrases \in Nat /\ IsFiniteSet(Targets) /\ Multi \subseteq Targets /\ Targets \subseteq Units /\ Nllb \in Units
BY TranslationAssumption DEF TranslationAssumption, Units

LEMMA UnitsOfTargets ==
  ASSUME NEW t \in Targets
  PROVE  UnitOf(t) \in Units /\ (UnitOf(t) = IF route[t] = "nllb" THEN Nllb ELSE t)
BY Directories DEF UnitOf, NllbTargets

\* Once loaded, the adapters answer for every target between them.
LEMMA AllSupported ==
  ASSUME TTypes, Routed, Loaded, NEW t \in Targets
  PROVE  Supports(t) /\ (t \in OpusTargets \/ t \in NllbTargets)
<1>1. route[t] \in {"opus", "nllb"} /\ DOMAIN pairs = OpusTargets
  BY DEF Routed, Loadable
<1> QED BY <1>1 DEF Supports, OpusTargets, NllbTargets

\* A pair's job runs in a pair's model or in the family's, and is told its language.
LEMMA PairOf ==
  ASSUME TTypes, Routed, Loaded, NEW t \in Targets, UnitOf(t) # Nllb
  PROVE  /\ UnitOf(t) = t /\ t \in OpusTargets /\ Spoken(t) = {t}
         /\ ModelOf(t) = pairs[t].model /\ ModelOf(t) # Nllb
<1>1. UnitOf(t) = t /\ t \in OpusTargets
  BY AllSupported DEF UnitOf
<1>2. pairs[t] = Resolve(t)
  BY <1>1 DEF Routed
<1>3. /\ pairs[t].model \in {Family, t}
      /\ pairs[t].model = Family => pairs[t].token = t
  BY <1>2, Directories DEF Resolve, Selector
<1>4. t # Nllb /\ t # Family /\ t # None /\ Nllb # Family
  BY Directories
<1> QED BY ONLY <1>1, <1>3, <1>4 DEF Spoken, ModelOf

\* A job that runs is a loaded adapter's, for a language of the session.
LEMMA JobIsAsked ==
  ASSUME TTypes, Routed, Asked, NEW p \in Phrases, NEW u \in Units, job[p][u].at # "none"
  PROVE  Loaded /\ \E t \in Targets : u = UnitOf(t)
<1>1. p <= phrase /\ p \in Nat \ {0} /\ phrase \in Nat /\ \E t \in Targets : u = UnitOf(t)
  BY Directories DEF Asked, Phrases, TTypes
<1>2. phrase # 0
  BY ONLY <1>1
<1>3. ~Loaded => phrase = 0
  BY DEF Routed
<1> QED BY ONLY <1>1, <1>2, <1>3

LEMMA JobSet ==
  ASSUME job \in [Phrases -> [Units -> Jobs]], NEW p \in Phrases, NEW u \in Units, NEW r \in Jobs,
         job' = [job EXCEPT ![p][u] = r]
  PROVE  /\ job' \in [Phrases -> [Units -> Jobs]] /\ job'[p][u] = r
         /\ \A q \in Phrases, v \in Units : q # p \/ v # u => job'[q][v] = job[q][v]
OBVIOUS

\* One job goes a step further.
LEMMA JobMoves ==
  ASSUME TInv, NEW p \in Phrases, NEW u \in Units, NEW r \in Jobs, Active(p, u),
         job' = [job EXCEPT ![p][u] = r], r.at \in {"waiting", "decoding", "done", "failed"},
         r.at = "done" => u = Nllb \/ r.said = u,
         UNCHANGED <<route, disk, service, pairs, call, phrase, submitted>>
  PROVE  TInv'
<1>1. /\ job \in [Phrases -> [Units -> Jobs]] /\ phrase \in 0..MaxPhrases /\ MaxPhrases \in Nat
      /\ call \in {0, phrase}
  BY Directories DEF TInv, TTypes
<1>2. /\ job' \in [Phrases -> [Units -> Jobs]] /\ job'[p][u] = r
      /\ \A q \in Phrases, v \in Units : q # p \/ v # u => job'[q][v] = job[q][v]
  BY ONLY <1>1, JobSet, p \in Phrases, u \in Units, r \in Jobs, job' = [job EXCEPT ![p][u] = r]
<1>3. \A t \in Targets : UnitOf(t)' = UnitOf(t) /\ UnitOf(t) \in Units
  BY UnitsOfTargets DEF UnitOf, NllbTargets
<1>4. TTypes'
  BY <1>2 DEF TInv, TTypes
<1>5. Routed'
  BY DEF TInv, Routed, Loaded, Loadable, OpusTargets, NllbTargets, Resolve
<1>6. Asked'
  <2>1. ASSUME NEW q \in Phrases, NEW v \in Units
        PROVE  /\ job'[q][v].at # "none" => job[q][v].at # "none"
               /\ Active(q, v)' => Active(q, v)
               /\ job'[q][v].at = "done" => v = Nllb \/ job'[q][v].said = v
    <3>1. job[q][v].at = "done" => v = Nllb \/ job[q][v].said = v
      BY DEF TInv, Asked
    <3> QED BY ONLY <1>2, <3>1, Active(p, u), r.at = "done" => u = Nllb \/ r.said = u DEF Active
  <2>2. \A q \in Phrases, v \in Units :
          /\ job[q][v].at # "none" => q <= phrase /\ \E t \in Targets : v = UnitOf(t)
          /\ Active(q, v) => q = phrase /\ (service = "closed" \/ call = q)
    BY DEF TInv, Asked
  <2> QED BY ONLY <1>3, <2>1, <2>2, UNCHANGED <<route, disk, service, pairs, call, phrase, submitted>> DEF Asked
<1>7. Waited'
  <2>1. ASSUME call # 0, NEW t \in Targets PROVE job'[call][UnitOf(t)].at # "none"
    <3>1. job[call][UnitOf(t)].at # "none" /\ call \in Phrases
      BY <1>1, <2>1 DEF TInv, Waited, Phrases
    <3> QED BY ONLY <1>2, <1>3, <3>1, r.at \in {"waiting", "decoding", "done", "failed"}, t \in Targets
  <2> QED BY ONLY <1>3, <2>1, call' = call DEF Waited
<1>8. Answers'
  <2>1. ASSUME NEW t \in Targets PROVE Answered(submitted[t], t)'
    <3>1. Answered(submitted[t], t) /\ Len(submitted[t]) <= phrase /\ submitted[t] \in Seq(Nat \X (Targets \union {None}))
      BY DEF TInv, Answers, TTypes
    <3>2. ASSUME NEW i \in 1..Len(submitted[t]), job[i][UnitOf(t)].at = "failed" PROVE job'[i][UnitOf(t)].at = "failed"
      <4>1. i \in Phrases
        BY <1>1, <3>1 DEF Phrases
      <4> QED BY ONLY <1>2, <1>3, <3>2, <4>1, Active(p, u), t \in Targets DEF Active
    <3> QED BY ONLY <1>3, <3>1, <3>2, submitted' = submitted, t \in Targets DEF Answered
  <2> QED BY <2>1 DEF TInv, Answers
<1> QED BY ONLY <1>4, <1>5, <1>6, <1>7, <1>8 DEF TInv

LEMMA WorkKeeps == ASSUME TInv, NEW p \in Phrases, NEW u \in Units, Works(p, u) PROVE TInv'
<1>1. job \in [Phrases -> [Units -> Jobs]] /\ job[p][u] \in Jobs
  BY DEF TInv, TTypes
<1>2. ASSUME NEW stage \in {"waiting", "decoding", "failed"}, Active(p, u), job' = [job EXCEPT ![p][u].at = stage],
             UNCHANGED <<route, disk, service, pairs, call, phrase, submitted>>
      PROVE  TInv'
  <2> DEFINE r == [job[p][u] EXCEPT !.at = stage]
  <2>1. r \in Jobs /\ r.at = stage
    BY ONLY <1>1, stage \in {"waiting", "decoding", "failed"} DEF Jobs, JobStates
  <2>2. job' = [job EXCEPT ![p][u] = r]
    BY ONLY <1>1, <1>2, p \in Phrases, u \in Units
  <2> HIDE DEF r
  <2>3. r.at \in {"waiting", "decoding", "done", "failed"} /\ (r.at = "done" => u = Nllb \/ r.said = u)
    BY ONLY <2>1, stage \in {"waiting", "decoding", "failed"}
  <2> QED BY ONLY <1>2, <2>1, <2>2, <2>3, JobMoves, TInv, p \in Phrases, u \in Units
<1>3. CASE TakeThread(p, u) \/ TakeModel(p, u) \/ DecodingFails(p, u)
  <2>1. /\ Active(p, u) /\ UNCHANGED <<route, disk, service, pairs, call, phrase, submitted>>
        /\ \E stage \in {"waiting", "decoding", "failed"} : job' = [job EXCEPT ![p][u].at = stage]
    BY <1>3 DEF TakeThread, TakeModel, DecodingFails, Active
  <2> QED BY ONLY <1>2, <2>1
<1>4. CASE Decoded(p, u)
  <2>1. /\ job[p][u].at = "decoding" /\ Active(p, u)
        /\ UNCHANGED <<route, disk, service, pairs, call, phrase, submitted>>
    BY <1>4 DEF Decoded, Active
  <2>2. PICK l \in Spoken(u) : job' = [job EXCEPT ![p][u] = [at |-> "done", said |-> l]]
    BY <1>4 DEF Decoded
  <2>3. Loaded /\ \E t \in Targets : u = UnitOf(t)
    BY <2>1, JobIsAsked DEF TInv
  <2>4. (u = Nllb /\ l = Nllb) \/ (u # Nllb /\ l = u)
    <3>1. CASE u = Nllb
      BY <2>2, <3>1 DEF Spoken
    <3>2. CASE u # Nllb
      BY <2>2, <2>3, <3>2, PairOf DEF TInv
    <3> QED BY <3>1, <3>2
  <2> DEFINE r == [at |-> "done", said |-> l]
  <2>5. r \in Jobs /\ r.at = "done" /\ (u = Nllb \/ r.said = u)
    BY ONLY <2>4, u \in Units DEF Jobs, JobStates, Units
  <2> HIDE DEF r
  <2>6. job' = [job EXCEPT ![p][u] = r]
    BY ONLY <2>2 DEF r
  <2> QED BY ONLY <2>1, <2>5, <2>6, JobMoves, TInv, p \in Phrases, u \in Units
<1> QED BY <1>3, <1>4 DEF Works

\* Whatever is asked goes through unless nothing is: the adapters are loaded once.
LEMMA LoadKeeps == ASSUME TInv, Load PROVE TInv'
<1>1. /\ service = "new" /\ phrase = 0 /\ call = 0
      /\ UNCHANGED <<route, disk, call, phrase, job, submitted>>
      /\ \/ Loadable /\ service' = "ready" /\ pairs' = [t \in OpusTargets |-> Resolve(t)]
         \/ service' = "failed"
  BY DEF Load, TInv, TTypes, Routed, Loaded
<1>2. TTypes'
  BY <1>1 DEF TInv, TTypes
<1>3. Routed'
  BY <1>1 DEF Routed, Loaded, Loadable, OpusTargets, NllbTargets, Resolve
<1>4. \A p \in Phrases, u \in Units : job[p][u].at = "none"
  BY <1>1, Directories DEF TInv, Asked, Phrases
<1>5. Asked'
  BY <1>1, <1>4 DEF Asked, Active
<1>6. Waited'
  BY <1>1 DEF Waited
<1>7. Answers'
  <2>1. ASSUME NEW t \in Targets PROVE Len(submitted[t]) = 0 /\ Answered(submitted[t], t)
    <3>1. submitted[t] \in Seq(Nat \X (Targets \union {None})) /\ Len(submitted[t]) <= 0 /\ Answered(submitted[t], t)
      BY <1>1 DEF TInv, TTypes, Answers
    <3> QED BY ONLY <3>1
  <2>2. ASSUME NEW t \in Targets PROVE Answered(submitted[t], t)'
    BY ONLY <1>1, <2>1, t \in Targets DEF Answered
  <2> QED BY ONLY <1>1, <2>1, <2>2 DEF Answers
<1> QED BY ONLY <1>2, <1>3, <1>5, <1>6, <1>7 DEF TInv

\* A new phrase is asked of every adapter, when nothing runs any more.
LEMMA TranslateKeeps == ASSUME TInv, TranslateMany PROVE TInv'
<1>1. /\ service = "ready" /\ call = 0 /\ phrase < MaxPhrases /\ phrase' = phrase + 1 /\ call' = phrase'
      /\ UNCHANGED <<route, disk, service, pairs, submitted>>
      /\ phrase \in 0..MaxPhrases /\ MaxPhrases \in Nat /\ job \in [Phrases -> [Units -> Jobs]]
  BY Directories DEF TranslateMany, TInv, TTypes
<1> DEFINE n == phrase + 1
           asked == [u \in Units |-> IF \E t \in Targets : Supports(t) /\ UnitOf(t) = u
                                       THEN [at |-> "queued", said |-> None] ELSE job[n][u]]
<1>2. n \in Phrases /\ job' = [job EXCEPT ![n] = asked]
  BY <1>1 DEF TranslateMany, Phrases
<1>3. \A p \in Phrases, u \in Units :
        /\ job[p][u].at # "none" => p <= phrase /\ \E t \in Targets : u = UnitOf(t)
        /\ ~Active(p, u)
        /\ job[p][u].at = "done" => u = Nllb \/ job[p][u].said = u
  BY <1>1 DEF TInv, Asked, Phrases
<1>4. asked \in [Units -> Jobs]
  BY <1>1, <1>2 DEF Jobs, JobStates
<1>5. /\ job' \in [Phrases -> [Units -> Jobs]] /\ job'[n] = asked
      /\ \A p \in Phrases : p # n => job'[p] = job[p]
  <2> HIDE DEF asked, n
  <2> QED BY ONLY <1>1, <1>2, <1>4
<1>6. \A u \in Units : /\ asked[u].at \in {"queued", "none"}
                       /\ asked[u].at = "queued" => \E t \in Targets : u = UnitOf(t)
  <2>1. \A u \in Units : job[n][u].at = "none"
    BY ONLY <1>1, <1>2, <1>3
  <2> QED BY ONLY <2>1
<1>7. \A t \in Targets : UnitOf(t) \in Units /\ UnitOf(t)' = UnitOf(t) /\ asked[UnitOf(t)].at = "queued"
  <2>1. ASSUME NEW t \in Targets PROVE Supports(t) /\ UnitOf(t) \in Units /\ UnitOf(t)' = UnitOf(t)
    <3>1. Loaded
      BY <1>1 DEF Loaded
    <3> QED BY <1>1, <3>1, AllSupported, UnitsOfTargets DEF TInv, UnitOf, NllbTargets
  <2> QED BY ONLY <2>1
<1> HIDE DEF asked
<1>8. TTypes'
  BY <1>1, <1>5 DEF TInv, TTypes
<1>9. Routed'
  BY <1>1 DEF TInv, Routed, Loaded, Loadable, OpusTargets, NllbTargets, Resolve
<1>10. Asked'
  <2>1. ASSUME NEW p \in Phrases, NEW u \in Units
        PROVE  /\ job'[p][u].at # "none" => p <= n /\ \E t \in Targets : u = UnitOf(t)
               /\ Active(p, u)' => p = n
               /\ job'[p][u].at = "done" => u = Nllb \/ job'[p][u].said = u
    <3>1. CASE p = n
      BY ONLY <1>1, <1>5, <1>6, <3>1, u \in Units DEF Active
    <3>2. CASE p # n
      BY ONLY <1>1, <1>2, <1>3, <1>5, <3>2, p \in Phrases, u \in Units DEF Active, Phrases
    <3> QED BY ONLY <3>1, <3>2
  <2> QED BY ONLY <1>1, <1>7, <2>1 DEF Asked
<1>11. Waited'
  BY ONLY <1>1, <1>2, <1>5, <1>7 DEF Waited
<1>12. Answers'
  <2>1. ASSUME NEW t \in Targets PROVE Answered(submitted[t], t)' /\ Len(submitted[t]) = phrase
    <3>1. Answered(submitted[t], t) /\ Len(submitted[t]) = phrase
      BY <1>1 DEF TInv, Answers
    <3>2. \A i \in 1..Len(submitted[t]) : job'[i] = job[i]
      BY ONLY <1>1, <1>5, <3>1 DEF Phrases
    <3> QED BY ONLY <1>1, <1>7, <3>1, <3>2, t \in Targets DEF Answered
  <2> QED BY ONLY <1>1, <1>2, <2>1 DEF Answers, Phrases
<1> QED BY ONLY <1>8, <1>9, <1>10, <1>11, <1>12 DEF TInv

\* All jobs are over, well or badly, and each language's worker has its answer.
LEMMA DeliverKeeps == ASSUME TInv, Deliver PROVE TInv'
<1>1. /\ call # 0 /\ Gathered(call) /\ call' = 0 /\ UNCHANGED <<route, disk, service, pairs, phrase, job>>
      /\ phrase \in 0..MaxPhrases /\ MaxPhrases \in Nat /\ call = phrase /\ service = "ready"
      /\ submitted \in [Targets -> Seq(Nat \X (Targets \union {None}))]
      /\ Loaded
  BY Directories DEF Deliver, TInv, TTypes, Routed, Loaded
<1>2. phrase \in Phrases
  BY ONLY <1>1 DEF Phrases
<1>3. \A t \in Targets : UnitOf(t)' = UnitOf(t) /\ UnitOf(t) \in Units
  BY <1>1, UnitsOfTargets DEF UnitOf, NllbTargets
<1>4. \A t \in Targets : submitted'[t] = Append(submitted[t], <<phrase, Answer(phrase, t)>>)
  <2>1. \A t \in Targets : Supports(t)
    BY <1>1, AllSupported DEF TInv
  <2>2. submitted' = [t \in Targets |-> IF Supports(t) THEN Append(submitted[t], <<call, Answer(call, t)>>)
                                                       ELSE submitted[t]]
    BY DEF Deliver
  <2> QED BY ONLY <1>1, <2>1, <2>2
<1>5. submitted' = [t \in Targets |-> submitted'[t]]
  BY DEF Deliver
<1>6. ASSUME NEW t \in Targets
      PROVE  \/ Answer(phrase, t) = t
             \/ Answer(phrase, t) = None /\ job[phrase][UnitOf(t)].at = "failed"
  <2> DEFINE u == UnitOf(t)
  <2>1. /\ u \in Units /\ job[phrase][u].at \in {"done", "failed"}
        /\ job[phrase][u].at = "done" => u = Nllb \/ job[phrase][u].said = u
    BY <1>1, <1>2, <1>3 DEF TInv, Waited, Gathered, Asked
  <2>2. u # Nllb => u = t
    BY UnitsOfTargets
  <2> QED BY <2>1, <2>2 DEF Answer
<1>7. ASSUME NEW t \in Targets
      PROVE  /\ submitted'[t] \in Seq(Nat \X (Targets \union {None})) /\ Len(submitted'[t]) = phrase
             /\ Answered(submitted[t], t)'
  <2> DEFINE a == <<phrase, Answer(phrase, t)>>
             s == submitted[t]
  <2>1. /\ s \in Seq(Nat \X (Targets \union {None})) /\ Len(s) = phrase - 1 /\ Answered(s, t)
        /\ submitted'[t] = Append(s, a)
    BY <1>1, <1>4 DEF TInv, Answers
  <2>2. a \in Nat \X (Targets \union {None})
    BY <1>1, <1>6
  <2>3. a = <<phrase, t>> \/ (a = <<phrase, None>> /\ job[phrase][UnitOf(t)].at = "failed")
    BY <1>6
  <2> HIDE DEF a, s
  <2>4. /\ Append(s, a) \in Seq(Nat \X (Targets \union {None})) /\ Len(Append(s, a)) = phrase
        /\ Append(s, a)[phrase] = a /\ \A i \in 1..(phrase - 1) : Append(s, a)[i] = s[i]
    BY ONLY <1>1, <2>1, <2>2, AppendProperties
  <2>5. ASSUME NEW i \in 1..phrase
        PROVE  \/ Append(s, a)[i] = <<i, t>>
               \/ Append(s, a)[i] = <<i, None>> /\ job[i][UnitOf(t)].at = "failed"
    <3>1. CASE i = phrase
      BY ONLY <2>3, <2>4, <3>1
    <3>2. CASE i # phrase
      <4>1. i \in 1..(phrase - 1)
        BY ONLY <1>1, <3>2, i \in 1..phrase
      <4> QED BY ONLY <2>1, <2>4, <4>1 DEF Answered
    <3> QED BY ONLY <3>1, <3>2
  <2> QED BY ONLY <1>1, <1>3, <2>1, <2>4, <2>5, t \in Targets DEF Answered
<1>8. TTypes'
  <2>1. submitted' \in [Targets -> Seq(Nat \X (Targets \union {None}))]
    BY ONLY <1>5, <1>7
  <2> QED BY <1>1, <2>1 DEF TInv, TTypes
<1>9. Routed'
  BY <1>1 DEF TInv, Routed, Loaded, Loadable, OpusTargets, NllbTargets, Resolve
<1>10. Asked'
  <2>1. \A p \in Phrases, u \in Units : ~Active(p, u)
    BY <1>1 DEF TInv, Asked, Active, Gathered
  <2>2. \A p \in Phrases, u \in Units :
          /\ job[p][u].at # "none" => p <= phrase /\ \E t \in Targets : u = UnitOf(t)
          /\ job[p][u].at = "done" => u = Nllb \/ job[p][u].said = u
    BY DEF TInv, Asked
  <2> QED BY ONLY <1>1, <1>3, <2>1, <2>2 DEF Asked, Active
<1>11. Waited' /\ Answers'
  BY ONLY <1>1, <1>7 DEF Waited, Answers
<1> QED BY ONLY <1>8, <1>9, <1>10, <1>11 DEF TInv

\* A session that stops leaves its jobs to themselves.
LEMMA CloseKeeps == ASSUME TInv, Close PROVE TInv'
<1>1. /\ service' = "closed" /\ call' = 0 /\ UNCHANGED <<route, disk, pairs, phrase, job, submitted>>
      /\ service = "ready"
  BY DEF Close
<1>2. TTypes'
  BY <1>1 DEF TInv, TTypes
<1>3. Routed'
  BY <1>1 DEF TInv, Routed, Loaded, Loadable, OpusTargets, NllbTargets, Resolve
<1>4. \A t \in Targets : UnitOf(t)' = UnitOf(t)
  BY <1>1 DEF UnitOf, NllbTargets
<1>5. Asked'
  <2>1. \A p \in Phrases, u \in Units :
          /\ job[p][u].at # "none" => p <= phrase /\ \E t \in Targets : u = UnitOf(t)
          /\ Active(p, u) => p = phrase
          /\ job[p][u].at = "done" => u = Nllb \/ job[p][u].said = u
    BY DEF TInv, Asked
  <2> QED BY ONLY <1>1, <1>4, <2>1 DEF Asked, Active
<1>6. Waited' /\ Answers'
  <2>1. \A t \in Targets : Len(submitted[t]) <= phrase /\ Answered(submitted[t], t)
    BY DEF TInv, Answers
  <2>2. \A t \in Targets : Answered(submitted[t], t)'
    BY ONLY <1>1, <1>4, <2>1 DEF Answered
  <2> QED BY ONLY <1>1, <2>1, <2>2 DEF Waited, Answers
<1> QED BY ONLY <1>2, <1>3, <1>5, <1>6 DEF TInv

LEMMA TStart == ASSUME TInit PROVE TInv
<1>1. /\ service = "new" /\ call = 0 /\ phrase = 0 /\ route \in [Targets -> {"opus", "nllb", "other"}]
      /\ job = [p \in Phrases |-> [u \in Units |-> [at |-> "none", said |-> None]]]
      /\ submitted = [t \in Targets |-> <<>>]
  BY DEF TInit
<1>2. TTypes
  BY <1>1, Directories DEF TTypes, Jobs, JobStates
<1>3. Routed /\ Asked /\ Waited
  BY ONLY <1>1 DEF Routed, Loaded, Asked, Active, Waited
<1>4. Answers
  <2>1. \A t \in Targets : submitted[t] = <<>> /\ Len(submitted[t]) = 0
    BY ONLY <1>1
  <2> QED BY ONLY <1>1, <2>1 DEF Answers, Answered
<1> QED BY ONLY <1>2, <1>3, <1>4 DEF TInv

LEMMA TKept == TSpec => []TInv
<1>1. ASSUME TInv, [TNext]_tvars PROVE TInv'
  <2>1. CASE UNCHANGED tvars
    <3>1. UNCHANGED <<route, disk, service, pairs, call, phrase, job, submitted>>
      BY <2>1 DEF tvars
    <3> QED BY ONLY <3>1, TInv DEF TInv, TTypes, Routed, Loaded, Loadable, OpusTargets, NllbTargets, Resolve,
                                   Asked, Active, Waited, Answers, Answered, UnitOf
  <2> QED BY <1>1, <2>1, LoadKeeps, TranslateKeeps, DeliverKeeps, CloseKeeps, WorkKeeps DEF TNext
<1> QED BY <1>1, TStart, PTL DEF TSpec

\* Whatever is routed where, fetched, or shared, and whenever the session stops: each
\* language is given every phrase once, in order and in its own language, or empty
\* when the job that answers for it failed (mt_opus.py:254-277, mt_routing.py:150-189).
THEOREM EveryLanguageIsAnswered == TSpec => []EveryLanguageAnswered
<1>1. TInv => EveryLanguageAnswered
  <2> SUFFICES ASSUME TInv, NEW t \in Targets
               PROVE  /\ service = "ready" /\ call = 0 => Len(submitted[t]) = phrase
                      /\ \A i \in DOMAIN submitted[t] :
                           \/ submitted[t][i] = <<i, t>>
                           \/ submitted[t][i] = <<i, None>> /\ job[i][UnitOf(t)].at = "failed"
    BY DEF EveryLanguageAnswered
  <2>1. /\ submitted[t] \in Seq(Nat \X (Targets \union {None})) /\ Answered(submitted[t], t)
        /\ service = "ready" => Len(submitted[t]) = IF call = 0 THEN phrase ELSE phrase - 1
    BY DEF TInv, TTypes, Answers
  <2>2. DOMAIN submitted[t] = 1..Len(submitted[t])
    BY ONLY <2>1
  <2> QED BY ONLY <2>1, <2>2 DEF Answered
<1> QED BY <1>1, TKept, PTL

\* Jobs of one phrase, of which one is not counted, are fewer than the languages.
LEMMA OneIsFree ==
  ASSUME NEW S, IsFiniteSet(S), NEW x \in S, NEW p, NEW B, B \subseteq {p} \X (S \ {x})
  PROVE  Cardinality(B) < Cardinality(S)
<1>1. /\ IsFiniteSet(S \ {x}) /\ Cardinality(S \ {x}) = Cardinality(S) - 1 /\ Cardinality(S) \in Nat
      /\ IsFiniteSet({p}) /\ Cardinality({p}) = 1 /\ Cardinality(S \ {x}) \in Nat
  BY FS_RemoveElement, FS_Singleton, FS_CardinalityType
<1>2. IsFiniteSet({p} \X (S \ {x})) /\ Cardinality({p} \X (S \ {x})) = 1 * Cardinality(S \ {x})
  BY ONLY <1>1, FS_Product
<1>3. Cardinality(B) <= Cardinality({p} \X (S \ {x})) /\ IsFiniteSet(B)
  BY ONLY <1>2, FS_Subset, B \subseteq {p} \X (S \ {x})
<1>4. Cardinality(B) \in Nat
  BY ONLY <1>3, FS_CardinalityType
<1> QED BY ONLY <1>1, <1>2, <1>3, <1>4

\* Whatever languages share a model, no job waits for a thread of its pool or for a
\* worker of its model (mt_opus.py:69-71).
THEOREM NothingEverQueues == TSpec => []NothingQueues
<1>1. TInv => NothingQueues
  <2> SUFFICES ASSUME TInv, NEW p \in Phrases, NEW u \in Units, job[p][u].at \in {"queued", "waiting"}
               PROVE  /\ job[p][u].at = "queued" => Cardinality(SamePool(u)) < Threads(u)
                      /\ job[p][u].at = "waiting" => Cardinality(Decoding(ModelOf(u))) < InterThreads(ModelOf(u))
    BY DEF NothingQueues
  <2>1. TTypes /\ Routed /\ Asked
    BY DEF TInv
  <2>2. ASSUME NEW q \in Phrases, NEW v \in Units, Active(q, v)
        PROVE  q = p /\ Loaded /\ \E t \in Targets : v = UnitOf(t)
    <3>1. q = phrase
      BY ONLY <2>1, <2>2 DEF Asked
    <3>2. p = phrase
      BY ONLY <2>1, job[p][u].at \in {"queued", "waiting"}, p \in Phrases, u \in Units DEF Asked, Active
    <3>3. Loaded /\ \E t \in Targets : v = UnitOf(t)
      BY ONLY <2>1, <2>2, JobIsAsked DEF Active
    <3> QED BY ONLY <3>1, <3>2, <3>3
  <2>3. Active(p, u) /\ Loaded /\ \E t \in Targets : u = UnitOf(t)
    BY ONLY <2>2, job[p][u].at \in {"queued", "waiting"}, p \in Phrases, u \in Units DEF Active
  <2>4. ASSUME NEW v \in Units, v # Nllb, \E t \in Targets : v = UnitOf(t)
        PROVE  v \in OpusTargets /\ ModelOf(v) = pairs[v].model /\ ModelOf(v) # Nllb
    BY ONLY <2>1, <2>3, <2>4, PairOf
  <2>5. IsFiniteSet(OpusTargets) /\ \A m : IsFiniteSet({t \in OpusTargets : pairs[t].model = m})
    <3>1. OpusTargets \subseteq Targets /\ IsFiniteSet(Targets)
      BY Directories DEF OpusTargets
    <3>2. IsFiniteSet(OpusTargets)
      BY ONLY <3>1, FS_Subset
    <3> QED BY ONLY <3>2, FS_Subset
  <2>6. \A pu \in Busy : /\ pu = <<p, pu[2]>> /\ pu[2] \in Units /\ job[p][pu[2]].at \in {"waiting", "decoding"}
                         /\ \E t \in Targets : pu[2] = UnitOf(t)
    <3>1. ASSUME NEW pu \in Busy PROVE pu = <<pu[1], pu[2]>> /\ pu[1] \in Phrases /\ pu[2] \in Units
                                        /\ job[pu[1]][pu[2]].at \in {"waiting", "decoding"}
      BY ONLY <3>1 DEF Busy
    <3>2. ASSUME NEW pu \in Busy PROVE Active(pu[1], pu[2])
      BY ONLY <3>1, <3>2 DEF Active
    <3> QED BY ONLY <2>2, <3>1, <3>2
  <2>7. ASSUME job[p][u].at = "queued" PROVE Cardinality(SamePool(u)) < Threads(u)
    <3>1. \A pu \in SamePool(u) : pu \in Busy /\ pu[2] # u /\ (pu[2] = Nllb <=> u = Nllb)
      BY ONLY <2>6, <2>7 DEF SamePool
    <3>2. CASE u = Nllb
      <4>1. SamePool(u) = {}
        BY ONLY <3>1, <3>2
      <4> QED BY ONLY <3>2, <4>1, FS_EmptySet DEF Threads
    <3>3. CASE u # Nllb
      <4>1. u \in OpusTargets
        BY ONLY <2>3, <2>4, <3>3, u \in Units
      <4>2. SamePool(u) \subseteq {p} \X (OpusTargets \ {u})
        BY ONLY <2>4, <2>6, <3>1, <3>3
      <4> QED BY ONLY <2>5, <3>3, <4>1, <4>2, OneIsFree DEF Threads
    <3> QED BY ONLY <3>2, <3>3
  <2>8. ASSUME job[p][u].at = "waiting" PROVE Cardinality(Decoding(ModelOf(u))) < InterThreads(ModelOf(u))
    <3>1. \A pu \in Decoding(ModelOf(u)) : pu \in Busy /\ pu[2] # u /\ ModelOf(pu[2]) = ModelOf(u)
      <4>1. \A pu \in Decoding(ModelOf(u)) :
              pu \in Busy /\ job[pu[1]][pu[2]].at = "decoding" /\ ModelOf(pu[2]) = ModelOf(u)
        BY DEF Decoding
      <4>2. \A pu \in Busy : pu[1] = p
        BY ONLY <2>6
      <4> QED BY ONLY <2>8, <4>1, <4>2
    <3>2. CASE u = Nllb
      <4>1. ModelOf(u) = Nllb
        BY <3>2 DEF ModelOf
      <4>2. Decoding(ModelOf(u)) = {}
        BY ONLY <2>4, <2>6, <3>1, <3>2, <4>1
      <4> QED BY ONLY <4>1, <4>2, FS_EmptySet DEF InterThreads
    <3>3. CASE u # Nllb
      <4> DEFINE m == ModelOf(u)
                 sharers == {t \in OpusTargets : pairs[t].model = m}
      <4>1. u \in sharers /\ m # Nllb
        BY <2>3, <2>4, <3>3
      <4>2. ModelOf(Nllb) = Nllb
        BY DEF ModelOf
      <4>3. ASSUME NEW pu \in Decoding(m) PROVE pu \in {p} \X (sharers \ {u})
        <5>1. pu[2] # Nllb /\ pu = <<p, pu[2]>> /\ pu[2] \in Units /\ pu[2] # u /\ ModelOf(pu[2]) = m
              /\ \E t \in Targets : pu[2] = UnitOf(t)
          BY <2>6, <3>1, <4>1, <4>2, <4>3
        <5>2. pu[2] \in OpusTargets /\ pairs[pu[2]].model = m
          BY ONLY <2>4, <5>1
        <5> QED BY ONLY <5>1, <5>2
      <4>4. Cardinality(Decoding(m)) < Cardinality(sharers)
        <5>1. IsFiniteSet(sharers)
          BY ONLY <2>5
        <5>2. Decoding(m) \subseteq {p} \X (sharers \ {u})
          BY ONLY <4>3
        <5> HIDE DEF m, sharers
        <5> QED BY ONLY <4>1, <5>1, <5>2, OneIsFree
      <4>5. InterThreads(m) = Cardinality(sharers)
        BY <4>1 DEF InterThreads
      <4> QED BY ONLY <4>4, <4>5
    <3> QED BY ONLY <3>2, <3>3
  <2> QED BY ONLY <2>7, <2>8
<1> QED BY <1>1, TKept, PTL
=============================================================================
