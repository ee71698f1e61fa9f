------------------------ MODULE WildcardMatchProofs ------------------------
(**************************************************************************  *)
(* is_wildcard_match() is right for every pattern and every value: its       *)
(* pointers stay inside the strings, and its answer is the definition's.     *)
(*                                                                           *)
(* The definition asks for a division of the value among the characters of   *)
(* the pattern, the code tries only one.  Two facts make that enough: what   *)
(* the code has walked over is a division of that part, and no division of   *)
(* the whole is behind it (Ahead, ResumeAhead): the code's is the earliest   *)
(* one.                                                                      *)
(**************************************************************************  *)
EXTENDS WildcardMatch, TLAPS

Running == loop \in {"prefix", "body", "tail"}

(* PointersInBounds made inductive.                                          *)
Bounds ==
  /\ pattern \in Seq(Characters)
  /\ value \in Seq(Characters)
  /\ loop \in {"prefix", "body", "tail", "returned"}
  /\ p \in 1..(Len(pattern) + 1)
  /\ v \in 1..(Len(value) + 1)
  /\ mp \in 2..Len(pattern) \cup {Null}
  /\ cp \in 2..(Len(value) + 2) \cup {Null}
  /\ answer \in BOOLEAN
  /\ mp = Null <=> cp = Null
  /\ loop = "prefix" => mp = Null
  /\ mp # Null => cp <= v + 1 /\ pattern[mp - 1] = Star
  /\ loop = "body" /\ mp = Null =>
       At(value, v) = Terminator \/ At(pattern, p) = Star
  /\ loop = "tail" => v = Len(value) + 1

(* What was walked over, and what is before the place to resume, match.      *)
Reached == Running => Divisions(pattern, value, p - 1, v - 1) # {}
ResumeReached == mp # Null => Divisions(pattern, value, mp - 1, cp - 2) # {}

(* No match takes less with the characters walked over; before the first     *)
(* star none takes more.                                                     *)
Ahead ==
  Running => \A f \in Matches : /\ v - 1 <= f[p - 1]
                                /\ loop = "prefix" => f[p - 1] = v - 1

(* One that takes as little before the place to resume is where the code     *)
(* is now.                                                                   *)
ResumeAhead ==
  mp # Null => \A f \in Matches :
    /\ cp - 2 <= f[mp - 1]
    /\ loop = "body" /\ f[mp - 1] = cp - 2 => f[p - 1] = v - 1

IInv ==
  /\ Bounds
  /\ Reached
  /\ ResumeReached
  /\ Ahead
  /\ ResumeAhead
  /\ AnswerIsRight

-----------------------------------------------------------------------------
(* At() reads the terminator exactly behind the last character.              *)
LEMMA Reads ==
  ASSUME NEW s \in Seq(Characters), NEW i \in Nat
  PROVE  /\ At(s, i) # Terminator <=> i \in 1..Len(s)
         /\ i \in 1..Len(s) => At(s, i) = s[i] /\ s[i] \in Characters
  BY CharactersAssumption DEF At

(* One more character takes the letters up to the k-th.                      *)
LEMMA Extend ==
  ASSUME NEW x \in Seq(Characters), NEW y \in Seq(Characters),
         NEW n \in 1..Len(x), NEW m \in 0..Len(y), NEW k \in 0..Len(y),
         Divisions(x, y, n - 1, m) # {},
         \/ x[n] = Star /\ m <= k
         \/ x[n] # Star /\ k = m + 1 /\ x[n] \in {y[k], Question}
  PROVE  Divisions(x, y, n, k) # {}
<1>1. PICK f \in Divisions(x, y, n - 1, m) : TRUE
  OBVIOUS
<1>2. /\ f \in [0..(n - 1) -> 0..Len(y)]
      /\ f[0] = 0
      /\ f[n - 1] = m
      /\ \A i \in 1..(n - 1) : Takes(x, y, f, i)
  BY <1>1 DEF Divisions
<1> DEFINE g == [i \in 0..n |-> IF i = n THEN k ELSE f[i]]
<1>3. g \in [0..n -> 0..Len(y)]
  BY <1>2
<1>4. g[0] = 0 /\ g[n] = k
  BY <1>2
<1>5. ASSUME NEW i \in 1..n
      PROVE  Takes(x, y, g, i)
  <2>1. CASE i = n
    <3>1. g[i] = k /\ g[i - 1] = m
      BY <2>1, <1>2
    <3> QED
      BY <3>1, <2>1 DEF Takes
  <2>2. CASE i # n
    <3>1. i \in 1..(n - 1) /\ g[i] = f[i] /\ g[i - 1] = f[i - 1]
      BY <2>2
    <3> HIDE DEF g
    <3> QED
      BY <3>1, <1>2 DEF Takes
  <2> QED
    BY <2>1, <2>2
<1>6. g \in Divisions(x, y, n, k)
  <2> HIDE DEF g
  <2> QED
    BY <1>3, <1>4, <1>5 DEF Divisions
<1> QED
  BY <1>6

(* A star that ends what was walked over can take one letter more.           *)
LEMMA Stretch ==
  ASSUME NEW x \in Seq(Characters), NEW y \in Seq(Characters),
         NEW n \in 1..Len(x), x[n] = Star,
         NEW m \in Nat, m + 1 \in 0..Len(y),
         Divisions(x, y, n, m) # {}
  PROVE  Divisions(x, y, n, m + 1) # {}
<1>1. PICK f \in Divisions(x, y, n, m) : TRUE
  OBVIOUS
<1>2. /\ f \in [0..n -> 0..Len(y)]
      /\ f[0] = 0
      /\ f[n] = m
      /\ \A i \in 1..n : Takes(x, y, f, i)
  BY <1>1 DEF Divisions
<1> DEFINE g == [i \in 0..n |-> IF i = n THEN m + 1 ELSE f[i]]
<1>3. g \in [0..n -> 0..Len(y)] /\ g[0] = 0 /\ g[n] = m + 1
  BY <1>2
<1>4. ASSUME NEW i \in 1..n
      PROVE  Takes(x, y, g, i)
  <2>1. Takes(x, y, f, i) /\ f[i - 1] \in Nat
    BY <1>2
  <2>2. CASE i = n
    <3>1. g[i] = m + 1 /\ g[i - 1] = f[i - 1] /\ f[i] = m
      BY <2>2, <1>2
    <3> HIDE DEF g
    <3> QED
      BY <3>1, <2>1, <2>2 DEF Takes
  <2>3. CASE i # n
    <3>1. g[i] = f[i] /\ g[i - 1] = f[i - 1]
      BY <2>3
    <3> HIDE DEF g
    <3> QED
      BY <3>1, <2>1 DEF Takes
  <2> QED
    BY <2>2, <2>3
<1>5. g \in Divisions(x, y, n, m + 1)
  <2> HIDE DEF g
  <2> QED
    BY <1>3, <1>4 DEF Divisions
<1> QED
  BY <1>5

(* What a whole match says of one character.                                 *)
LEMMA MatchAt ==
  ASSUME Bounds, NEW f \in Matches, NEW n \in 1..Len(pattern)
  PROVE  /\ f[n] \in 0..Len(value) /\ f[n - 1] \in 0..Len(value)
         /\ pattern[n] = Star => f[n - 1] <= f[n]
         /\ pattern[n] # Star => f[n] = f[n - 1] + 1
                                 /\ pattern[n] \in {value[f[n]], Question}
<1>1. Len(pattern) \in Nat /\ Len(value) \in Nat
  BY DEF Bounds
<1>2. /\ f \in [0..Len(pattern) -> 0..Len(value)]
      /\ Takes(pattern, value, f, n)
  BY DEF Matches, Divisions
<1>3. n \in 0..Len(pattern) /\ n - 1 \in 0..Len(pattern)
  BY <1>1
<1> QED
  BY <1>2, <1>3 DEF Takes

LEMMA MatchEnds ==
  ASSUME Bounds, NEW f \in Matches
  PROVE  f[0] = 0 /\ f[Len(pattern)] = Len(value)
  BY DEF Matches, Divisions

-----------------------------------------------------------------------------
LEMMA Initially == MatchInit => IInv
<1> SUFFICES ASSUME MatchInit
             PROVE  IInv
  OBVIOUS
<1>1. Bounds
  <2>1. pattern \in Seq(Characters) /\ value \in Seq(Characters)
    BY InputsAssumption DEF MatchInit
  <2>2. Len(pattern) \in Nat /\ Len(value) \in Nat
    BY <2>1
  <2>3. answer \in BOOLEAN
    BY ZenonT(10) DEF MatchInit
  <2>4. /\ loop = "prefix" /\ mp = Null /\ cp = Null
        /\ p \in 1..(Len(pattern) + 1)
        /\ v \in 1..(Len(value) + 1)
    BY <2>2 DEF MatchInit
  <2> QED
    BY <2>1, <2>3, <2>4 DEF Bounds
<1>2. Reached
  <2> DEFINE g == [i \in 0..0 |-> 0]
  <2>1. g \in [0..0 -> 0..Len(value)] /\ g[0] = 0
    BY <1>1 DEF Bounds
  <2>2. g \in Divisions(pattern, value, 0, 0)
    <3> HIDE DEF g
    <3> QED
      BY <2>1 DEF Divisions
  <2> QED
    BY <2>2 DEF Reached, MatchInit
<1>3. ResumeReached /\ ResumeAhead /\ AnswerIsRight
  BY DEF MatchInit, ResumeReached, ResumeAhead, AnswerIsRight
<1>4. Ahead
  BY <1>1, MatchEnds DEF MatchInit, Ahead
<1> QED
  BY <1>1, <1>2, <1>3, <1>4 DEF IInv

(* No walk leaves the strings.                                               *)
LEMMA BoundsStep == Bounds /\ [MatchNext]_matchVars => Bounds'
<1> SUFFICES ASSUME Bounds, [MatchNext]_matchVars
             PROVE  Bounds'
  OBVIOUS
<1> USE DEF Bounds
<1>0. /\ At(pattern, p) # Terminator <=> p \in 1..Len(pattern)
      /\ At(pattern, p + 1) # Terminator <=> p + 1 \in 1..Len(pattern)
      /\ p \in 1..Len(pattern) => At(pattern, p) = pattern[p]
      /\ At(value, v) # Terminator <=> v \in 1..Len(value)
      /\ Question # Terminator /\ Star # Terminator
      /\ Len(pattern) \in Nat /\ Len(value) \in Nat
  BY Reads, CharactersAssumption DEF Characters
<1>1. CASE StepPrefix
  BY <1>1, <1>0 DEF StepPrefix, InPrefix, Equal, inputs, resume
<1>2. CASE Differ
  BY <1>2 DEF Differ, InPrefix, Give, inputs, resume
<1>3. CASE EndPrefix
  BY <1>3 DEF EndPrefix, inputs, resume, At
<1>4. CASE FinalStar
  BY <1>4, <1>0 DEF FinalStar, InBody, Give, inputs, resume
<1>5. CASE PassStar
  BY <1>5, <1>0, NullAssumption DEF PassStar, InBody, inputs
<1>6. CASE StepBody
  BY <1>6, <1>0 DEF StepBody, InBody, Equal, inputs, resume
<1>7. CASE Resume
  BY <1>7, <1>0, NullAssumption DEF Resume, InBody, inputs
<1>8. CASE EndBody
  BY <1>8, <1>0 DEF EndBody, inputs, resume
<1>9. CASE SkipStar
  BY <1>9, <1>0 DEF SkipStar, inputs, resume
<1>10. CASE GiveAnswer
  BY <1>10, <1>0 DEF GiveAnswer, Give, inputs, resume
<1>11. CASE UNCHANGED matchVars
  BY <1>11 DEF matchVars, inputs, resume, At
<1> QED
  BY <1>1, <1>2, <1>3, <1>4, <1>5, <1>6, <1>7, <1>8, <1>9, <1>10,
     <1>11 DEF MatchNext

(* The rest of the invariant, action by action.                              *)
LEMMA InvStep == IInv /\ [MatchNext]_matchVars => IInv'
<1> SUFFICES ASSUME IInv, [MatchNext]_matchVars
             PROVE  IInv'
  OBVIOUS
<1>a. Bounds /\ Bounds'
  BY BoundsStep DEF IInv
<1>b. /\ pattern \in Seq(Characters) /\ value \in Seq(Characters)
      /\ Len(pattern) \in Nat /\ Len(value) \in Nat
      /\ p \in Nat /\ v \in Nat /\ p >= 1 /\ v >= 1
      /\ p <= Len(pattern) + 1 /\ v <= Len(value) + 1
  <2>1. /\ pattern \in Seq(Characters) /\ value \in Seq(Characters)
        /\ p \in 1..(Len(pattern) + 1) /\ v \in 1..(Len(value) + 1)
    BY <1>a DEF Bounds
  <2>2. Len(pattern) \in Nat /\ Len(value) \in Nat
    BY ONLY <2>1
  <2>3. QED
    BY ONLY <2>1, <2>2
<1>c. /\ At(pattern, p) # Terminator <=> p \in 1..Len(pattern)
      /\ At(pattern, p + 1) # Terminator <=> p + 1 \in 1..Len(pattern)
      /\ p \in 1..Len(pattern) => At(pattern, p) = pattern[p]
      /\ At(value, v) # Terminator <=> v \in 1..Len(value)
      /\ v \in 1..Len(value) => At(value, v) = value[v]
      /\ Question # Terminator /\ Star # Terminator /\ Question # Star
  BY <1>b, Reads, CharactersAssumption DEF Characters
<1>d. pattern' = pattern /\ value' = value
  BY DEF MatchNext, matchVars, inputs, StepPrefix, Differ, EndPrefix,
         FinalStar,
         PassStar, StepBody, Resume, EndBody, SkipStar, GiveAnswer
<1>e. Matches' = Matches
  BY <1>d DEF Matches
<1>f. ASSUME NEW f \in Matches
      PROVE  /\ \A n \in 0..Len(pattern) : f[n] \in 0..Len(value)
             /\ f[0] = 0 /\ f[Len(pattern)] = Len(value)
  BY DEF Matches, Divisions
<1>g. /\ Running => Divisions(pattern, value, p - 1, v - 1) # {}
      /\ mp # Null => Divisions(pattern, value, mp - 1, cp - 2) # {}
  BY DEF IInv, Reached, ResumeReached
<1>h. ASSUME NEW f \in Matches
      PROVE  /\ Running => v - 1 <= f[p - 1]
             /\ loop = "prefix" => f[p - 1] = v - 1
             /\ mp # Null => cp - 2 <= f[mp - 1]
             /\ mp # Null /\ loop = "body" /\ f[mp - 1] = cp - 2 =>
                  f[p - 1] = v - 1
  BY DEF IInv, Ahead, ResumeAhead, Running
<1>1. CASE StepPrefix
  <2>1. /\ loop = "prefix" /\ loop' = loop /\ p' = p + 1 /\ v' = v + 1
        /\ mp = Null /\ mp' = Null
        /\ p \in 1..Len(pattern) /\ v \in 1..Len(value)
        /\ pattern[p] # Star /\ pattern[p] \in {value[v], Question}
    BY <1>1, <1>a, <1>c DEF StepPrefix, InPrefix, Equal, Bounds, resume
  <2>2. Reached'
    <3>1. Divisions(pattern, value, p, v) # {}
      BY <2>1, <1>b, <1>g, Extend DEF Running
    <3> QED
      BY <3>1, <2>1, <1>b, <1>d DEF Reached
  <2>3. Ahead'
    BY <2>1, <1>a, <1>b, <1>e, <1>h, MatchAt DEF Ahead
  <2> QED
    BY <2>1, <2>2, <2>3, <1>a
       DEF IInv, ResumeReached, ResumeAhead, AnswerIsRight
<1>2. CASE Differ
  <2>1. /\ loop = "prefix" /\ loop' = "returned" /\ answer' = FALSE
        /\ mp = Null /\ mp' = Null
        /\ v \in 1..Len(value)
        /\ p \in 1..Len(pattern) =>
             pattern[p] # Star /\ pattern[p] \notin {value[v], Question}
    BY <1>2, <1>a, <1>c DEF Differ, InPrefix, Equal, Give, Bounds, resume
  <2>2. Matches = {}
    <3> SUFFICES ASSUME NEW f \in Matches
                 PROVE  FALSE
      OBVIOUS
    <3>1. f[p - 1] = v - 1
      BY <2>1, <1>h
    <3>2. CASE p \in 1..Len(pattern)
      <4>1. f[p] = f[p - 1] + 1 /\ pattern[p] \in {value[f[p]], Question}
        BY <3>2, <2>1, <1>a, MatchAt
      <4>2. f[p] = v
        BY <4>1, <3>1, <1>b
      <4> QED
        BY <4>1, <4>2, <3>2, <2>1
    <3>3. CASE p \notin 1..Len(pattern)
      <4>1. p - 1 = Len(pattern)
        BY <3>3, <1>b
      <4>2. f[p - 1] = Len(value)
        BY <4>1, <1>f
      <4> QED
        BY <4>2, <3>1, <2>1, <1>b
    <3> QED
      BY <3>2, <3>3
  <2> QED
    BY <2>1, <2>2, <1>a, <1>e
       DEF IInv, Reached, Ahead, Running, ResumeReached, ResumeAhead,
           AnswerIsRight
<1>3. CASE EndPrefix
  <2>1. /\ loop = "prefix" /\ loop' = "body" /\ p' = p /\ v' = v
        /\ mp = Null /\ mp' = Null
    BY <1>3, <1>a DEF EndPrefix, Bounds, resume
  <2> QED
    BY <2>1, <1>a, <1>d, <1>e, <1>g, <1>h
       DEF IInv, Reached, Ahead, Running, ResumeReached, ResumeAhead,
           AnswerIsRight
<1>4. CASE FinalStar
  <2>1. /\ loop = "body" /\ loop' = "returned" /\ answer' = TRUE
        /\ mp' = mp /\ cp' = cp
        /\ p = Len(pattern) /\ p \in 1..Len(pattern) /\ pattern[p] = Star
        /\ v \in 1..Len(value)
    BY <1>4, <1>b, <1>c DEF FinalStar, InBody, Give, resume
  <2>2. Matches # {}
    <3>1. /\ v - 1 \in 0..Len(value) /\ Len(value) \in 0..Len(value)
          /\ v - 1 <= Len(value)
      BY <2>1, <1>b
    <3>2. Divisions(pattern, value, p, Len(value)) # {}
      BY <3>1, <2>1, <1>b, <1>g, Extend DEF Running
    <3> QED
      BY <3>2, <2>1 DEF Matches
  <2> QED
    BY <2>1, <2>2, <1>a, <1>d, <1>e, <1>g, <1>h
       DEF IInv, Reached, Ahead, Running, ResumeReached, ResumeAhead,
           AnswerIsRight
<1>5. CASE PassStar
  <2>1. /\ loop = "body" /\ loop' = loop /\ p' = p + 1 /\ v' = v
        /\ mp' = p + 1 /\ cp' = v + 1
        /\ p \in 1..Len(pattern) /\ pattern[p] = Star
        /\ v \in 1..Len(value)
    BY <1>5, <1>b, <1>c DEF PassStar, InBody
  <2>2. Divisions(pattern, value, p, v - 1) # {}
    <3>1. v - 1 \in 0..Len(value) /\ v - 1 <= v - 1
      BY <1>b
    <3> QED
      BY <3>1, <2>1, <1>b, <1>g, Extend DEF Running
  <2>3. /\ p' - 1 = p /\ v' - 1 = v - 1
        /\ mp' - 1 = p /\ cp' - 2 = v - 1
    BY <2>1, <1>b
  <2>4. Reached' /\ ResumeReached'
    BY <2>2, <2>3, <1>d DEF Reached, ResumeReached
  <2>5. Ahead' /\ ResumeAhead'
    <3>1. ASSUME NEW f \in Matches
          PROVE  v - 1 <= f[p]
      <4>1. v - 1 <= f[p - 1] /\ f[p - 1] <= f[p]
        BY <2>1, <1>a, <1>h, MatchAt DEF Running
      <4>2. f[p - 1] \in Nat /\ f[p] \in Nat
        BY <2>1, <1>a, MatchAt
      <4> QED
        BY <4>1, <4>2, <1>b
    <3> QED
      BY <3>1, <2>1, <2>3, <1>e DEF Ahead, ResumeAhead
  <2> QED
    BY <2>1, <2>4, <2>5, <1>a DEF IInv, AnswerIsRight
<1>6. CASE StepBody
  <2>1. /\ loop = "body" /\ loop' = loop /\ p' = p + 1 /\ v' = v + 1
        /\ mp' = mp /\ cp' = cp
        /\ p \in 1..Len(pattern) /\ v \in 1..Len(value)
        /\ pattern[p] # Star /\ pattern[p] \in {value[v], Question}
    BY <1>6, <1>b, <1>c DEF StepBody, InBody, Equal, resume
  <2>2. Divisions(pattern, value, p, v) # {}
    <3>1. v - 1 \in 0..Len(value) /\ v \in 0..Len(value) /\ v = (v - 1) + 1
      BY <2>1, <1>b
    <3> QED
      BY <3>1, <2>1, <1>b, <1>g, Extend DEF Running
  <2>3. p' - 1 = p /\ v' - 1 = v
    BY <2>1, <1>b
  <2>4. Reached' /\ ResumeReached'
    BY <2>1, <2>2, <2>3, <1>d, <1>g DEF Reached, ResumeReached
  <2>5. Ahead' /\ ResumeAhead'
    <3>1. ASSUME NEW f \in Matches
          PROVE  /\ v <= f[p]
                 /\ mp # Null => cp - 2 <= f[mp - 1]
                 /\ mp # Null /\ f[mp - 1] = cp - 2 => f[p] = v
      <4>1. f[p] = f[p - 1] + 1 /\ f[p - 1] \in Nat
        BY <2>1, <1>a, MatchAt
      <4>2. v - 1 <= f[p - 1]
        BY <2>1, <1>h DEF Running
      <4>3. mp # Null /\ f[mp - 1] = cp - 2 => f[p - 1] = v - 1
        BY <2>1, <1>h
      <4> QED
        BY <4>1, <4>2, <4>3, <1>b, <1>h
    <3> QED
      BY <3>1, <2>1, <2>3, <1>e DEF Ahead, ResumeAhead
  <2> QED
    BY <2>1, <2>4, <2>5, <1>a DEF IInv, AnswerIsRight
<1>7. CASE Resume
  <2>1. /\ loop = "body" /\ loop' = loop /\ p' = mp /\ v' = cp
        /\ mp' = mp /\ cp' = cp + 1
        /\ mp \in 2..Len(pattern) /\ cp \in 2..(Len(value) + 1)
        /\ mp # Null /\ pattern[mp - 1] = Star
        /\ v \in 1..Len(value)
        /\ p \in 1..Len(pattern) =>
             pattern[p] # Star /\ pattern[p] \notin {value[v], Question}
    <3>1. /\ loop = "body" /\ loop' = loop /\ p' = mp /\ v' = cp
          /\ mp' = mp /\ cp' = cp + 1
          /\ v \in 1..Len(value) /\ At(pattern, p) # Star
      BY <1>7, <1>c DEF Resume, InBody
    <3>2. /\ mp # Null /\ cp # Null /\ pattern[mp - 1] = Star
          /\ mp \in 2..Len(pattern) /\ cp \in 2..(Len(value) + 2)
          /\ cp <= v + 1
      BY <3>1, <1>a, <1>c DEF Bounds
    <3>3. p \in 1..Len(pattern) =>
            pattern[p] # Star /\ pattern[p] \notin {value[v], Question}
      BY <1>7, <3>1, <1>c DEF Resume, Equal
    <3> QED
      BY <3>1, <3>2, <3>3, <1>b
  <2>2. /\ mp - 1 \in 1..Len(pattern) /\ cp - 2 \in Nat
        /\ (cp - 2) + 1 = cp - 1 /\ cp - 1 \in 0..Len(value)
    BY <2>1, <1>b, SMTT(30)
  <2>3. Divisions(pattern, value, mp - 1, cp - 1) # {}
    <3>1. Divisions(pattern, value, mp - 1, (cp - 2) + 1) # {}
      BY <2>1, <2>2, <1>b, <1>g, Stretch
    <3> QED
      BY <3>1, <2>2
  <2>4. /\ p' - 1 = mp - 1 /\ v' - 1 = cp - 1
        /\ mp' - 1 = mp - 1 /\ cp' - 2 = cp - 1
    BY <2>1, <2>2
  <2>5. Reached' /\ ResumeReached'
    BY <2>3, <2>4, <1>d DEF Reached, ResumeReached
  <2>6. Ahead' /\ ResumeAhead'
    <3>1. ASSUME NEW f \in Matches
          PROVE  cp - 1 <= f[mp - 1]
      <4>1. cp - 2 <= f[mp - 1] /\ f[mp - 1] \in Nat
        BY <2>1, <2>2, <1>a, <1>h, MatchAt
      <4>2. f[mp - 1] # cp - 2
        <5> SUFFICES ASSUME f[mp - 1] = cp - 2
                     PROVE  FALSE
          OBVIOUS
        <5>1. f[p - 1] = v - 1
          BY <2>1, <1>h
        <5>2. CASE p \in 1..Len(pattern)
          <6>1. f[p] = f[p - 1] + 1 /\ pattern[p] \in {value[f[p]], Question}
            BY <5>2, <2>1, <1>a, MatchAt
          <6>2. f[p] = v
            BY <6>1, <5>1, <1>b
          <6> QED
            BY <6>1, <6>2, <5>2, <2>1
        <5>3. CASE p \notin 1..Len(pattern)
          <6>1. p - 1 = Len(pattern)
            BY <5>3, <1>b
          <6>2. f[p - 1] = Len(value)
            BY <6>1, <1>f
          <6> QED
            BY <6>2, <5>1, <2>1, <1>b
        <5> QED
          BY <5>2, <5>3
      <4> QED
        BY <4>1, <4>2, <2>2
    <3> QED
      BY <3>1, <2>1, <2>4, <1>e DEF Ahead, ResumeAhead
  <2> QED
    BY <2>1, <2>5, <2>6, <1>a DEF IInv, AnswerIsRight
<1>8. CASE EndBody
  <2>1. /\ loop = "body" /\ loop' = "tail" /\ p' = p /\ v' = v
        /\ mp' = mp /\ cp' = cp
    BY <1>8 DEF EndBody, resume
  <2> QED
    BY <2>1, <1>a, <1>d, <1>e, <1>g, <1>h
       DEF IInv, Reached, Ahead, Running, ResumeReached, ResumeAhead,
           AnswerIsRight
<1>9. CASE SkipStar
  <2>1. /\ loop = "tail" /\ loop' = loop /\ p' = p + 1 /\ v' = v
        /\ mp' = mp /\ cp' = cp
        /\ p \in 1..Len(pattern) /\ pattern[p] = Star
    BY <1>9, <1>b, <1>c DEF SkipStar, resume
  <2>2. Divisions(pattern, value, p, v - 1) # {}
    <3>1. v - 1 \in 0..Len(value) /\ v - 1 <= v - 1
      BY <1>b
    <3> QED
      BY <3>1, <2>1, <1>b, <1>g, Extend DEF Running
  <2>3. p' - 1 = p /\ v' - 1 = v - 1
    BY <2>1, <1>b
  <2>4. Reached' /\ ResumeReached'
    BY <2>1, <2>2, <2>3, <1>d, <1>g DEF Reached, ResumeReached
  <2>5. Ahead'
    <3>1. ASSUME NEW f \in Matches
          PROVE  v - 1 <= f[p]
      <4>1. v - 1 <= f[p - 1] /\ f[p - 1] <= f[p]
        BY <2>1, <1>a, <1>h, MatchAt DEF Running
      <4>2. f[p - 1] \in Nat /\ f[p] \in Nat
        BY <2>1, <1>a, MatchAt
      <4> QED
        BY <4>1, <4>2, <1>b
    <3> QED
      BY <3>1, <2>1, <2>3, <1>e DEF Ahead
  <2>6. ResumeAhead'
    BY <2>1, <1>e, <1>h DEF ResumeAhead
  <2> QED
    BY <2>1, <2>4, <2>5, <2>6, <1>a DEF IInv, AnswerIsRight
<1>10. CASE GiveAnswer
  <2>1. /\ loop = "tail" /\ loop' = "returned"
        /\ answer' <=> At(pattern, p) = Terminator
        /\ mp' = mp /\ cp' = cp
        /\ v = Len(value) + 1
        /\ p \in 1..Len(pattern) => pattern[p] # Star
    BY <1>10, <1>a, <1>c DEF GiveAnswer, Give, resume, Bounds
  <2>2. CASE p = Len(pattern) + 1
    <3>1. answer'
      <4>1. At(pattern, p) = Terminator
        BY <2>2, <1>b, <1>c
      <4> QED
        BY <4>1, <2>1
    <3>2. Matches # {}
      BY <2>1, <2>2, <1>b, <1>g DEF Running, Matches
    <3> QED
      BY <3>1, <3>2, <2>1, <1>a, <1>d, <1>e, <1>g, <1>h
         DEF IInv, Reached, Ahead, Running, ResumeReached, ResumeAhead,
             AnswerIsRight
  <2>3. CASE p # Len(pattern) + 1
    <3>1. p \in 1..Len(pattern) /\ ~answer'
      <4>1. p \in 1..Len(pattern)
        BY <2>3, <1>b
      <4> QED
        BY <4>1, <2>1, <1>c
    <3>2. Matches = {}
      <4> SUFFICES ASSUME NEW f \in Matches
                   PROVE  FALSE
        OBVIOUS
      <4>1. /\ f[p] = f[p - 1] + 1 /\ f[p] <= Len(value)
            /\ f[p - 1] \in Nat
        BY <3>1, <2>1, <1>a, MatchAt
      <4>2. Len(value) <= f[p - 1]
        BY <2>1, <1>b, <1>h DEF Running
      <4> QED
        BY <4>1, <4>2, <1>b
    <3> QED
      BY <3>1, <3>2, <2>1, <1>a, <1>d, <1>e, <1>g, <1>h
         DEF IInv, Reached, Ahead, Running, ResumeReached, ResumeAhead,
             AnswerIsRight
  <2> QED
    BY <2>2, <2>3
<1>11. CASE UNCHANGED matchVars
  <2>1. /\ loop' = loop /\ p' = p /\ v' = v /\ mp' = mp /\ cp' = cp
        /\ answer' = answer
    BY <1>11 DEF matchVars, resume
  <2>2. Reached' /\ Ahead' /\ ResumeReached' /\ ResumeAhead'
    BY <2>1, <1>d, <1>e, <1>g, <1>h
       DEF Reached, Ahead, Running, ResumeReached, ResumeAhead
  <2>3. AnswerIsRight'
    BY <2>1, <1>e DEF IInv, AnswerIsRight
  <2> QED
    BY <2>2, <2>3, <1>a DEF IInv
<1> QED
  BY <1>1, <1>2, <1>3, <1>4, <1>5, <1>6, <1>7, <1>8, <1>9, <1>10,
     <1>11 DEF MatchNext

-----------------------------------------------------------------------------
(* The pointers stay inside the strings, whatever pattern and value are.     *)
THEOREM PointersAreSafe == MatchSafetySpec => []PointersInBounds
<1>1. MatchInit => Bounds
  BY Initially DEF IInv
<1>2. Bounds => PointersInBounds
  BY DEF Bounds, PointersInBounds, InBody
<1> QED
  BY <1>1, <1>2, BoundsStep, PTL DEF MatchSafetySpec

(* When it returns, is_wildcard_match() has said true exactly when the       *)
(* value matches, for every pattern and every value.                         *)
THEOREM AnswersAreRight == MatchSafetySpec => []AnswerIsRight
<1>1. IInv => AnswerIsRight
  BY DEF IInv
<1> QED
  BY <1>1, Initially, InvStep, PTL DEF MatchSafetySpec
=============================================================================
