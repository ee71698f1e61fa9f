--------------------------- MODULE WildcardMatch ---------------------------
(**************************************************************************  *)
(* communication_ethernet::is_wildcard_match(): does a value match a         *)
(* pattern of letters, '?' for any letter and '*' for any sequence?          *)
(*                                                                           *)
(* The code walks two C strings with pointers and keeps one place to         *)
(* resume: behind the last '*', and one letter further in the value each     *)
(* time.  Pointers are indices from 1; Len(s) + 1 is the terminator.         *)
(**************************************************************************  *)
EXTENDS Integers, Sequences

CONSTANTS
  Letters,        \* the characters that stand for themselves
  Star,           \* '*'
  Question,       \* '?'
  Terminator,     \* '\0'
  Null,           \* nullptr
  Patterns,       \* the patterns it may be called with
  Values          \* and the values

Characters == Letters \cup {Star, Question}

ASSUME CharactersAssumption ==
  /\ Star \notin Letters /\ Question \notin Letters /\ Star # Question
  /\ Terminator \notin Characters
ASSUME InputsAssumption == Patterns \subseteq Seq(Characters)
                           /\ Values \subseteq Seq(Characters)
ASSUME NullAssumption == Null \notin Int

VARIABLES
  loop,           \* which of the three loops runs, or that it returned
  pattern,
  value,
  p,              \* pattern_ptr
  v,              \* value_ptr
  mp,             \* the place behind the last star
  cp,             \* the next place of the value to try there
  answer

inputs == <<pattern, value>>
resume == <<mp, cp>>
matchVars == <<loop, inputs, p, v, resume, answer>>

(* Dereferencing a pointer into a C string.                                  *)
At(s, i) == IF i \in 1..Len(s) THEN s[i] ELSE Terminator

Equal == At(pattern, p) \in {At(value, v), Question}

MatchInit ==
  /\ loop = "prefix"
  /\ pattern \in Patterns
  /\ value \in Values
  /\ p = 1
  /\ v = 1
  /\ mp = Null
  /\ cp = Null
  /\ answer = FALSE

Give(result) ==
  /\ loop' = "returned"
  /\ answer' = result

-----------------------------------------------------------------------------
(* The first loop: what comes before the first star has to be equal.         *)

InPrefix ==
  /\ loop = "prefix"
  /\ At(value, v) # Terminator
  /\ At(pattern, p) # Star

StepPrefix ==
  /\ InPrefix
  /\ Equal
  /\ p' = p + 1
  /\ v' = v + 1
  /\ UNCHANGED <<loop, inputs, resume, answer>>

(* Variant: the first loop is left to the second one.                        *)
DifferGoesOn ==
  /\ InPrefix
  /\ ~Equal
  /\ loop' = "body"
  /\ UNCHANGED <<inputs, p, v, resume, answer>>

Differ ==
  /\ InPrefix
  /\ ~Equal
  /\ Give(FALSE)
  /\ UNCHANGED <<inputs, p, v, resume>>

EndPrefix ==
  /\ loop = "prefix"
  /\ At(value, v) = Terminator \/ At(pattern, p) = Star
  /\ loop' = "body"
  /\ UNCHANGED <<inputs, p, v, resume, answer>>

-----------------------------------------------------------------------------
(* The second loop: the rest of the value.                                   *)

InBody == loop = "body" /\ At(value, v) # Terminator

FinalStar ==
  /\ InBody
  /\ At(pattern, p) = Star
  /\ At(pattern, p + 1) = Terminator
  /\ p' = p + 1
  /\ Give(TRUE)
  /\ UNCHANGED <<inputs, v, resume>>

PassStar ==
  /\ InBody
  /\ At(pattern, p) = Star
  /\ At(pattern, p + 1) # Terminator
  /\ p' = p + 1
  /\ mp' = p + 1
  /\ cp' = v + 1
  /\ UNCHANGED <<loop, inputs, v, answer>>

StepBody ==
  /\ InBody
  /\ At(pattern, p) # Star
  /\ Equal
  /\ p' = p + 1
  /\ v' = v + 1
  /\ UNCHANGED <<loop, inputs, resume, answer>>

(* Variant: the place to resume does not move on.                            *)
ResumeInPlace ==
  /\ InBody
  /\ At(pattern, p) # Star
  /\ ~Equal
  /\ p' = mp
  /\ v' = cp
  /\ UNCHANGED <<loop, inputs, resume, answer>>

(* The star takes one letter more.                                           *)
Resume ==
  /\ InBody
  /\ At(pattern, p) # Star
  /\ ~Equal
  /\ p' = mp
  /\ v' = cp
  /\ cp' = cp + 1
  /\ UNCHANGED <<loop, inputs, mp, answer>>

EndBody ==
  /\ loop = "body"
  /\ At(value, v) = Terminator
  /\ loop' = "tail"
  /\ UNCHANGED <<inputs, p, v, resume, answer>>

-----------------------------------------------------------------------------
(* The third loop: stars at the end match nothing.                           *)

(* Variant: one star is skipped and the rest of the pattern ignored.         *)
SkipOneStar ==
  /\ loop = "tail"
  /\ At(pattern, p) = Star
  /\ p' = p + 1
  /\ Give(TRUE)
  /\ UNCHANGED <<inputs, v, resume>>

SkipStar ==
  /\ loop = "tail"
  /\ At(pattern, p) = Star
  /\ p' = p + 1
  /\ UNCHANGED <<loop, inputs, v, resume, answer>>

GiveAnswer ==
  /\ loop = "tail"
  /\ At(pattern, p) # Star
  /\ Give(At(pattern, p) = Terminator)
  /\ UNCHANGED <<inputs, p, v, resume>>

-----------------------------------------------------------------------------
MatchNext ==
  \/ StepPrefix
  \/ Differ
  \/ EndPrefix
  \/ FinalStar
  \/ PassStar
  \/ StepBody
  \/ Resume
  \/ EndBody
  \/ SkipStar
  \/ GiveAnswer

MatchSafetySpec == MatchInit /\ [][MatchNext]_matchVars
MatchSpec == MatchSafetySpec /\ WF_matchVars(MatchNext)

-----------------------------------------------------------------------------
(* The pointers stay inside the two strings, terminators included, and the   *)
(* place to resume is set whenever the second loop may go back to it: the    *)
(* code has no test for its null pointers.  (cp may point behind the         *)
(* terminator; it is then not used again.)                                   *)
PointersInBounds ==
  /\ loop \in {"prefix", "body", "tail", "returned"}
  /\ p \in 1..(Len(pattern) + 1)
  /\ v \in 1..(Len(value) + 1)
  /\ mp \in 2..Len(pattern) \cup {Null}
  /\ cp \in 2..(Len(value) + 2) \cup {Null}
  /\ answer \in BOOLEAN
  /\ InBody /\ At(pattern, p) # Star => mp # Null /\ cp # Null

(* What a match is: f[i] letters of y are taken by the first i characters    *)
(* of the pattern x.                                                         *)
Takes(x, y, f, i) ==
  IF x[i] = Star
  THEN f[i - 1] <= f[i]
  ELSE f[i] = f[i - 1] + 1 /\ x[i] \in {y[f[i]], Question}

(* The ways to divide the first m letters among the first n characters.      *)
Divisions(x, y, n, m) ==
  {f \in [0..n -> 0..Len(y)] :
     f[0] = 0 /\ f[n] = m /\ \A i \in 1..n : Takes(x, y, f, i)}

Matches == Divisions(pattern, value, Len(pattern), Len(value))

(* The answer is true exactly when the value can be divided among the        *)
(* characters of the pattern, although the code tries only the last star.    *)
AnswerIsRight == loop = "returned" => (answer <=> Matches # {})

(* It returns, however often it goes back.                                   *)
Returns == <>(loop = "returned")
=============================================================================
