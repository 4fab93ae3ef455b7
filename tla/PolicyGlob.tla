----------------------------- MODULE PolicyGlob -----------------------------
(* The wildcard matcher of the policy rules (aos-mcp-broker policy.rs
   `glob_match`): two pointers and one place to go back to.  One step is one
   turn of its loop.  Beside it, what a pattern means.                        *)
EXTENDS Naturals, Sequences

CONSTANTS
    Chars,      \* characters of patterns and texts
    Run,        \* '*'
    Any,        \* '?'
    MaxPattern, \* bound on the length of a pattern
    MaxText     \* bound on the length of a text

Strings(n, cs) == UNION {[1..k -> cs] : k \in 0..n}

VARIABLES
    pat,        \* the rule's pattern
    txt,        \* the tool name or argument
    p, t,       \* where the two pointers stand, counted from 0
    star,       \* 0, or one more than the position of the last '*' taken
    resume,     \* where in the text to go back to
    verdict,    \* "none" while the loop runs
    turns       \* turns of the loop (history)

vars == <<pat, txt, p, t, star, resume, verdict, turns>>

Init ==
    /\ pat \in Strings(MaxPattern, Chars \cup {Run, Any})
    /\ txt \in Strings(MaxText, Chars \cup {Run, Any})
    /\ p = 0 /\ t = 0 /\ star = 0 /\ resume = 0
    /\ verdict = "none" /\ turns = 0

Looping == verdict = "none" /\ t < Len(txt)
InPattern == p < Len(pat)
SameOrAny == InPattern /\ (pat[p + 1] = Any \/ pat[p + 1] = txt[t + 1])
AtRun == InPattern /\ pat[p + 1] = Run

Advance ==
    /\ Looping /\ SameOrAny
    /\ p' = p + 1 /\ t' = t + 1
    /\ turns' = turns + 1
    /\ UNCHANGED <<pat, txt, star, resume, verdict>>

TakeRun ==
    /\ Looping /\ ~SameOrAny /\ AtRun
    /\ star' = p + 1 /\ resume' = t /\ p' = p + 1
    /\ turns' = turns + 1
    /\ UNCHANGED <<pat, txt, t, verdict>>

GoBack ==
    /\ Looping /\ ~SameOrAny /\ ~AtRun /\ star # 0
    /\ p' = star /\ resume' = resume + 1 /\ t' = resume + 1
    /\ turns' = turns + 1
    /\ UNCHANGED <<pat, txt, star, verdict>>

Fail ==
    /\ Looping /\ ~SameOrAny /\ ~AtRun /\ star = 0
    /\ verdict' = "no"
    /\ UNCHANGED <<pat, txt, p, t, star, resume, turns>>

\* The text is used up: runs at the end of the pattern match nothing.
Finish ==
    /\ verdict = "none" /\ t = Len(txt)
    /\ verdict' = IF \A i \in (p + 1)..Len(pat) : pat[i] = Run THEN "yes" ELSE "no"
    /\ UNCHANGED <<pat, txt, p, t, star, resume, turns>>

Next == Advance \/ TakeRun \/ GoBack \/ Fail \/ Finish
Spec == Init /\ [][Next]_vars

(* What a pattern means (policy.rs:209-210): '*' stands for any run of
   characters, the empty one included, '?' for exactly one, any other character
   for itself.  The text can be cut so that the pattern's i-th character stands
   for what is between at[i] and at[i + 1].                                   *)
StandsFor(pattern, text, at, i) ==
    IF pattern[i] = Run THEN at[i] <= at[i + 1]
    ELSE at[i + 1] = at[i] + 1 /\ (pattern[i] = Any \/ pattern[i] = text[at[i]])
Means(pattern, text) ==
    \E at \in [1..(Len(pattern) + 1) -> 1..(Len(text) + 1)] :
       /\ at[1] = 1 /\ at[Len(pattern) + 1] = Len(text) + 1
       /\ \A i \in 1..Len(pattern) : StandsFor(pattern, text, at, i)

TypeOK ==
    /\ p \in 0..Len(pat) /\ t \in 0..Len(txt)
    /\ star \in 0..Len(pat) /\ resume \in 0..Len(txt)
    /\ verdict \in {"none", "yes", "no"}

Plain == \A i \in 1..Len(txt) : txt[i] # Run

(* On a text that holds no '*' itself the two pointers find what the pattern
   means: one place to go back to is enough, however many runs there are.  The
   loop takes at most pattern times text turns, and a few (policy.rs:210-212). *)
PlainTextsAreMatched ==
    /\ Plain /\ verdict # "none" => (verdict = "yes") = Means(pat, txt)
    /\ turns <= (Len(pat) + 1) * (Len(txt) + 1)
=============================================================================
