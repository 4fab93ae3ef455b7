------------------------------ MODULE Identity ------------------------------
(* The identity capsule (capsule-identity): who the agent is, in the capsule's
   state and in spark.toml, and what a built prompt says of it.  Calls are
   serialised; a call's change to the state is stored when it returns, and
   whether that also happens when it returns an error is left open.  The store
   may be reset and the file edited from outside; a read of the file may fail,
   and a failing write may leave the file cut short, or empty.

   An identity is a callsign; the rest of its fields follow it around.        *)
CONSTANTS
    Callsigns,  \* names an agent may be given
    None

Default == "AOS"            \* SparkConfig::default()
Stub == "stub"              \* a config whose callsign is empty, or not there
Sparks == Callsigns \cup {Default, Stub}
Missing == "missing"        \* no spark.toml
Broken == "broken"          \* a spark.toml that does not parse

VARIABLES
    spark, onboarded,       \* the state
    file,                   \* spark.toml
    prompt,                 \* the prompt just built: the identity it is for, and
                            \* whether the file could not be read for it
    saved                   \* what save_identity last reported saved, while
                            \* nothing else has set state or file (history)

vars == <<spark, onboarded, file, prompt, saved>>

Init ==
    /\ spark = Default /\ onboarded = FALSE
    /\ file \in Sparks \cup {Missing, Broken}
    /\ prompt = None /\ saved = None

\* build_prompt_text_with_spark_loader: an agent without a name is asked to find
\* one ("onboarding").  The file is read only then, and one that cannot be read
\* counts as none.
BuildSystemPrompt ==
    \E unread \in (IF onboarded THEN {FALSE} ELSE BOOLEAN) :
       LET detected == ~onboarded /\ ~unread /\ file \in Sparks \ {Stub}
       IN  /\ spark' = IF detected THEN file ELSE spark
           /\ onboarded' = (onboarded \/ detected)
           /\ prompt' = [of |-> IF ~onboarded' THEN "onboarding"
                               ELSE IF spark' = Stub THEN Default ELSE spark',
                         unread |-> unread]
           /\ UNCHANGED <<file, saved>>

\* What a failing fs::write of `s` may leave: the file as it was, all of the text,
\* nothing of it, its first lines, or a line that breaks off.
Torn(s) == {file, s, Stub, Broken}

\* identity-export; the write may fail.  Before the agent has an identity, or
\* after a reset, it writes the default one over whatever the file holds.
IdentityExport ==
    /\ file' \in {spark} \cup Torn(spark)
    /\ saved' = IF file' = file THEN saved ELSE None
    /\ prompt' = None
    /\ UNCHANGED <<spark, onboarded>>

\* identity-import; a file that does not parse gives the default identity, and
\* one that cannot be read an error.
IdentityImport ==
    /\ file # Missing
    /\ spark' = IF file = Broken THEN Default ELSE file
    /\ onboarded' = TRUE
    /\ prompt' = None /\ saved' = None
    /\ UNCHANGED file

SaveIdentity ==
    /\ \E s \in Callsigns \cup {Stub} :
          \/ spark' = s /\ onboarded' = TRUE /\ file' = s /\ saved' = s
          \* the write fails: an error, with the state kept or not
          \/ /\ \/ spark' = s /\ onboarded' = TRUE
                \/ UNCHANGED <<spark, onboarded>>
             /\ saved' = None
             /\ file' \in Torn(s)
    /\ prompt' = None

StoreReset ==
    /\ spark' = Default /\ onboarded' = FALSE
    /\ prompt' = None
    /\ UNCHANGED <<file, saved>>

FileEdited ==
    /\ file' \in Sparks \cup {Missing, Broken}
    /\ prompt' = None /\ saved' = None
    /\ UNCHANGED <<spark, onboarded>>

Next ==
    \/ BuildSystemPrompt \/ IdentityExport \/ IdentityImport \/ SaveIdentity
    \/ StoreReset \/ FileEdited

Spec == Init /\ [][Next]_vars

TypeOK ==
    /\ spark \in Sparks /\ onboarded \in BOOLEAN
    /\ file \in Sparks \cup {Missing, Broken}
    /\ prompt \in [of : Sparks \cup {"onboarding"}, unread : BOOLEAN] \cup {None}
    /\ saved \in Sparks \cup {None}

(* "Writes both KV state (for immediate use) and spark.toml (for persistence
   across KV resets)" (lib.rs:257-259): once save_identity has reported a named
   identity saved, every prompt is built for it, through any number of resets,
   until something else sets it, or leaves spark.toml another.  A prompt for
   which the file could not be read after a reset asks for a name once more
   (lib.rs:153-155), and is no other agent's; the next one is right again.    *)
SavedIdentityOutlivesResets ==
    prompt # None /\ saved \notin {None, Stub} =>
       \/ prompt.of = saved
       \/ prompt.unread /\ prompt.of = "onboarding"
=============================================================================
