-------------------------- MODULE SetupDeclaration --------------------------
(***************************************************************************)
(* The setup declaration of a repository is judged twice: by the GitHub    *)
(* Integration when a run is prepared (github/setup-declaration.ts) and by *)
(* the Execution Worker when it is run (entrypoints/setup_declaration.py), *)
(* with two YAML libraries.  A step holds, for each of its keys, the kind  *)
(* of value written there; anchors and aliases are left out.  A file may   *)
(* repeat a key of a mapping; the steps are then those of the last one.    *)
(***************************************************************************)
EXTENDS Integers, Sequences

ALLOWED_STEP_KEYS == {"run", "working-directory", "env", "timeout_seconds"}

\* A scalar is marked if its source text has one of the characters . e E.
Timeout(syntax, value) == [syntax |-> syntax, value |-> value, marked |-> syntax = "float"]
HexWithE(value) == [Timeout("int", value) EXCEPT !.marked = TRUE]

-----------------------------------------------------------------------------
(***************************************************************************)
(* The GitHub Integration                                                  *)
(***************************************************************************)

\* Asked of the document, before toJS() turns such a key into a string.
rejectNonStringEnvKeys(steps) ==
    \A i \in DOMAIN steps : steps[i].env # "other-key"

rejectExplicitTags(file) == ~file.tagged

\* Mutant: 1.0 is an integer, as JavaScript says.
rejectNonIntegerTimeoutScalars_Resolved(steps) == TRUE

\* Asked of the source text of a number: JavaScript has one type of number.
rejectNonIntegerTimeoutScalars(steps) ==
    \A i \in DOMAIN steps :
        steps[i].timeout.syntax \in {"int", "float"} => ~steps[i].timeout.marked

parseWorkingDirectory(directory) == directory \in {"absent", "inside"}

\* toJS() made every key a string, and one such as true looks like a name.
parseEnv(env) == env \in {"absent", "strings", "other-key"}

parseTimeout(timeout) ==
    \/ timeout.syntax = "absent"
    \/ timeout.syntax \in {"int", "float"} /\ timeout.value > 0

parseStep(step) ==
    /\ step.mapping
    /\ step.keys \subseteq ALLOWED_STEP_KEYS
    /\ step.run = "text"
    /\ parseWorkingDirectory(step.directory)
    /\ parseEnv(step.env)
    /\ parseTimeout(step.timeout)

\* "none" for a blank file, "invalid" for one that breaks a rule.
parseSetupDeclaration(file) ==
    IF file.blank THEN "none"
    ELSE IF /\ ~file.tooLarge
            /\ file.yaml /\ ~file.duplicate
            /\ rejectNonStringEnvKeys(file.steps)
            /\ rejectExplicitTags(file)
            /\ rejectNonIntegerTimeoutScalars(file.steps)
            /\ file.topLevel = {"setup"}
            /\ \A i \in DOMAIN file.steps : parseStep(file.steps[i])
         THEN "valid" ELSE "invalid"

\* A missing file, a directory or a link is no declaration; a failed read is
\* a failure of the preparation.  The size is asked first, of a blank file too.
readSetupDeclaration(file) ==
    CASE file.status = 404                    -> "none"
      [] file.status = 200 /\ ~file.regular   -> "none"
      [] file.status = 200 /\ file.regular    ->
             IF file.tooLarge THEN "invalid" ELSE parseSetupDeclaration(file)
      [] OTHER                                -> "unreadable"

-----------------------------------------------------------------------------
(***************************************************************************)
(* The Execution Worker                                                    *)
(***************************************************************************)
_parse_working_directory(directory) == directory \in {"absent", "inside"}
_parse_env(env) == env \in {"absent", "strings"}
_parse_timeout(timeout) ==
    timeout.syntax = "absent" \/ (timeout.syntax = "int" /\ timeout.value > 0)

_parse_step(step) ==
    /\ step.mapping /\ step.keys \subseteq ALLOWED_STEP_KEYS /\ step.run = "text"
    /\ _parse_working_directory(step.directory)
    /\ _parse_env(step.env)
    /\ _parse_timeout(step.timeout)

parse_setup_declaration(file) ==
    /\ ~file.blank /\ ~file.tooLarge /\ file.yaml /\ ~file.tagged
    /\ file.topLevel = {"setup"}
    /\ \A i \in DOMAIN file.steps : _parse_step(file.steps[i])

=============================================================================
