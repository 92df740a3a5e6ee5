---------------------------- MODULE TriggerRules ----------------------------
(***************************************************************************)
(* What the GitHub Integration decides about an event before any run       *)
(* exists: who sent it, what a comment commands, what the repository's     *)
(* trigger configuration says, and what a repository dispatch asks for     *)
(* (github/*.ts, triggers/repository-review.ts, the OIDC authorizer).      *)
(*                                                                         *)
(* A comment is the sequence of its words, each with whether its line is   *)
(* quoted; a word that starts with "@" is a mention of a login.  Names are *)
(* compared in their normalised form, so letter case and surrounding       *)
(* blanks are left out.                                                    *)
(***************************************************************************)
EXTENDS Integers, Sequences, SequencesExt, FiniteSets, FiniteSetsExt, PreparationInput

CONSTANTS
    AppSlug, AppBotLogin   \* the app's identity, Null until /app was read

-----------------------------------------------------------------------------
(***************************************************************************)
(* Who sent the event                                                      *)
(***************************************************************************)

\* A bot is taken for this app as long as the app does not know its own name.
isSelfOriginatedWebhookEvent(sender) ==
    /\ sender.login # Null
    /\ sender.type = "Bot"
    /\ AppBotLogin \in {Null, sender.login}

\* A pull request whose head repository is unknown counts as a fork.
isForkPullRequest(pr) ==
    pr.head_repo = Null \/ pr.base_repo = Null \/ pr.head_repo # pr.base_repo

PERMISSION_RANK ==
    [unknown |-> 0, none |-> 0, read |-> 1, triage |-> 2, write |-> 3,
     maintain |-> 4, admin |-> 5]

normalizeRepositoryPermission(value) ==
    IF value \in DOMAIN PERMISSION_RANK THEN value ELSE "unknown"

\* A lookup that failed answers "unknown".
authorizeManualCommentCommand(login, answer) ==
    /\ login # Null
    /\ PERMISSION_RANK[normalizeRepositoryPermission(answer)] >= PERMISSION_RANK.write

-----------------------------------------------------------------------------
(***************************************************************************)
(* What a comment commands                                                 *)
(***************************************************************************)
Mention(login) == [mention |-> TRUE, text |-> login, quoted |-> FALSE]
Word(text) == [mention |-> FALSE, text |-> text, quoted |-> FALSE]

buildMentionCandidates ==
    SelectSeq(<<AppSlug, AppBotLogin>>, LAMBDA login : login # Null)

stripMarkdownQuotedLines(body) == SelectSeq(body, LAMBDA w : ~w.quoted)

\* --test-changes takes the next word as its value, and its last value counts;
\* anything unknown spoils the whole command.
parseOptions(words) ==
    LET Value(i) == i > 1 /\ words[i - 1] = Word("--test-changes")
        flags == {i \in DOMAIN words : ~Value(i)}
        values == DOMAIN words \ flags
    IN IF /\ \A i \in flags : words[i] \in {Word("--open-pr"), Word("--test-changes")}
          /\ \A i \in values : words[i] \in {Word("allow"), Word("deny")}
          /\ words # << >> => Last(words) # Word("--test-changes")
       THEN [test_changes |-> IF values = {} THEN "allow" ELSE words[Max(values)].text,
             open_pr |-> \E i \in flags : words[i] = Word("--open-pr")]
       ELSE Null

\* The words after the first mention of the login.
WordsAfter(words, login) ==
    LET at == {i \in DOMAIN words : words[i] = Mention(login)}
    IN IF at = {} THEN << >> ELSE SubSeq(words, Min(at) + 1, Len(words))

\* The first spelling of the app's name that is followed by "review" decides.
extractCommentCommand(body) ==
    LET words == stripMarkdownQuotedLines(body)
        After(c) == WordsAfter(words, buildMentionCandidates[c])
        asked == {c \in DOMAIN buildMentionCandidates :
                      After(c) # << >> /\ Head(After(c)) = Word("review")}
    IN IF asked = {} THEN Null ELSE parseOptions(Tail(After(Min(asked))))

-----------------------------------------------------------------------------
(***************************************************************************)
(* What the repository's configuration says                                *)
(***************************************************************************)

\* What each step of reading .sec-review/config.yml finds wrong with it.
decodeRepositoryFileContent(file) == IF file.regular THEN Null ELSE "invalid-content"

parseRepositoryConfig(file) ==
    CASE ~file.parses                 -> "invalid-yaml"
      [] file.parses /\ ~file.section -> "missing-sec-review-bot"
      [] OTHER                        -> Null

extractTriggerMode(file) ==
    CASE file.mode = Null                        -> "missing-trigger-mode"
      [] file.mode \in {"automatic", "manual_only"} -> Null
      [] OTHER                                   -> "invalid-trigger-mode"

\* A list of patterns that are not blank, or nothing.
extractPathsIgnore(file) == IF file.ignore = "invalid" THEN "invalid-paths-ignore" ELSE Null

readRepositoryTriggerConfig(file) ==
    LET faults == SelectSeq(<<decodeRepositoryFileContent(file), parseRepositoryConfig(file),
                              extractTriggerMode(file), extractPathsIgnore(file)>>,
                            LAMBDA fault : fault # Null)
    IN IF faults = << >> THEN [fault |-> Null, mode |-> file.mode, ignore |-> file.ignore]
       ELSE [fault |-> Head(faults), mode |-> Null, ignore |-> Null]

\* Only a missing file falls back to the defaults; every other failure is one.
fetchRepositoryTriggerConfig(file) ==
    CASE file.status = 404 -> [fault |-> Null, mode |-> "manual_only", ignore |-> Null]
      [] file.status = 200 -> readRepositoryTriggerConfig(file)
      [] OTHER             -> [fault |-> "unreadable", mode |-> Null, ignore |-> Null]

isAutomaticTriggerModeEnabled(config) == config.mode # "manual_only"

-----------------------------------------------------------------------------
(***************************************************************************)
(* What a repository dispatch asks for                                     *)
(***************************************************************************)
normalizeRepositoryEventType(raw) == IF raw = Null THEN "manual" ELSE raw

normalizeScanMode(raw, event) ==
    IF raw # Null THEN raw ELSE IF event = "scheduled" THEN "incremental" ELSE "full"

MaxCorrelation == 128

\* The dispatch as the contract reads it, or Null when it breaks the contract.
validateRepositoryReviewDispatchContract(payload) ==
    LET event == normalizeRepositoryEventType(payload.event)
        mode == normalizeScanMode(payload.mode, event)
    IN IF /\ Null \notin {payload.repo, payload.branch, payload.correlation}
          /\ event \in {"manual", "scheduled"}
          /\ mode \in {"full", "incremental"}
          /\ payload.correlation <= MaxCorrelation
          /\ ~(mode = "incremental" /\ event = "manual" /\ payload.base = Null)
          /\ payload.base = Null \/ payload.base # payload.head
       THEN [repo |-> payload.repo, branch |-> payload.branch, event |-> event,
             mode |-> mode, base |-> payload.base, head |-> payload.head]
       ELSE Null

Every == [step |-> 0, any |-> TRUE]
EveryNth(n) == [step |-> n, any |-> FALSE]
Fixed == [step |-> 0, any |-> FALSE]

CeilDiv(a, b) == (a + b - 1) \div b

\* How far back a scheduled scan looks, from the schedule's hour, day of
\* month, month and day of week; an expression of another length is a week.
inferRollbackDaysFromCron(cron) ==
    CASE cron = Null     -> 7
      [] ~cron.dom.any   -> IF cron.dom.step > 0 THEN cron.dom.step ELSE 31
      [] ~cron.dow.any   -> IF cron.dow.step > 0 THEN 7 * cron.dow.step ELSE 7
      [] ~cron.month.any -> 31
      [] cron.hour.step > 0 -> Max({1, CeilDiv(cron.hour.step, 24)})
      [] OTHER           -> 1

\* Commits of a branch are 1, 2, ... with the day each was made; the newest
\* one that is old enough is the base, unless it is the head itself.
resolveScheduledBaseSha(days, head, today, cron) ==
    LET old == {c \in 1 .. head : days[c] <= today - inferRollbackDaysFromCron(cron)}
    IN IF old = {} \/ Max(old) = head THEN Null ELSE Max(old)

resolveHeadSha(days, head) == IF head = Null THEN Len(days) ELSE head

\* The commits of the scan, Null where they cannot be told.
resolveRepositoryReviewDispatch(d, days, today, cron) ==
    IF d.mode = "full" THEN [d EXCEPT !.base = Null]
    ELSE [d EXCEPT !.head = resolveHeadSha(days, d.head),
                   !.base = IF d.event = "manual" THEN d.base
                            ELSE resolveScheduledBaseSha(days, resolveHeadSha(days, d.head),
                                                         today, cron)]

DispatchIsResolved(d) == d.mode = "full" \/ (d.base # Null /\ d.base # d.head)

\* The token's claims against the request: 401 for a token that is absent or
\* does not verify, 403 for one that speaks of another repository, event,
\* branch or workflow.
authorizeRepositoryReviewDispatchOidc(token, payload) ==
    IF token = Null \/ ~token.verified THEN 401
    ELSE IF /\ token.repository = payload.repo
            /\ token.event \in {"workflow_dispatch", "schedule"}
            /\ token.ref = payload.branch
            /\ token.workflow = [repo |-> payload.repo, branch |-> payload.branch]
         THEN 200 ELSE 403

=============================================================================
