---------------------------- MODULE MCRunIntake -----------------------------
(***************************************************************************)
(* Small instances of RunIntake: one delivery, which may arrive twice, in  *)
(* each kind of event with the senders, configurations, dispatches and     *)
(* setup declarations that decide differently.                             *)
(***************************************************************************)
EXTENDS RunIntake, TLC

User == [login |-> "dev", type |-> "User"]
Self == [login |-> "app[bot]", type |-> "Bot"]
OtherBot == [login |-> "dependabot[bot]", type |-> "Bot"]

Quote(words) == [i \in DOMAIN words |-> [words[i] EXCEPT !.quoted = TRUE]]
Review == <<Mention("app"), Word("review")>>

File(mode) == [status |-> 200, regular |-> TRUE, parses |-> TRUE, section |-> TRUE,
               mode |-> mode, ignore |-> "list"]
NoFile == [File(Null) EXCEPT !.status = 404]

StepOf(run) == [mapping |-> TRUE, keys |-> {"run"}, run |-> run, directory |-> "absent",
                env |-> "absent", timeout |-> Timeout("absent", 0)]
Setup(steps) == [status |-> 200, regular |-> TRUE, blank |-> FALSE, tooLarge |-> FALSE,
                 yaml |-> TRUE, duplicate |-> FALSE, tagged |-> FALSE, topLevel |-> {"setup"},
                 steps |-> steps]
NoSetup == [Setup(<< >>) EXCEPT !.status = 404]

Same == [head_repo |-> "o/r", base_repo |-> "o/r", draft |-> FALSE]
Fork == [Same EXCEPT !.head_repo = "x/r"]
Draft == [Same EXCEPT !.draft = TRUE]

Payload(event_, mode, base, head, schedule) ==
    [repo |-> "o/r", branch |-> "main", correlation |-> 36, event |-> event_, mode |-> mode,
     base |-> base, head |-> head, schedule |-> schedule]
Token == [verified |-> TRUE, repository |-> "o/r", event |-> "schedule", ref |-> "main",
          workflow |-> [repo |-> "o/r", branch |-> "main"]]

AllFields == IssueFields \cup PullFields
\* Of a deleted account, with an empty description.
Anonymous == AllFields \ {"sender_login", "issue_author", "issue_body", "pr_author", "pr_body",
                          "previous_head_sha"}

Plain(kind) ==
    [kind |-> kind, raw |-> AllFields, copies |-> 1, target |-> "issue", sender |-> User, pr |-> Same, body |-> << >>,
     permission |-> "write", config |-> File("automatic"), payload |-> Null,
     token |-> Token, setup |-> NoSetup]

Comment(body) == [Plain("issue_comment.created") EXCEPT !.target = "pull", !.body = body]
Dispatch(p) == [Plain("dispatch") EXCEPT !.payload = p]

Weekly == [hour |-> Every, dom |-> Every, month |-> Every, dow |-> Fixed]
TwoDaily == [hour |-> EveryNth(48), dom |-> Every, month |-> Every, dow |-> Every]

Twice(e) == [e EXCEPT !.copies = 2]

\* Events that end in a run.
Admitted ==
    {Plain("pull_request.synchronize"),
     [Comment(Quote(Review) \o <<Mention("dev")>> \o Review) EXCEPT !.target = "issue"],
     Twice([Plain("issues.opened") EXCEPT !.raw = Anonymous, !.setup = Setup(<<StepOf("text")>>)]),
     [Plain("pull_request.ready_for_review") EXCEPT !.sender = OtherBot, !.raw = Anonymous,
          !.pr = Draft, !.setup = Setup(<<StepOf("blank")>>)],
     [Comment(<<Mention("app[bot]"), Word("review"), Word("--test-changes"),
                Word("deny"), Word("--open-pr")>>) EXCEPT !.pr = Fork],
     Twice(Dispatch(Payload(Null, Null, Null, Null, Null))),
     Dispatch(Payload("scheduled", Null, Null, Null, TwoDaily)),
     Dispatch(Payload("scheduled", Null, Null, Null, Weekly)),
     Dispatch(Payload("manual", "incremental", 1, Null, Null)),
     Dispatch(Payload("manual", "incremental", 3, 2, Null))}

\* Events that end without one.
Refused ==
    {[Plain("pull_request.opened") EXCEPT !.pr = Fork],
     [Plain("pull_request.opened") EXCEPT !.pr = Draft],
     [Plain("pull_request.synchronize") EXCEPT !.pr = Fork],
     [Plain("pull_request.ready_for_review") EXCEPT !.pr = Fork],
     [Plain("pull_request.opened") EXCEPT !.raw = AllFields \ {"head_sha"}],
     [Plain("issues.opened") EXCEPT !.raw = AllFields \ {"issue_number"}],
     [Plain("issues.opened") EXCEPT !.config = NoFile],
     [Plain("issues.opened") EXCEPT !.config = File("sometimes")],
     [Plain("issues.opened") EXCEPT !.config = [NoFile EXCEPT !.status = 503]],
     [Plain("issues.opened") EXCEPT !.target = "pull"],
     [Comment(Review) EXCEPT !.sender = Self],
     [Comment(Review) EXCEPT !.permission = "triage"],
     [Comment(Review) EXCEPT !.permission = "owner"],
     Comment(<<Mention("app-bot"), Word("review")>>),
     Comment(Append(Review, Word("please"))),
     Comment(Append(Review, Word("--test-changes"))),
     Comment(Quote(Review)),
     Dispatch([Payload(Null, Null, Null, Null, Null) EXCEPT !.correlation = 129]),
     Dispatch(Payload("manual", "incremental", Null, Null, Null)),
     [Dispatch(Payload(Null, Null, Null, Null, Null)) EXCEPT !.token = Null],
     [Dispatch(Payload(Null, Null, Null, Null, Null)) EXCEPT !.token.ref = "dev"]}

\* Declarations of a repository whose events are not reviewed by themselves.
Declarations ==
    {Setup(<<[StepOf("text") EXCEPT !.directory = d, !.env = n, !.timeout = t]>>) :
        d \in {"absent", "inside", "outside", "blank"},
        n \in {"absent", "strings", "other-key", "other-value", "bad-name", "list"},
        t \in {Timeout("absent", 0), Timeout("int", 5), Timeout("int", 0), Timeout("float", 1),
               Timeout("bool", 1), HexWithE(30)}}
    \cup {[Setup(<<StepOf("text")>>) EXCEPT !.duplicate = TRUE],
          [Setup(<< >>) EXCEPT !.tooLarge = TRUE, !.blank = TRUE],
          [Setup(<< >>) EXCEPT !.blank = TRUE],
          [Setup(<<StepOf("text"), StepOf("text")>>) EXCEPT !.tagged = TRUE],
          [Setup(<<StepOf("text")>>) EXCEPT !.topLevel = {"setup", "name"}],
          Setup(<<[StepOf("text") EXCEPT !.keys = {"run", "shell"}]>>)}

Judged == {[Plain("issues.opened") EXCEPT !.config = NoFile, !.setup = s] : s \in Declarations}

MCScenarios == {[k \in Keys |-> e] : e \in Admitted \cup Refused \cup Judged}

Event_(name, issue) == [event |-> name, issue |-> issue]
Mention_(number) ==
    Event_("cross-referenced", [repo |-> "o/r", number |-> number, pull |-> number = 4])

\* Two mentions of one issue on two pages, a full last page but one, mentions
\* from elsewhere, and a pull request the timeline does not know as one.
MCTimeline ==
    <<Event_("labeled", Null), Mention_(7), Mention_(4), Event_("cross-referenced", Null),
      Mention_(7), Event_("cross-referenced", [repo |-> "x/r", number |-> 9, pull |-> FALSE]),
      Mention_(5), Mention_(8)>>

MCDays == <<1, 8, 9>>
MCTrunk == <<4, 5, 6>>

\* The pull request's pushes 1 .. 3 and the branch's 4 .. 6; the last push
\* makes a link of a file.
MCChange ==
    <<<<Modify("a", 2, 1)>>,
      <<Moved("R", "a", "b", 3), Binary("logo"), Quoting("h")>>,
      <<Modify("c", 0, 4), Retyped("i")>>,
      <<Modify("d", 1, 1)>>,
      <<Moved("C", "d", "e", 0)>>,
      <<Binary("f"), Modify("g", 5, 0)>>>>

=============================================================================
