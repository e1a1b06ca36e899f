---------------------------- MODULE MCAssurance ----------------------------
(***************************************************************************)
(* TLC instances of Assurance.                                             *)
(***************************************************************************)
EXTENDS Assurance, TLC

Cart  == << <<"services">>, <<"checkout">>, <<"cart", ".go">> >>
Pay   == << <<"services">>, <<"checkout">>, <<"pay", ".go">> >>
Login == << <<"auth">>, <<"login", ".go">> >>
Notes == << <<"notes", ".md">> >>

Gram(S) == {<<n>> : n \in S}
MCGrams == (Cart :> Gram(1..24)) @@ (Pay :> Gram(1..20 \cup 31..33)) @@ (Login :> Gram(51..54))
             @@ (Notes :> Gram(61..66))
MCPathRank == (Login :> 1) @@ (Notes :> 2) @@ (Cart :> 3) @@ (Pay :> 4)

Payments == << <<"acme">>, <<"payments">> >>
PayTools == << <<"acme">>, <<"pay", "-", "pay", "tools">> >>

Pack(id, version, scope) ==
    [CatchAllPolicyPack EXCEPT !.id = id, !.version = version, !.scope = scope]

\* The compiled-in registry and four records a deployment may add: a glob with
\* two stars in one segment, an inner "**", a tie broken by id, a retired one.
MCRegistry ==
    DefaultRegistry \o
    << Pack(6, 2, [AnyScope EXCEPT !.repos = { << <<"acme">>, <<"*", "pay", "tools", "*">> >> }]),
       Pack(4, 2, [AnyScope EXCEPT !.paths = { << DoubleStar, <<"checkout">>, <<"*", ".go">> >> }]),
       Pack(3, 2, [AnyScope EXCEPT !.paths = { << <<"services">>, DoubleStar, <<"cart", "*">> >> }]),
       [Pack(7, 9, AnyScope) EXCEPT !.status = "retired"] >>

\* Containers, and a workspace with the three stacks the tools image knows;
\* no image for go.
Box(lines, exit, log) == [up |-> TRUE, lines |-> lines, exit |-> exit, log |-> log]
Fine == Box(<<"noise", "pass", "skip">>, 0, {})
NeverLate == 9
RealWork ==
    [via |-> "realexec", timer |-> "waits", disk |-> TRUE, panics |-> FALSE, errlog |-> {},
     ref |-> "staged", hashed |-> FALSE, archive |-> "good", goImage |-> FALSE, late |-> NeverLate,
     files |-> {"package.json", "requirements.txt", "*.py", "go.mod"},
     box |-> [node |-> Fine, python |-> Fine, go |-> Fine]]
Python(b) == [RealWork EXCEPT !.box.python = b]
\* A log that matches these rules, the masked ones through a secret alone.
Log(plain, masked) == {<<r, FALSE>> : r \in plain} \cup {<<r, TRUE>> : r \in masked}
Fails(plain) == Python(Box(<<"pass", "fail">>, 0, Log(plain, {})))
Sent(status, census, digestsOK) ==
    [via |-> "worker", sent |-> [status |-> status, census |-> census, digestsOK |-> digestsOK, log |-> {}]]
Dice == [lucky |-> TRUE, total |-> 6, failed |-> 2]

MCWork ==
    [clean    |-> RealWork,
     gopher   |-> [RealWork EXCEPT !.goImage = TRUE, !.ref = "gone", !.hashed = TRUE],
     skipped  |-> [RealWork EXCEPT !.ref = "none"],
     torn     |-> [RealWork EXCEPT !.archive = "too_big"],
     silent   |-> [RealWork EXCEPT !.files = {"go.mod"}],
     partial  |-> Python(Box(<<"fail", "pass">>, 0, {})),
     strange  |-> Python(Box(<<"pass", "passed?">>, 0, {})),
     died     |-> Python(Box(<<"pass">>, 137, {})),
     mute     |-> Python(Box(<<>>, 125, {})),
     down     |-> [Python([Fine EXCEPT !.up = FALSE]) EXCEPT !.errlog = Log({"infra_failure"}, {})],
     full     |-> [RealWork EXCEPT !.disk = FALSE, !.errlog = Log({"infra_failure"}, {})],
     crashed  |-> [RealWork EXCEPT !.panics = TRUE],
     killed   |-> [RealWork EXCEPT !.late = 2],
     late     |-> [RealWork EXCEPT !.timer = "ended"],
     stuck    |-> [RealWork EXCEPT !.timer = "running"],
     lag      |-> [Fails({"infra_failure"}) EXCEPT !.late = 2],
     leak     |-> Fails({"secret_or_policy_hit", "compile_error", "infra_failure"}),
     masked   |-> Python(Box(<<"pass", "fail">>, 0, Log({"compile_error"}, {"secret_or_policy_hit"}))),
     broken   |-> Fails({"compile_error", "assertion_failure"}),
     drift    |-> Fails({"golden_mismatch", "assertion_failure"}),
     network  |-> Fails({"infra_failure", "flaky_signal"}),
     slow     |-> Fails({"budget_deadline"}),
     flaky    |-> Fails({"flaky_signal", "assertion_failure"}),
     sim      |-> [via |-> "sim", timer |-> "waits", bias |-> "pass", dice |-> Dice],
     chance   |-> [via |-> "sim", timer |-> "waits", bias |-> "flaky", dice |-> [Dice EXCEPT !.lucky = FALSE]],
     docker   |-> [via |-> "docker", timer |-> "waits", exit |-> 0, late |-> FALSE, log |-> {}],
     dockerOut |-> [via |-> "docker", timer |-> "waits", exit |-> 1, late |-> TRUE, log |-> {}],
     dockerBad |-> [via |-> "docker", timer |-> "waits", exit |-> 1, late |-> FALSE, log |-> Log({"assertion_failure"}, {})],
     worker   |-> Sent("succeeded", Census(2, 0, 1), TRUE),
     blank    |-> Sent("succeeded", NoCensus, TRUE),
     padded   |-> Sent("succeeded", [Census(1, 0, 0) EXCEPT !.total = 3], TRUE),
     undigested |-> Sent("succeeded", Census(1, 0, 0), FALSE),
     mixed    |-> Sent("succeeded", Census(1, 1, 0), TRUE)]

Submit(repo, risk, paths, reports) ==
    [repo |-> repo, risk |-> risk, paths |-> paths, reports |-> reports,
     surfaces |-> {<< <<"services">>, <<"checkout">>, DoubleStar >>, << <<"auth">>, DoubleStar >>}]

\* The five kinds of a high-risk change, and two submissions near to it: the
\* same fix, and one that touches a protected path besides.
HighRisk ==
    << Submit(Payments, "high", <<Cart, Pay>>,
              [hermetic_build |-> {"clean"}, api_compat |-> {"clean", "died"},
               payment_contract_check |-> {"clean", "leak"}, idempotency_race_probe |-> {"clean"},
               sast_diff_scan |-> {"worker", "mixed"}]),
       Submit(Payments, "low", <<Pay, Cart>>,
              [hermetic_build |-> {"clean"}, full_unit_suite |-> {"clean"}]),
       Submit(Payments, "low", <<Cart, Pay, Login>>, [hermetic_build |-> {"network"}]) >>

\* Every work on a low-risk change beside an unrelated one.
Reports ==
    << Submit(PayTools, "low", <<Notes>>,
              [hermetic_build |-> DOMAIN MCWork,
               full_unit_suite |-> {"sim", "network"},
               secret_scan |-> {"docker", "leak"}]),
       Submit(PayTools, "critical", <<Login>>, [hermetic_build |-> {"clean"}]),
       Submit(PayTools, "low", <<Notes, Login>>, [secret_scan |-> {"broken"}]) >>

\* Three submissions of one fix.
Same ==
    << Submit(Payments, "medium", <<Cart>>,
              [hermetic_build |-> {"clean"}, full_unit_suite |-> {"clean", "leak"},
               api_compat |-> {"clean"}]),
       Submit(Payments, "low", <<Cart>>,
              [hermetic_build |-> {"clean"}, full_unit_suite |-> {"clean", "network", "broken"}]),
       Submit(Payments, "low", <<Cart>>,
              [hermetic_build |-> {"clean", "skipped"}, full_unit_suite |-> {"clean"}]) >>

\* One path listed twice beside a submission of as many paths.
Twice ==
    << Submit(Payments, "low", <<Cart, Pay, Login>>,
              [hermetic_build |-> {"clean"}, full_unit_suite |-> {"clean"}]),
       Submit(Payments, "low", <<Cart, Pay, Pay>>, [hermetic_build |-> {"clean"}]),
       Submit(Payments, "low", <<Notes>>, [hermetic_build |-> {"clean"}]) >>

MCCasts == {HighRisk, Reports, Same, Twice}

\* A representative, its duplicate, and a third that conflicts with both and
\* is done first.
Overtaken ==
    << Submit(Payments, "low", <<Cart, Pay>>, [hermetic_build |-> {"clean"}]),
       Submit(Payments, "low", <<Pay, Cart>>, [hermetic_build |-> {"clean"}]),
       Submit(Payments, "low", <<Cart, Pay, Login>>,
              [hermetic_build |-> {"clean"}, full_unit_suite |-> {"clean"}]) >>
OvertakenCast == {Overtaken}

\* The instance is one the theorems speak of.
ASSUME Deployment == Servable(Registry) /\ PlainNames
=============================================================================
