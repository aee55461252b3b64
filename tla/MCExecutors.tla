---------------------------- MODULE MCExecutors -----------------------------
(* Two machines, or one with two runs of the daemon; one or two agents at   *)
(* the provider; two machines of a Solo owner.                              *)
EXTENDS Executors

BudgetOf(runs_, moves, changeBound, faultBound, mentionBound, sessionBound) ==
    [procs |-> runs_, moves |-> moves, changes |-> changeBound, faults |-> faultBound,
     mentions |-> mentionBound, sessions |-> sessionBound]

MCBudgets == {
    (* no runner *)
    BudgetOf({}, {}, 0, 0, 0, 0),
    (* a machine takes the agent over from another that is starting a session *)
    BudgetOf({"p1", "q1"}, {}, 0, 0, 1, 3),
    (* a machine alone, whose connection breaks and whose daemon ends *)
    BudgetOf({"p1"}, {}, 0, 2, 2, 2),
    (* two runs of the daemon on one machine *)
    BudgetOf({"p1", "p2"}, {}, 0, 0, 1, 2),
    (* the registration and the authority change under a broken connection *)
    BudgetOf({"p1"}, {"pause", "register"}, 2, 1, 1, 2),
    BudgetOf({"p1"}, {"revoke", "stop", "release"}, 2, 0, 1, 2),
    (* nobody is to start it but by hand *)
    BudgetOf({"p1"}, {"policy"}, 2, 1, 1, 2)}

MCDeviceOf == [p \in {"p1", "p2", "q1"} |-> IF p = "q1" THEN "dq" ELSE "dp"]

SetupOf(ready, anew, with, does, heard, asks, faultBound, refusalBound, reconciled) ==
    [ready |-> ready, agents |-> anew, pairs |-> with, does |-> does, events |-> heard, callers |-> asks,
     faults |-> faultBound, refusals |-> refusalBound, reconciliations |-> reconciled]

Proofs == {"configure", "prove", "hooks"}

MCSetups == {
    (* no runtime *)
    SetupOf({}, {}, {"w1"}, {}, {}, {}, 0, 0, 0),
    (* a mention that is retried, its session and its events *)
    SetupOf({"a1"}, {}, {"w1"}, {"mention", "delete"}, {"e1"}, {}, 1, 1, 1),
    SetupOf({"a1"}, {}, {"w1"}, {"mention"}, {"e1", "e2"}, {}, 1, 0, 0),
    (* a run by hand whose events overtake its answer *)
    SetupOf({"a1"}, {}, {"w1"}, {"manual"}, {"e1", "e2"}, {"c1"}, 0, 0, 1),
    SetupOf({"a1"}, {}, {"w1"}, {"manual"}, {"e1"}, {"c1"}, 1, 0, 1),
    (* two agents of one pair *)
    SetupOf({"a1", "a2"}, {}, {"w1"}, {"mention"}, {"e1"}, {}, 0, 0, 1),
    (* the proofs of a configuration that is replaced, and refusals *)
    SetupOf({}, {"a1"}, {"w1"}, Proofs, {"e1"}, {"c1", "c2"}, 0, 0, 0),
    SetupOf({}, {"a1"}, {"w1"}, Proofs, {"e1"}, {"c1"}, 0, 3, 0),
    SetupOf({"a1"}, {"a1"}, {"w1"}, {"configure", "prove", "schedule"}, {}, {"c1", "c2"}, 1, 1, 0),
    (* routes that are made and forgotten *)
    SetupOf({"a1"}, {"a1", "a2"}, {"w1", "w2"}, {"configure"}, {}, {"c1", "c2"}, 1, 0, 0),
    (* a callback *)
    SetupOf({"a1"}, {"a1"}, {"w1"}, {"custom", "mention", "configure"}, {}, {"c1"}, 1, 2, 0)}

PushSetupOf(moveSet, changeBound, mishapBound, telling) ==
    [first |-> "u", moves |-> moveSet, changes |-> changeBound, faults |-> mishapBound, told |-> telling]

MCPushSetups == {
    (* nobody is told anything *)
    PushSetupOf({}, 0, 0, {}),
    (* browsers that change hands, and what they ask for late *)
    PushSetupOf({"sign", "offboard", "subscribe", "unsubscribe"}, 3, 0, {<<"u", "m">>}),
    (* endpoints that go, with an answer that is lost *)
    PushSetupOf({"sign", "subscribe", "drop", "close"}, 2, 1, {<<"u", "m">>}),
    PushSetupOf({"offboard"}, 1, 2, {<<"u", "m">>}),
    (* a card that two may decide *)
    PushSetupOf({"leave", "close", "run out", "drop"}, 1, 1, {<<"u", "c">>, <<"v", "c">>})}

Request(by, with, key, x, content) == [tool |-> by, cred |-> with, key |-> key, room |-> x, text |-> content]
WriteSetupOf(asksBy, moveSet, changeBound, tickBound, formSet) ==
    [asks |-> asksBy, moves |-> moveSet, changes |-> changeBound, ticks |-> tickBound, forms |-> formSet]

NoneAsks == [c \in Calls |-> {}]
TwoAsk(S) == [c \in Calls |-> IF c \in {"t1", "t2"} THEN S ELSE {}]
Everything == {"revoke", "suspend", "pause", "scope", "archive", "join", "plant", "form"}

MCWriteSetups == {
    (* nobody writes *)
    WriteSetupOf(NoneAsks, {}, 0, 0, {}),
    (* four messages in the windows of one connection *)
    WriteSetupOf([c \in Calls |-> {Request("post_message", "oauth", c, "ra", "plain")}], {}, 0, 3, {}),
    (* an agent's message and its retry, by either credential, and all that may change *)
    WriteSetupOf(TwoAsk({Request("agent_post", x, "k1", "ra", "marked") : x \in {"oauth", "session"}}), Everything, 2, 0, {}),
    (* the same, as far as the receipt's end *)
    WriteSetupOf(TwoAsk({Request("agent_post", x, "k1", "ra", "plain") : x \in {"oauth", "session"}}), {"pause"}, 2, 3, {}),
    (* forms *)
    WriteSetupOf(TwoAsk({Request("submit_form", "session", "k1", x, "marked") : x \in {"ra", "rb"}}),
                 Everything \ {"pause"}, 2, 0, {"ra"})}
=============================================================================
