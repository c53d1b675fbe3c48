---------------------------- MODULE MCRunLifecycle ----------------------------
(* An instance of RunLifecycle for TLC: worker counts vary only where the
   checker reads them, on a refusal. *)
EXTENDS RunLifecycle

MCBodies ==
    {EventBody, StateBody("queued", 0), StateBody("running", 1), StateBody("cancelling", 1)}
        \cup {TerminalBody("finished", 1, t, r) : t \in BOOLEAN, r \in BOOLEAN}
        \cup {TerminalBody("refused", w, t, r) : w \in {0, 1}, t \in BOOLEAN, r \in BOOLEAN}
==============================================================================
