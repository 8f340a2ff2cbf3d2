------------------------------- MODULE MCBuild -------------------------------
(* Short lists of sources with what makes the real ones hard: two files of  *)
(* the same name in one list, and a list that another version of the        *)
(* package shortens, so that numbers shift.                                 *)
EXTENDS Build, TLC

CONSTANTS t1, t2

Source(src, stem) == [src |-> src, stem |-> stem]
Wrapper == Source("csrc/flashmla_c_api", "flashmla_c_api")
Fwd == Source("sm90/fwd", "fwd")
K512Head64 == Source("head64/phase1_k512", "phase1_k512")
K512Head128 == Source("head128/phase1_k512", "phase1_k512")

MCSourceLists ==
    [a \in Archs |->
        [v \in 0 .. MaxEdits |->
            IF a = "sm90a" THEN <<Wrapper, Fwd>>
            ELSE IF v = 0 THEN <<Wrapper, K512Head64, K512Head128>>
            ELSE <<Wrapper, K512Head128>>]]

Env(archs, cap, root, shared) ==
    [archs |-> archs, cap |-> cap, root |-> root, named |-> TRUE,
     shared |-> shared, sane |-> TRUE]

MCGpus == {Unset, <<>>, <<"90", "90">>, <<"100", "90">>}

\* One target in a build directory of its own or in a shared one, with every
\* outcome of the selection, beside one that builds from another checkout in
\* the shared directory, for the same architecture or the other.
MCEnvs ==
    t1 :> {Env(Unset, Unset, "vendor", FALSE),
           Env(<<"sm100f", "">>, "", "vendor", FALSE),
           Env(<<"sm90", "sm100">>, Unset, "vendor", FALSE),
           Env(Unset, "90", "vendor", TRUE),
           Env(Unset, "120", "checkout", FALSE),
           Env(Unset, "", "vendor", FALSE),
           Env(Unset, "90", "empty", FALSE),
           [Env(Unset, "90", "vendor", FALSE) EXCEPT !.sane = FALSE],
           [Env(Unset, "120", "vendor", FALSE) EXCEPT !.named = FALSE]}
    @@ t2 :> {Env(Unset, "100", "checkout", TRUE),
              Env(Unset, "90", "checkout", TRUE)}

DetectingEnvs == t1 :> {Env(Unset, Unset, "vendor", FALSE)}
=============================================================================
