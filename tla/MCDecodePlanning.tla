--------------------------- MODULE MCDecodePlanning ---------------------------
(* Devices of both architectures and of neither, with few, one and too many *)
(* multiprocessors; requests that differ in what the checks compare.        *)
EXTENDS DecodePlanning, TLC

MCDevices == {"four", "one", "many", "sm90", "old"}
MCCudaArch == [d \in MCDevices |->
    IF d = "sm90" THEN "sm90" ELSE IF d = "old" THEN "sm80" ELSE "sm100"]
MCNumSms == [d \in MCDevices |->
    CASE d = "one" -> 1 [] d = "many" -> 400 [] OTHER -> 4]

Shape(b, s, h, dqk, k) ==
    [batch |-> b, s_q |-> s, h_q |-> h, d_qk |-> dqk, topk |-> k,
     extra_num_blocks |-> 0, extra_topk |-> 0]

\* A batch of 80 with two queries overflows the workspaces, one of 3000 an
\* int; batch 0, 32 heads and half an extra cache are invalid.
MCDims ==
    {Shape(b, s, h, dqk, 64) : b \in {1, 2}, s \in {1, 2}, h \in {64, 128},
                               dqk \in {512, 576}}
    \cup {Shape(1, 1, 64, 512, 128), Shape(80, 2, 64, 512, 64),
          Shape(0, 1, 64, 512, 64), Shape(1, 1, 32, 512, 64),
          Shape(3000, 1, 64, 512, 64)}
    \cup {[Shape(1, 1, 64, 512, 64) EXCEPT !.extra_num_blocks = n,
                                          !.extra_topk = k] :
             n \in {0, 1}, k \in {0, 64}}

Plain(d, dev) ==
    [dims |-> d, device |-> dev, extra |-> HasExtraCache(d),
     lens |-> FALSE, extra_lens |-> FALSE,
     kv_pitch |-> KvPitchUnit(d), extra_pitch |-> KvPitchUnit(d),
     ints |-> TRUE, bases |-> TRUE]

\* Also caches expanded over their blocks (block stride 0), extra tensors that
\* are given and empty, and layouts that only a launch refuses.
MCRequests ==
    LET small == Shape(1, 1, 64, 512, 64)
        extra == [small EXCEPT !.extra_num_blocks = 1, !.extra_topk = 64]
    IN  {Plain(d, dev) : d \in MCDims, dev \in MCDevices}
        \cup {[Plain(d, dev) EXCEPT !.lens = TRUE, !.extra_lens = x,
                                    !.kv_pitch = p, !.extra_pitch = q] :
                 d \in {small, extra, Shape(1, 1, 64, 576, 64)},
                 dev \in {"four", "one"}, x \in BOOLEAN,
                 p \in {576, 584}, q \in {576, 584}}
        \cup {[Plain(small, "four") EXCEPT !.ints = i, !.bases = ~i] :
                 i \in BOOLEAN}
        \cup {[Plain(extra, "four") EXCEPT !.kv_pitch = p, !.extra_pitch = q] :
                 p \in {0, 576}, q \in {0, 576}}
        \cup {[Plain(d, "four") EXCEPT !.extra = TRUE, !.extra_lens = x,
                                      !.extra_pitch = q] :
                 d \in {small, Shape(1, 1, 64, 576, 64)}, x \in BOOLEAN,
                 q \in {0, 584}}
=============================================================================
