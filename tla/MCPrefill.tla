------------------------------ MODULE MCPrefill ------------------------------
(* Two devices of the supported architectures and one of neither; tensors   *)
(* around what the checks compare: the top-k alignments and the boundary at *)
(* 1280, heads and dimensions no kernel has, views that are transposed,     *)
(* broadcast, narrowed or too large for an int, vectors of a wrong length.  *)
EXTENDS Prefill, TLC

MCDevices == {"hopper", "blackwell", "ada"}
MCCapability == [d \in MCDevices |->
    CASE d = "hopper" -> <<9, 0>> [] d = "blackwell" -> <<10, 0>>
      [] d = "ada" -> <<8, 9>>]
MCNumSms == [d \in MCDevices |-> 4]

\* A contiguous tensor after offset elements of its storage.
Tensor3(a, b, c, dtype, dev, offset) ==
    [shape |-> <<a, b, c>>, stride |-> <<b * c, c, 1>>, dtype |-> dtype,
     device |-> dev, offset |-> offset, size |-> offset + a * b * c]
Tensor1(n, dtype, dev) ==
    [shape |-> <<n>>, stride |-> <<1>>, dtype |-> dtype, device |-> dev,
     offset |-> 0, size |-> n]

Request(s_q, s_kv, h_q, h_kv, d_qk, topk, dev) ==
    [q |-> Tensor3(s_q, h_q, d_qk, "BF16", dev, 0),
     kv |-> Tensor3(s_kv, h_kv, d_qk, "BF16", dev, 7),
     indices |-> Tensor3(s_q, h_kv, topk, "I32", dev, 0),
     topk_length |-> None, attn_sink |-> None, d_v |-> 512]

Small(dev) == Request(2, 3, 64, 1, 512, 128, dev)

MCRequests ==
    {Request(1, 3, h, 1, d, k, dev) : h \in {64, 128}, d \in {512, 576},
        k \in {64, 96, 128, 1280, 1344, 1408}, dev \in MCDevices}
    \cup {Request(a, b, h, kvh, d, k, dev) : a \in {0, 2}, b \in {0, 3},
        h \in {32, 64}, kvh \in {1, 2}, d \in {500, 512}, k \in {0, 128},
        dev \in {"blackwell"}}
    \cup UNION {
        {[Small(dev) EXCEPT !.topk_length = Tensor1(n, "I32", dev)] :
            n \in {1, 2, 3}}
        \cup {[Small(dev) EXCEPT !.attn_sink = Tensor1(n, t, dev)] :
            n \in {32, 64, 128}, t \in {"F32", "BF16"}}
        \cup {[Small(dev) EXCEPT !.d_v = 256],
              \* heads of a wider tensor, positions reversed with heads,
              [Small(dev) EXCEPT !.q.stride = <<128 * 512, 512, 1>>,
                                 !.q.size = 2 * 128 * 512, !.q.offset = 64 * 512],
              [Small(dev) EXCEPT !.q.stride = <<512, 1024, 1>>],
              \* one row of the cache for all, indices too far apart,
              [Small(dev) EXCEPT !.kv.stride = <<0, 512, 1>>],
              [Small(dev) EXCEPT !.indices.stride = <<200000, 128, 1>>,
                                 !.indices.size = 200128],
              \* the last dimension not contiguous, a tensor elsewhere,
              [Small(dev) EXCEPT !.q.stride = <<1, 2, 128>>],
              [Small(dev) EXCEPT !.kv = Tensor3(3, 1, 576, "BF16", dev, 0)],
              [Small(dev) EXCEPT !.kv.device = "ada"],
              [Small(dev) EXCEPT !.indices = Tensor3(1, 1, 128, "I32", dev, 0)],
              [Small(dev) EXCEPT !.indices = Tensor1(128, "I32", dev)]}
        : dev \in {"hopper", "blackwell"}}

MCRawParams ==
    {ParamsOf(Request(1, 3, h, 1, d, k, "blackwell")) : h \in {64, 128},
        d \in {512, 576}, k \in {64, 128, 1280, 1344}}
    \cup {[ParamsOf(Small("hopper")) EXCEPT !.q = None],
          [ParamsOf(Small("hopper")) EXCEPT !.config_d_v = 256],
          [ParamsOf(Small("hopper")) EXCEPT !.num_sm = 0]}
=============================================================================
