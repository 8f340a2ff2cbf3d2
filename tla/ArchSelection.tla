---------------------------- MODULE ArchSelection ----------------------------
(***************************************************************************)
(* How build.rs of flashmla-sys chooses the one architecture it compiles   *)
(* for (selected_arch, detect_arch_with_nvidia_smi, parse_detected_archs,  *)
(* parse_arch): from FLASHMLA_ARCHS, else from CUDA_COMPUTE_CAP, else from *)
(* the capabilities nvidia-smi reports.  The outcome is an architecture, a *)
(* warning (the build goes on with stubs) or a panic (it fails).           *)
(*                                                                         *)
(* Values are compared after case, dots and underscores are dropped, so a  *)
(* value here stands for all its spellings.                                *)
(***************************************************************************)
EXTENDS Sequences, Functions

CONSTANT Unset      \* a variable that is not set; no answer of nvidia-smi

Archs == {"sm90a", "sm100f"}

Selected(a) == [kind |-> "archive", arch |-> a]
Warning == [kind |-> "stub", arch |-> Unset]
Panic == [kind |-> "panic", arch |-> Unset]

\* parse_arch; "120" and what is no architecture are both warnings; first with
\* Blackwell's other family taken for an architecture.
ParseArchAny(value) ==
    CASE value \in {"90", "90a", "sm90", "sm90a", "compute90a"} ->
             Selected("sm90a")
      [] value \in {"100", "100f", "sm100", "sm100f", "compute100f"} ->
             Selected("sm100f")
      [] value \in {"120", "121", "sm120", "sm121"} -> Selected("sm120")
      [] OTHER -> Warning
ParseArch(value) ==
    CASE value \in {"90", "90a", "sm90", "sm90a", "compute90a"} ->
             Selected("sm90a")
      [] value \in {"100", "100f", "sm100", "sm100f", "compute100f"} ->
             Selected("sm100f")
      [] OTHER -> Warning

\* parse_detected_archs: the capabilities of all GPUs, of which the first
\* decides and the others must agree; first with the others ignored.
ParseFirstDetected(gpus) ==
    IF gpus = <<>> THEN Warning ELSE ParseArch(Head(gpus))
ParseDetectedArchs(gpus) ==
    IF gpus # <<>> /\ \A g \in Range(gpus) : ParseArch(g) = ParseArch(Head(gpus))
    THEN ParseArch(Head(gpus))
    ELSE Warning

\* detect_arch_with_nvidia_smi: not installed, failing and unreadable are all
\* no answer.
DetectArch(gpus) ==
    IF gpus = Unset THEN Warning ELSE ParseDetectedArchs(gpus)

\* selected_arch.  archs: FLASHMLA_ARCHS as the values between its commas;
\* cap: CUDA_COMPUTE_CAP, "" if set but blank.
SelectedArch(env, gpus) ==
    IF env.archs # Unset
    THEN LET parsed == SelectSeq(env.archs, LAMBDA value : value # "")
         IN  IF Len(parsed) # 1 THEN Panic ELSE ParseArch(parsed[1])
    ELSE CASE env.cap = Unset -> DetectArch(gpus)
           [] env.cap = "" -> Panic
           [] OTHER -> ParseArch(env.cap)
=============================================================================
