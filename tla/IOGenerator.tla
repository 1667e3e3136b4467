---------------------------- MODULE IOGenerator ----------------------------
(***************************************************************************)
(* What the two I/O generators share (src/igl/io_gen.hh): the delays added *)
(* to a submission, and the engine's entry for their submitEvent.          *)
(***************************************************************************)
EXTENDS Integers

CONSTANTS
    SubmissionLatency,   \* GLOBAL_SUBMISSION_LATENCY
    CompletionLatency    \* GLOBAL_COMPLETION_LATENCY

ASSUME LatencyAssumption ==
    {SubmissionLatency, CompletionLatency} \subseteq Nat

Never == -1              \* an event that is not scheduled

=============================================================================
