--------------------------- MODULE MCWorldRouter ---------------------------
(* Small instances of WorldRouter. *)
EXTENDS WorldRouter

\* States that differ only in the dispatcher's history are the same: no property
\* checked here looks at it, and no action reads it.
WithoutHistory ==
    <<m_operationQueue, m_sequence, now, loop, entityVars, suspensionVars, failed, up>>

=============================================================================
