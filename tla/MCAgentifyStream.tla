-------------------------- MODULE MCAgentifyStream --------------------------
EXTENDS AgentifyStream, TLC

JobsSymmetry == Permutations(Cancellers)
=============================================================================
