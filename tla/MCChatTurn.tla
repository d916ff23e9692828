----------------------------- MODULE MCChatTurn -----------------------------
EXTENDS ChatTurn, TLC

ChatSymmetry == Permutations(Turns) \cup Permutations(Skills)
=============================================================================
