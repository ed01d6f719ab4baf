---------------------------- MODULE MCChatServer -----------------------------
EXTENDS ChatServer, TLC

ConnSymmetry == Permutations(Conns)
==============================================================================
