----------------------------- MODULE MCMessages -----------------------------
(* Two users, two chats and two shells, which are interchangeable.            *)
EXTENDS Messages, TLC

MCSymmetry == Permutations(Users) \cup Permutations(Chats) \cup Permutations(Execs)
=============================================================================
