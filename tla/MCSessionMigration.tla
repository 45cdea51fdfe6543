------------------------- MODULE MCSessionMigration -------------------------
(* Two imports of one source session, under one new number or under two.      *)
EXTENDS SessionMigration, TLC
CONSTANTS a, b, x, y
MCDests == [Importers -> Ids]
MCSymmetry == Permutations(Importers) \cup Permutations(Ids)
=============================================================================
