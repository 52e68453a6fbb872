----------------------------- MODULE MCTaskStore -----------------------------
(* Finite instances of TaskStore for TLC.                                    *)
EXTENDS TaskStore

CONSTANTS t1, t2, t3, t4, acc, x, y

MCIds2 == {t1, t2}
MCIds3 == {t1, t2, t3}
MCIds4 == {t1, t2, t3, t4}
MCSymbols  == {acc, x}
MCSymbols3 == {acc, x, y}

(* Ids are interchangeable; sound because only safety is checked with it.    *)
IdSymmetry == Permutations(Ids)
==============================================================================
