--------------------------- MODULE MCRecommender ---------------------------
(* A small catalogue: two seed books and one to create.                    *)
EXTENDS Recommender, TLC

MCCreations == {Row(2, 1, "inactive"), Row(1, 2, ""), Row(0, 1, "active"),
                Row(2, 1, "other")}
MCUpdates == {NoFields, Row(2, Absent, Absent), Row(Absent, 2, Absent),
              Row(Absent, 1, "inactive"), Row(Absent, Absent, "other"),
              Row(0, Absent, Absent)}
MCSymmetry == Permutations(Clients) \cup Permutations(Readers)
=============================================================================
