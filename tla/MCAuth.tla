------------------------------- MODULE MCAuth -------------------------------
(***************************************************************************)
(* AuthSession for TLC: a student signs in from one browser, in two tabs   *)
(* if need be, and a teacher from another.  The teacher is also in the     *)
(* group of a class, which the token names after that of the teachers.  An *)
(* admin may create the account of either, that of the student with        *)
(* capitals in its email or with a role the directory does not give.       *)
(***************************************************************************)
EXTENDS AuthSession, TLC

CONSTANTS b1, b2, alice, bob, i1, i2, h1, h2, gTeachers, gClass, none

TwoBrowsers   == {b1, b2}
TwoPeople     == {alice, bob}
TwoSlots      == {i1, i2}
TwoHandshakes == {h1, h2}
SomeUses      == {<<b1, alice>>, <<b2, bob>>}
BothModes     == {"oidc", "mock"}

TwoGroups     == {gTeachers, gClass}
OneClass      == {"E1"}
Settings      == <<[group |-> gTeachers, role |-> "teacher", class |-> none],
                   [group |-> gClass, role |-> "student", class |-> "E1"]>>
Tokens        == (alice :> <<gClass>>) @@ (bob :> <<gTeachers, gClass>>)
OneDemo       == alice :> [role |-> "student", class |-> "E1"]

Creations ==
    {[who |-> alice, typed |-> TRUE,  role |-> "student", class |-> "E1"],
     [who |-> alice, typed |-> FALSE, role |-> "teacher", class |-> none],
     [who |-> bob,   typed |-> FALSE, role |-> "teacher", class |-> none]}

=============================================================================
