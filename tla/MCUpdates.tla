------------------------------ MODULE MCUpdates ------------------------------
EXTENDS Updates

V010 == <<0, 1, 0>>
V020 == <<0, 2, 0>>
V0100 == <<0, 10, 0>>
V0101 == <<0, 1, 0, 1>>

const_Versions == {V010, V0101, V020, V0100}
const_Binary == V010
const_Signed == {[version |-> V0100, floor |-> NoVersion],
                 [version |-> V0100, floor |-> V0100],
                 [version |-> V0101, floor |-> V0101]}
const_Forms == {"panel", "strict"}
const_Tags == {V020, V0100}
const_Endpoints == {"broker", "page"}
const_Pollers == {"boot", "auto"}
=============================================================================
