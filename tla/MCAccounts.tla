------------------------------ MODULE MCAccounts ------------------------------
(* Instances of Accounts for TLC. *)
EXTENDS AccountsProps, TLC

Fields(name, avatar, click) == [name |-> name, avatar |-> avatar, click |-> click]

\* Registrations with and without a promotion click, with and without a name.
SomeRegistrations == {Fields("ann", "", "ad1"), Fields("", "", "")}
\* The extra_json of a request: empty, or carrying the name and the click id.
SomeExtras == {Blank, Fields("eve", "", "ad2")}
\* An update of the name, of the avatar, and a profile from the platform.
SomeUpdates == {Fields("bob", "", ""), Fields("", "pic", ""), Fields("ann", "pic", "")}
\* One update for each field.
OneEach == {Fields("bob", "", ""), Fields("", "pic", "")}

Interchangeable == Permutations(Clients)
=============================================================================
