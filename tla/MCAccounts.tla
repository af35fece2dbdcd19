------------------------------ MODULE MCAccounts ------------------------------
(* Accounts with a few clients, users and changes.                          *)
EXTENDS Accounts, TLC

CONSTANTS root, alice

\* A ban, its lifting, another email, and a blank one.
MCColumns == { [NoColumns EXCEPT !.banned = "t"], [NoColumns EXCEPT !.banned = "f"],
               [NoColumns EXCEPT !.email = alice],
               [NoColumns EXCEPT !.email = Blank] }

\* Clients are interchangeable.
ClientSymmetry == Permutations(Clients)

=============================================================================
