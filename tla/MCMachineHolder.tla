--------------------------- MODULE MCMachineHolder ---------------------------
(***************************************************************************)
(* Configurations for TLC: two accounts and two passphrases that meet in   *)
(* one store whose disk may fail, one account with a store of its own, and *)
(* one whose identifiers do not parse.                                     *)
(***************************************************************************)
EXTENDS MachineHolder, TLC

Ask(account, path, passphrase) ==
    [account |-> account, path |-> path, passphrase |-> passphrase]

SharedStore ==
    {Ask("alice", "home", "x"), Ask("alice", "home", "y"), Ask("bob", "home", "x"),
     Ask("alice", "own", "y"), Ask("ill", "home", "x")}

CallersAlike == Permutations(Callers)
=============================================================================
