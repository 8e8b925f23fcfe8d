------------------------------ MODULE Sessions ------------------------------
(***************************************************************************)
(* What an administrator is promised about sessions, without requests,     *)
(* statements or failures.                                                 *)
(*                                                                         *)
(* A login begins a session with a token nobody had before.  A token that  *)
(* is held is exchanged for a new one of its session, after which it is    *)
(* usually held no longer: that it may be exchanged once more is what      *)
(* OneTokenPerSession of AuthSession is about.  And tokens may be lost or  *)
(* taken back, any number of them at once.  Once a token is not held it is *)
(* never held again, and a session without a token is over.                *)
(***************************************************************************)
EXTENDS Naturals

VARIABLES
    drawn,  \* how many tokens were handed out
    held    \* those that are good for a new one

Init == drawn = 0 /\ held = {}

Begin ==
    /\ drawn' = drawn + 1
    /\ held' = held \cup {[id |-> drawn', root |-> drawn']}

Exchange(token) ==
    /\ drawn' = drawn + 1
    /\ \E rest \in {held, held \ {token}} :
          held' = rest \cup {[id |-> drawn', root |-> token.root]}

End == held' \in SUBSET held /\ UNCHANGED drawn

Next == Begin \/ (\E token \in held : Exchange(token)) \/ End

Spec == Init /\ [][Next]_<<drawn, held>>
=============================================================================
