----------------------------- MODULE MCForeground -----------------------------
(* Small instances of Foreground: webviews that come and go (a reload is one
   connecting while the other leaves), and a desktop window whose requests
   overlap.                                                                  *)
EXTENDS Foreground, TLC

Symmetric ==
  Permutations(Client) \cup Permutations(Request) \cup Permutations(Timer)

=============================================================================
