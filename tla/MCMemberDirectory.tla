-------------------------- MODULE MCMemberDirectory --------------------------
(* MemberDirectory with two editors and f2m.                                *)
EXTENDS MemberDirectory, TLC

CONSTANTS ispf, readwriterec, f2m, a, b

MCPrograms == {ispf, readwriterec, f2m}
MCEditors  == {ispf, readwriterec}
MCMembers  == {a, b}
MCTodo     == (ispf :> {a}) @@ (readwriterec :> {a, b}) @@ (f2m :> {a})
==============================================================================
