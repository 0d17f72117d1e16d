---------------------------- MODULE MCLaunchLinux ----------------------------
(* Small instances of LaunchLinux for TLC: which descriptors are open when the
   program calls Launch for the first time. *)
EXTENDS LaunchLinux

\* Standard input, output and error, and one file more.
StandardAndOne == {{0, 1, 2, 3}}
\* Any of the first six, open or closed: pipe() can return every order of the
\* numbers that matter.
AnyOfSix == SUBSET (0 .. 5)
=============================================================================
