------------------------------- MODULE MCApp -------------------------------
(***************************************************************************)
(* The web application for TLC: the pages of MCPages with what they send,  *)
(* and the requests that keep accounts, votes and sign-ins.  The latter    *)
(* use collections of their own, so each gets a scene in which all else    *)
(* stands still.                                                           *)
(***************************************************************************)
EXTENDS MCPages, Users, Launches, SignIn

appVars == <<scene, vars, usersVars, launchVars, signInVars>>
Requests == {"users", "launches", "sign-in"}

AppInit ==
  /\ \/ SceneInit
     \/ scene \in Requests /\ chain = << >> /\ request = NoRequest
  /\ UsersInit /\ LaunchesInit /\ SignInInit

AppNext ==
  \/ scene \notin Requests /\ SceneNext /\ UNCHANGED <<usersVars, launchVars, signInVars>>
  \/ scene = "users" /\ UsersNext /\ UNCHANGED <<scene, vars, launchVars, signInVars>>
  \/ scene = "launches" /\ LaunchesNext /\ UNCHANGED <<scene, vars, usersVars, signInVars>>
  \/ scene = "sign-in" /\ SignInNext /\ UNCHANGED <<scene, vars, usersVars, launchVars>>

AppSpec == AppInit /\ [][AppNext]_appVars

=============================================================================
