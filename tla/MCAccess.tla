------------------------------ MODULE MCAccess ------------------------------
(***************************************************************************)
(* Who gets in and what they may do: five components that share no state,  *)
(* checked side by side.  The scene says which of them a behaviour is      *)
(* about; the others keep their initial state.                             *)
(***************************************************************************)
EXTENDS RefreshSessions, AccountEmail, Roles, SsoLogin, UserImport, TLC

CONSTANTS r1, r2, p1, p2, l1, l2, n1, n2, m1, Scenes

VARIABLE scene

accessVars == <<scene, sessionVars, emailVars, roleVars, slVars, imVars>>

(* A component off the scene has one of its initial states, whichever.     *)
AccessInit ==
  /\ scene \in Scenes
  /\ SessionInit /\ EmailInit /\ RoleInit /\ SsoInit /\ ImportInit
  /\ scene # "roles" => setup
  /\ scene # "sso" => slKind = "oidc"

AccessNext ==
  /\ UNCHANGED scene
  /\ \/ /\ scene = "sessions" /\ SessionNext
        /\ UNCHANGED <<emailVars, roleVars, slVars, imVars>>
     \/ /\ scene = "email" /\ EmailNext
        /\ UNCHANGED <<sessionVars, roleVars, slVars, imVars>>
     \/ /\ scene = "roles" /\ RoleNext
        /\ UNCHANGED <<sessionVars, emailVars, slVars, imVars>>
     \/ /\ scene = "sso" /\ SsoNext
        /\ UNCHANGED <<sessionVars, emailVars, roleVars, imVars>>
     \/ /\ scene = "import" /\ ImportNext
        /\ UNCHANGED <<sessionVars, emailVars, roleVars, slVars>>

AccessSpec == AccessInit /\ [][AccessNext]_accessVars

(* Requests are interchangeable, and so are persons, browsers and logins.  *)
AccessSymmetry ==
  Permutations({r1, r2}) \cup Permutations({p1, p2})
    \cup Permutations(Browsers) \cup Permutations(Logins)

(* The same address can be asserted by the provider and held locally.      *)
AssertedAddress == [s \in Subjects |-> "a"]

(* CSV files: any two of four rows, one with every kind of bad row before  *)
(* a good one, and one whose header is refused.                            *)
CsvRow(n, m, r, v) == [name |-> n, mail |-> m, role |-> r, valid |-> v]

CsvRows == {CsvRow(n1, m1, "none", TRUE), CsvRow(n2, m1, "site", TRUE),
            CsvRow(n1, NoEmail, "comp", TRUE), CsvRow(n2, NoEmail, "site", TRUE)}

CsvFiles ==
  {[header |-> "good", rows |-> <<a, b>>] : a \in CsvRows, b \in CsvRows}
  \cup {[header |-> "good",
         rows |-> <<BlankRow, CsvRow(n1, NoEmail, "site", FALSE),
                    CsvRow(n2, NoEmail, "unknown", TRUE),
                    CsvRow(n1, m1, "comp", TRUE)>>],
        [header |-> "bad", rows |-> <<BlankRow>>]}

(* Signing in with an address or a provider: what counts as verified was   *)
(* proved, a reset or a linked login reaches only the holder of the        *)
(* address, and a provider's answer opens one session, in the browser that *)
(* asked, for the account of that person.                                  *)
SignInSafe ==
  /\ scene = "email" =>
       EmailTypeOK /\ VerifiedIsProven /\ ResetByHolder /\ LinkedOnProof
  /\ scene = "sso" => SsoTypeOK /\ SsoSafe
=============================================================================
