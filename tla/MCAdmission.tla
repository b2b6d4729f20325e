---------------------------- MODULE MCAdmission ----------------------------
EXTENDS Admission

CONSTANTS selfChange, login      \* the scene "self_change" of one user, and "login"

(* Two protected operations and a public one, each with its own bucket.    *)
MCIssuesTo == [f \in Flow |-> CASE f = "create_authenticated_captcha" -> selfChange
                                [] f = "create_public_captcha" -> login
                                [] OTHER -> NoScope]
MCAnswersFor == [f \in Flow |-> IF f = "change_my_password" THEN selfChange ELSE NoScope]
MCBucketOf == [f \in Flow |-> f]
MCLimit == [b \in Bucket |-> 1]

(* change_password verifies the current password and hashes the new one. *)
MCOperations == [f \in Flow |-> IF f = "change_my_password" THEN 2 ELSE 0]
=============================================================================
