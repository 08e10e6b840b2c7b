------------------------------ MODULE MCMigration ------------------------------
(***************************************************************************)
(* Instance of Migration for TLC: the fields name, email and phone of the  *)
(* destination "generic".  A header may be a field, mention one in another *)
(* case, mention two, or be neither.                                       *)
(***************************************************************************)
EXTENDS Migration

MCNames ==
    {"Name", "name", "Contact Phone", "contact phone", "Company Phone", "company phone",
     "Mail", "mail", "email", "phone"}
MCLowerOf ==
    [n \in MCNames |-> CASE n = "Name" -> "name" [] n = "Contact Phone" -> "contact phone"
                         [] n = "Company Phone" -> "company phone" [] n = "Mail" -> "mail"
                         [] OTHER -> n]
MCFieldName == <<"name", "email", "phone">>
MCKind == <<"other", "email", "phone">>
MCMentions ==
    <<{"name", "company phone"}, {"email"}, {"phone", "contact phone", "company phone"}>>

(* Two files in the case of a hand-made export and one in lower case.       *)
FilesOf(headers, rows) ==
    {[headers |-> headers, records |-> r] : r \in [1..3 -> rows]}
Contact(name, phone, mail) ==
    "Name" :> name @@ "Contact Phone" :> phone @@ "Mail" :> mail
Company(phone, contact) == "Company Phone" :> phone @@ "contact phone" :> contact
Plain(name, phone, mail) == "name" :> name @@ "phone" :> phone @@ "mail" :> mail
MCUploads ==
    FilesOf({"Name", "Contact Phone", "Mail"},
        {Contact("formula", "national", "TEXT"), Contact("text", "mixed", "text"),
         Contact("text", "text", "formula")})
      \cup FilesOf({"Company Phone", "contact phone"},
        {Company("text", "international"), Company("digits", "formula"),
         Company("empty", "TEXT")})
      \cup FilesOf({"name", "phone", "mail"},
        {Plain("formula", "national", "TEXT"), Plain("text", "mixed", "text"),
         Plain("text", "text", "twoplus"), Plain("text", "empty", "twoplus")})

(* Answers that help, that name a field twice or one that does not exist,   *)
(* a column that does not exist, or a transform that does not.              *)
Columns ==
    {"Mail" :> 2, "mail" :> 2 @@ "contact phone" :> 3, "Mail" :> 2 @@ "Contact Phone" :> 2,
     "Name" :> 3 @@ "Company Phone" :> 2, "email" :> 2 @@ "Name" :> Invented,
     "name" :> 2, <<>>}
MCAnswers ==
    [columns : Columns,
     transforms : SUBSET {"phone_e164", "email_lower", "dedupe"} \cup {{"invented"}}]
=============================================================================
