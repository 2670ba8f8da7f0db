---------------------------- MODULE MCFormPage ------------------------------
(* Forms with one kind of widget each besides the reference, two related      *)
(* records and one that can be created, two ids for the form's record.        *)
EXTENDS FormPage
MCForms == {{kind} : kind \in FieldKinds}
=============================================================================
