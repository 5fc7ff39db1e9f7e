------------------------------- MODULE Resources -------------------------------
(***************************************************************************)
(* The serializers a service exposes (remote/resources.py): what is        *)
(* checked when a module that declares one is imported, and what a request *)
(* for it gives.  An attribute is told by what the model has under its     *)
(* name:                                                                   *)
(*   "column"     a field with a value that JSON has a form for            *)
(*   "file"       a FileField, read as a FieldFile, never as None          *)
(*   "binary"     a BinaryField, read as bytes or None                     *)
(*   "relation"   a foreign key, read as an instance or None               *)
(*   "attname"    the column of a foreign key: user_id                     *)
(*   "many"       a many-to-many field, or a reverse relation that has a   *)
(*                related_name                                             *)
(*   "accessor"   a reverse relation that has none: book_set, which        *)
(*                get_field() knows as "book"                              *)
(*   "plain"      a property whose value JSON has a form for               *)
(*   "object"     a property whose value is an instance or None            *)
(*   "method"     a method                                                 *)
(*   "unknown"    nothing                                                  *)
(***************************************************************************)
CONSTANTS
    Name,        \* the names that serializers list
    Kind,        \* name -> what the model has under it
    Serializer,  \* the classes under @expose_resource
    Meta         \* serializer -> what its Meta says, and its get_<field>() methods

ASSUME ResourcesAssumption ==
    /\ Kind \in [Name -> {"column", "file", "binary", "relation", "attname", "many", "accessor",
                       "plain", "object", "method", "unknown"}]
    /\ Meta \in [Serializer -> [resource : STRING, explicit : BOOLEAN, fields : SUBSET Name,
                                exclude : SUBSET Name, getters : SUBSET Name]]

NoResource == ""   \* Meta.resource or Meta.model is missing

\* 'fields' and 'exclude' are mutually exclusive.
Conflict(s) == Meta[s].explicit /\ Meta[s].exclude # {}

\* get_fields(): "__all__" means the model's own fields.
Fields(s) ==
    IF Meta[s].explicit THEN Meta[s].fields
    ELSE {n \in Name : Kind[n] \in {"column", "file", "binary", "relation"}} \ Meta[s].exclude

\* What to_representation() reads from the row, for want of a getter.
Read(s) == Fields(s) \ Meta[s].getters

\* model_field.is_relation, of what get_field() finds: a column's name too, but not
\* that of an accessor.
IsRelation(n) == Kind[n] \in {"relation", "attname", "many"}

\* _check_no_unserializable_relation_fields(): a conflict is left to the request.
RelationsChecked(s) == Conflict(s) \/ \A n \in Read(s) : ~IsRelation(n)

\* expose_resource(): what it does not accept raises, and the service does not start.
Accepted(s, registry) ==
    /\ Meta[s].resource # NoResource
    /\ RelationsChecked(s)
    /\ \A other \in registry : Meta[other].resource = Meta[s].resource => other = s

\* What a row may have None for.
Nullable == {n \in Name : Kind[n] \in {"binary", "relation", "object"}}

\* to_representation() of a row, in which the names in null are None, returns: every
\* name is an attribute, and none of them an instance.
Representable(s, null) ==
    /\ ~Conflict(s)
    /\ \A n \in Read(s) : /\ Kind[n] # "unknown"
                          /\ Kind[n] \in {"relation", "object"} => n \in null

\* json.dumps() of that raises no TypeError: DjangoJSONEncoder has no form for a FieldFile,
\* bytes, a bound method, or the manager that is read of a relation to many.
Encodable(s, null) ==
    \A n \in Read(s) : /\ Kind[n] \notin {"file", "many", "accessor", "method"}
                       /\ Kind[n] = "binary" => n \in null
===============================================================================
