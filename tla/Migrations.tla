----------------------------- MODULE Migrations -----------------------------
(***************************************************************************)
(* alembic/versions: the database objects each revision creates, needs and *)
(* drops.  A schema is the set of named objects that exist; a version      *)
(* counts the revisions of the chain that are applied, 0 being alembic's   *)
(* base.  The columns of the tables are left out.                          *)
(***************************************************************************)
EXTENDS Integers

\* The number of revisions: cf1c62d50694, then 3f2b0b5a1d7c.
Head == 2

Version == 0 .. Head

\* upgrade() of cf1c62d50694: the table, its indexes, and the enum type that
\* create_table makes along the way.
ExecutionObjects ==
    {"taskstatus", "task_execution",
     "ix_task_execution_created_at", "ix_task_execution_parent_task_id",
     "ix_task_execution_task_name", "ix_task_execution_tenant_id",
     "ix_task_execution_tenant_status"}

\* upgrade() of 3f2b0b5a1d7c.
AttemptObjects ==
    {"task_attempt",
     "ix_task_attempt_task_execution_id", "ix_task_attempt_tenant_id",
     "ix_task_attempt_task_execution_created", "ix_task_attempt_tenant_created"}

Creates(revision) == IF revision = 1 THEN ExecutionObjects ELSE AttemptObjects

\* The enum of create_type=False and the target of the foreign key.
Needs(revision) == IF revision = 1 THEN {} ELSE {"taskstatus", "task_execution"}

\* A downgrade that drops the type as well.
ExecutionDrops_Type == ExecutionObjects

\* downgrade() of cf1c62d50694: dropping a table does not drop the enum type
\* its column used.
ExecutionDrops == ExecutionObjects \ {"taskstatus"}

\* downgrade() of 3f2b0b5a1d7c.
AttemptDrops == AttemptObjects

Drops(revision) == IF revision = 1 THEN ExecutionDrops ELSE AttemptDrops

\* What the migrations up to a version have made, on a database never
\* downgraded.
MadeBy(version) == UNION {Creates(revision) : revision \in 1 .. version}

\* TimestampedTable indexes created_at, in every table that extends it.
CreatedAtIndex ==
    [task_execution |-> "ix_task_execution_created_at",
     task_attempt   |-> "ix_task_attempt_created_at"]

\* models/task_execution.py: the table, the type of its status, the columns
\* with index=True, and the index of __table_args__.
ExecutionDeclared ==
    {"task_execution", "taskstatus", CreatedAtIndex["task_execution"],
     "ix_task_execution_task_name", "ix_task_execution_tenant_id",
     "ix_task_execution_parent_task_id", "ix_task_execution_tenant_status"}

\* models/task_attempt.py, in the same way.
AttemptDeclared ==
    {"task_attempt", "taskstatus", CreatedAtIndex["task_attempt"],
     "ix_task_attempt_task_execution_id", "ix_task_attempt_tenant_id",
     "ix_task_attempt_task_execution_created", "ix_task_attempt_tenant_created"}

\* SQLModel.metadata, what alembic compares the migrations with.
Declared == ExecutionDeclared \cup AttemptDeclared

\* The pending revisions can run: nothing they create exists, and what they
\* need exists or is created before.
Upgradable(schema, version) ==
    \A revision \in version + 1 .. Head :
        /\ Creates(revision) \cap schema = {}
        /\ Needs(revision) \subseteq
               schema \cup UNION {Creates(r) : r \in version + 1 .. revision - 1}

Upgraded(schema, version) ==
    schema \cup UNION {Creates(revision) : revision \in version + 1 .. Head}

\* What the models declare and no migration makes, and the other way round.
MissingAtHead == Declared \ MadeBy(Head)

UndeclaredAtHead == MadeBy(Head) \ Declared
=============================================================================
