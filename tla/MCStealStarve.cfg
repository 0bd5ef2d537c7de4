SPECIFICATION StealSpec
CONSTANTS
    c1 = c1
    x = x
    None = None
    CPU = {c1}
    Absent = {x}
    Attempts = 1
    NPROC = 3
    MAX_TASKS = 3
PROPERTY RunnableRuns
