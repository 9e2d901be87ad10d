SPECIFICATION Spec
CONSTANTS
    UserKeys <- MCUserKeys
    Tasks <- MCTasks
    Materials <- MCMaterials
    Names <- MCNames
    Values = {v1, v2}
    BatchSize = 1
    NoKey = NoKey
    NoSecret = NoSecret
    NoRow = NoRow
    NoValue = NoValue
    Budgets <- MCBudgets
INVARIANT SafeIsUnused
CHECK_DEADLOCK FALSE
