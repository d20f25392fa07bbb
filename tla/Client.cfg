SPECIFICATION Spec
CONSTANTS
    Users <- MCUsers
    Visitor <- MCVisitor
INVARIANTS ChangesShown  
